------------------------------ MODULE NumaLayout ------------------------------
(***************************************************************************)
(* The NUMA layout of a fake node (export/numazones/layout.go) and the two *)
(* things built from it: the NodeResourceTopology of export/nrt/build.go   *)
(* and the pod-resources answer of export/podresources/build.go.           *)
(*                                                                         *)
(* Zones and GPU indexes count from 1 here, from 0 in the code; CPU ids    *)
(* count from 0 in both.  CPU quantities are milli-units.  Memory is split *)
(* by the same function as CPU and is left out.                            *)
(***************************************************************************)
EXTENDS Integers, Sequences, FiniteSets, FiniteSetsExt, SequencesExt

CONSTANTS NoNuma,     \* a pool without a numa block
          NoPod,      \* the holder of a GPU nobody holds
          NoLayout,   \* ResolveZoneLayout returned nil: no simulated zones
          BadLayout,  \* ResolveZoneLayout returned an error
          DefaultSplit \* gpusPerZone or cpuPerZone is not given

Sum(s) == FoldLeft(LAMBDA x, y: x + y, 0, s)

\* Mutant: the remainder is one GPU short.
EvenSplitOneShort(n, zones) ==
  [z \in 1..zones |-> n \div zones + (IF z < n % zones THEN 1 ELSE 0)]

\* Explicit counts must have one entry per zone and sum to the GPU count; else
\* as evenly as possible, the remainder to the lowest zones.
EvenSplit(n, zones) ==
  [z \in 1..zones |-> n \div zones + (IF z <= n % zones THEN 1 ELSE 0)]

DistributeGPUs(n, zones, explicit) ==
  IF explicit = DefaultSplit THEN EvenSplit(n, zones)
  ELSE IF Len(explicit) = zones /\ Sum(explicit) = n THEN explicit
  ELSE BadLayout

\* The override, or the allocatable CPU split evenly with the rest dropped.
PerZoneCPU(numa, allocatable) ==
  IF numa.cpu # DefaultSplit THEN numa.cpu ELSE allocatable \div numa.zones

\* Whole cores of a milli-quantity, halves rounded up.
Cores(milli) == (milli + 500) \div 1000

\* The synthetic core ids of a zone follow those of the zone before it.
CpuIds(cores, z) == ((z - 1) * cores)..(z * cores - 1)

ResolveZoneLayout(numa, n, allocatable) ==
  LET gpus == DistributeGPUs(n, numa.zones, numa.gpus)
      cpu  == PerZoneCPU(numa, allocatable)
  IN  IF numa = NoNuma \/ numa.zones < 1 THEN NoLayout
      ELSE IF gpus = BadLayout THEN BadLayout
      ELSE [zones |-> numa.zones, gpus |-> gpus, cpu |-> cpu,
            ids |-> [z \in 1..numa.zones |-> CpuIds(Cores(cpu), z)]]

\* The zone of a GPU: the first whose cumulative count reaches its index.
GPUIndexToZone(layout, i) ==
  Min({z \in 1..layout.zones : i <= Sum(SubSeq(layout.gpus, 1, z))})

\* The cpulist file: the maximal runs of consecutive ids.
Cpulist(ids) ==
  {r \in ids \X ids : /\ r[1]..r[2] \subseteq ids
                      /\ r[1] <= r[2]
                      /\ r[1] - 1 \notin ids
                      /\ r[2] + 1 \notin ids}

\* What a reader of a cpulist file makes of it.
IdsIn(runs) == UNION {r[1]..r[2] : r \in runs}

\* The NodeResourceTopology: the GPUs and the CPU of every zone.
BuildNRT(layout) == [gpus |-> layout.gpus, cpu |-> layout.cpu]

(* total units over the zones of weights: the floors first, then one unit to *)
(* each of the largest fractional parts, ties to the lowest zone.            *)
LargestRemainder(total, weights) ==
  LET zones   == DOMAIN weights
      sum     == MapThenSumSet(LAMBDA z: weights[z], zones)
      floor   == [z \in zones |-> (total * weights[z]) \div sum]
      frac    == [z \in zones |-> (total * weights[z]) % sum]
      before(z) == {y \in zones : frac[y] > frac[z] \/ (frac[y] = frac[z] /\ y < z)}
      left    == total - MapThenSumSet(LAMBDA z: floor[z], zones)
  IN  IF sum = 0 \/ total <= 0 THEN [z \in zones |-> 0]
      ELSE [z \in zones |-> floor[z] + (IF Cardinality(before(z)) < left THEN 1 ELSE 0)]

\* The entry of one pod: its GPUs, each with its zone, and for the cores charged
\* to a zone the first ids of that zone, as many as it has.
PodEntry(t, layout, pod, milli) ==
  LET mine   == {i \in DOMAIN t : t[i].by = pod /\ i <= Sum(layout.gpus)}
      held   == {<<GPUIndexToZone(layout, i), i>> : i \in mine}
      zones  == {h[1] : h \in held}
      cores  == LargestRemainder(Cores(milli),
                  [z \in zones |-> Cardinality({h \in held : h[1] = z})])
  IN  [pod |-> pod, gpus |-> held,
       cpus |-> UNION {{<<z, c>> : c \in {d \in layout.ids[z] :
                                         d - Min(layout.ids[z]) < cores[z]}} : z \in zones}]

\* One entry for each pod that holds a GPU; requests gives its CPU request.
BuildPodResources(t, layout, requests) ==
  {PodEntry(t, layout, p, requests[p]) : p \in {t[i].by : i \in DOMAIN t} \ {NoPod}}
=============================================================================
