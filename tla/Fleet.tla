--------------------------------- MODULE Fleet ---------------------------------
(***************************************************************************)
(* The components that serve the whole cluster or the kubelet: those of    *)
(* the KWOK nodes, the mock controller and the GPU DRA plugin.  They share *)
(* the API server's objects only as what each of them watches, and no      *)
(* property is about two of them: a behaviour observes one of them, and    *)
(* component says which.                                                   *)
(***************************************************************************)
EXTENDS KwokCluster, MockController, GpuDraPlugin

CONSTANT Observed   \* the components to observe, one per behaviour

vars == <<kwokVars, mockVars, draVars, boundVars>>

KwokRuns(A) == component \in Components /\ A /\ UNCHANGED <<mockVars, draVars>>
MockRuns(A) == component = "mock" /\ A /\ UNCHANGED <<kwokVars, draVars>>
DraRuns(A)  == component = "dra" /\ A /\ UNCHANGED <<kwokVars, mockVars>>

Init ==
  /\ component \in Observed
  /\ KwokInit /\ MockInit /\ DraInit
  /\ BoundsInit

Next == KwokRuns(KwokNext) \/ MockRuns(MockNext) \/ DraRuns(DraNext)

(* Informers deliver, workers and goroutines run, the ticker of the metrics *)
(* and the resync of the mock controller's informer come again and again.   *)
(* Nothing obliges the cluster, a mishap, the scheduler or the kubelet.     *)
Fairness ==
  /\ \A n \in KwokNodes : WF_vars(KwokRuns(Observe(n)))
  /\ WF_vars(KwokRuns(Work)) /\ WF_vars(KwokRuns(Refresh)) /\ WF_vars(KwokRuns(ApplyPatch))
  /\ WF_vars(MockRuns(Pass))

Spec == Init /\ [][Next]_vars /\ Fairness

-----------------------------------------------------------------------------
(* Types and shapes: what every worker, pass and call may hold.             *)
TypeOK ==
  /\ queue \subseteq KwokNodes /\ excused \subseteq KwokNodes
  /\ \A n \in KwokNodes : {seen[n], known[n]} \subseteq Topologies \cup {NoTopology}
  /\ work.at \in {"set", "delete"} => work.left # {}
  /\ \A n \in KwokNodes : known[n] # NoTopology => known[n] = seen[n] \/ n \in queue
  /\ \A p \in Pools : sets[p] # Absent => sets[p].hash \in Versions \X {s.overrides : s \in PoolSpecs}
  /\ pass.at \in {"idle", "render", "cms", "sets"} /\ touched \subseteq Pools
  /\ plugin = "ready" => allocatable \in DeviceSets /\ common
  /\ \A c \in Claims : answer[c].ok => phase[c] \in {"prepare", "unprepare"}

-----------------------------------------------------------------------------
(* What the component promised for node n, where it promised anything.  It  *)
(* did not, and n is excused:                                               *)
(*   exporter  when the last update of the labels failed or kept being      *)
(*             refused: the ConfigMap is not queued again                   *)
(*             (multi_node_watcher.go:87-101);                              *)
(*   gpu, channel  when the object was deleted while the plugin was down;   *)
(*   capacity  when the patch failed, two goroutines of the node overlapped *)
(*             or the GPU count changed (controller.go:57-63).              *)
Mirrors(n) ==
  CASE component = "exporter" ->
         Present(n) => /\ Series(n, obj[n]) \subseteq series
                       /\ labels[n] \in {Len(obj[n]), NoNode} \/ n \in excused
    [] component \in {"gpu", "channel"} ->
         IF Present(n) THEN slice[n] = Devices(obj[n])
         ELSE slice[n] = NoSlice \/ n \in excused
    [] component = "capacity" ->
         Present(n) => capacity[n] = Len(obj[n]) \/ n \in excused
    [] OTHER -> TRUE

(* Every GPU of a KWOK node has its series, for its holder and with its     *)
(* usage as in the ConfigMap, and the node its labels, in the end: a        *)
(* refresh that started before a change puts outdated values back, but a    *)
(* later one replaces them (metrics/multi_node_exporter.go:77-114,          *)
(* labels/multi_node_exporter.go).  Nothing is said of other series of the  *)
(* node: exportNode resets no vector, so that those of former holders and   *)
(* of GPUs it had stay.                                                     *)
ExportsSettle == component = "exporter" => <>[](\A n \in KwokNodes : Mirrors(n))

(* What the scheduler sees of a KWOK node, its two slices and its capacity, *)
(* follows the objects in the end, whatever call failed and however far the *)
(* cache was behind (kwok-dra-plugin, kwok-compute-domain-dra-plugin,       *)
(* kwok-gpu-device-plugin).                                                 *)
ResourcesSettle == component # "exporter" => <>[](\A n \in KwokNodes : Mirrors(n))

(* Nothing is under way for n: neither an event nor a key, nor work on it.  *)
UpToDate(n) ==
  /\ seen[n] = obj[n] /\ n \notin queue
  /\ At("idle") \/ work.node # n
  /\ \A p \in patches : p[1] # n

(* A node for which nothing is under way is as its object says: a call that *)
(* fails, an object that changes while it is worked on and a restart each   *)
(* leave the key queued, an event to come or the node excused; the values   *)
(* of its series may be outdated until the next refresh and are left out    *)
(* (reconcilers of the two DRA plugins, multi_node_watcher.go:87-101,       *)
(* controller.go:57-63).                                                    *)
NothingForgotten ==
  \A n \in KwokNodes : UpToDate(n) =>
    IF component = "exporter"
    THEN Present(n) => labels[n] \in {Len(obj[n]), NoNode} \/ n \in excused
    ELSE Mirrors(n)

(* Once nothing is being exported, no series is left of a node that was     *)
(* deleted.                                                                 *)
DeletedNodeHasNoSeries ==
  component = "exporter" /\ At("idle") /\ refresh = {} =>
    \A s \in series : known[s.node] # NoTopology

-----------------------------------------------------------------------------
\* What the configuration asks of a pool.
Asked(p) ==
  IF config[p] = NotMock THEN Absent
  ELSE <<profile[config[p].profile], config[p].overrides>>

(* A DaemonSet gets a hash only while its ConfigMap has that configuration: *)
(* the pods the new hash restarts read what it stands for                   *)
(* (mock/resources.go:17-19, reconciler.go:43-48).                          *)
RolloutReadsItsConfig ==
  [][\A p \in Pools :
       sets'[p] # Absent /\ (sets[p] = Absent \/ sets'[p].hash # sets[p].hash)
         => cms'[p] = sets'[p].hash]_sets

(* Whichever call failed and whichever DaemonSets others changed or         *)
(* deleted, the resync brings every pool to what is asked of it, as long as *)
(* no pool asks for a profile that is not there (mock/reconciler.go:31-49). *)
MockSettles ==
  component = "mock" =>
    <>[](\/ config = NoConfig
         \/ \E p \in Pools : config[p] # NotMock /\ profile[config[p].profile] = Missing
         \/ \A p \in Pools :
              /\ cms[p] = Asked(p)
              /\ sets[p] = IF Asked(p) = Absent THEN Absent
                           ELSE [hash |-> Asked(p), built |-> TRUE])

-----------------------------------------------------------------------------
(* The CDI ids a running pod was given resolve to the edits of the last     *)
(* configuration that applies, over failed calls, deaths of the plugin and  *)
(* changes of the topology; and no spec file is left of a claim that was    *)
(* unprepared (state.go:107-227, cdi.go:40-115).                            *)
SpecsFollowClaims ==
  \A c \in Claims :
    /\ phase[c] = "free" => specs[c] = NoSpec
    /\ phase[c] = "running" =>
         /\ common /\ specs[c] # NoSpec
         /\ DOMAIN specs[c] = DevicesOf(Allocations[c])
         /\ \A r \in Allocations[c].results :
              \A i \in DOMAIN Allocations[c].configs :
                LET applies(j) == /\ Allocations[c].configs[j].kind # OtherDriver
                                  /\ Allocations[c].configs[j].requests \cap {r[1]} = {} =>
                                       Allocations[c].configs[j].requests = {}
                IN  applies(i) /\ (\A j \in DOMAIN Allocations[c].configs : applies(j) => j <= i)
                      => specs[c][r[2]] = Allocations[c].configs[i].kind
=============================================================================
