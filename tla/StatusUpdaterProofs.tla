------------------------- MODULE StatusUpdaterProofs -------------------------
(***************************************************************************)
(* Type correctness, NoOverAllocation and UsageOwnership of the status     *)
(* updater, for every set of pods, number of GPUs and bound.               *)
(***************************************************************************)
EXTENDS StatusUpdater, FiniteSetTheorems, WellFoundedInduction, TLAPS

-----------------------------------------------------------------------------
(* Finite sets of GPUs                                                     *)

\* The GPUs of a node are finitely many, and so is every set of them.
LEMMA GpuFinite ==
    ASSUME NEW S \in SUBSET GPU
    PROVE  IsFiniteSet(S) /\ Cardinality(S) \in Nat
<1>1. IsFiniteSet(GPU)
    BY FS_Interval, NodeTopologyAssumption DEF GPU
<1>2. IsFiniteSet(S)
    BY <1>1, FS_Subset
<1>3. QED
    BY <1>2, FS_CardinalityType

\* A non-empty set of natural numbers has a least element.
LEMMA NatMinimum ==
    ASSUME NEW S \in SUBSET Nat, S # {}
    PROVE  \E m \in S : \A h \in S : m <= h
<1>1. PICK x \in S : \A y \in S : ~(<<y, x>> \in OpToRel(<, Nat))
    BY WFMin, NatLessThanWellFounded
<1>2. \A y \in S : ~(y < x)
    BY <1>1 DEF OpToRel
<1>3. QED
    BY <1>2

\* A non-empty bounded set of natural numbers has a greatest element.
LEMMA NatMaximum ==
    ASSUME NEW S \in SUBSET Nat, S # {}, NEW n \in Nat, \A h \in S : h <= n
    PROVE  \E m \in S : \A h \in S : h <= m
<1> DEFINE Co == {d \in Nat : \E g \in S : d = n - g}
<1>0. ASSUME NEW h \in S PROVE n - h \in Co
    OBVIOUS
<1>1. Co \in SUBSET Nat /\ Co # {}
    BY <1>0
<1>2. PICK x \in Co : \A y \in Co : x <= y
    BY <1>1, NatMinimum
<1>3. PICK m \in S : x = n - m
    BY <1>2
<1>4. ASSUME NEW h \in S PROVE h <= m
    <2>1. n - h \in Co
        BY <1>0
    <2>2. n - m <= n - h
        BY <2>1, <1>2, <1>3
    <2>3. QED
        BY <2>2
<1>5. QED
    BY <1>4

\* A non-empty set of GPUs has a greatest element.
LEMMA GpuMaximum ==
    ASSUME NEW S \in SUBSET GPU, S # {}
    PROVE  \E m \in S : \A h \in S : h <= m
<1>1. S \in SUBSET Nat /\ GpuCount \in Nat /\ \A h \in S : h <= GpuCount
    BY NodeTopologyAssumption DEF GPU
<1>2. QED
    BY <1>1, NatMaximum

\* The allocation loop of handleDedicatedGpuPodAddition takes free GPUs, and at
\* most as many as were requested.
LEMMA FirstFreeBound ==
    ASSUME NEW topo, NEW n \in Nat
    PROVE  /\ FirstFree(topo, n) \subseteq Free(topo)
           /\ Cardinality(FirstFree(topo, n)) <= n
<1> DEFINE F == FirstFree(topo, n)
           Upto(g) == {h \in Free(topo) : h <= g}
<1>1. F \subseteq Free(topo) /\ Free(topo) \subseteq GPU
    BY DEF FirstFree, Free
<1>2. CASE F = {}
    BY <1>1, <1>2, FS_EmptySet
<1>3. CASE F # {}
    <2>1. PICK m \in F : \A h \in F : h <= m
        BY <1>1, <1>3, GpuMaximum
    <2>2. F \subseteq Upto(m)
        BY <1>1, <2>1
    <2>3. Cardinality(Upto(m)) <= n
        BY <2>1 DEF FirstFree
    <2>4. IsFiniteSet(Upto(m)) /\ Cardinality(Upto(m)) \in Nat
        BY <1>1, GpuFinite
    <2>5. Cardinality(F) <= Cardinality(Upto(m)) /\ Cardinality(F) \in Nat
        BY <2>2, <2>4, <1>1, FS_Subset, GpuFinite
    <2>6. QED
        BY <1>1, <2>3, <2>4, <2>5
<1>4. QED
    BY <1>2, <1>3
-----------------------------------------------------------------------------
(* What the handlers do to a topology                                      *)

\* The part of the inductive invariant about one copy of the topology.
Sound(topo) == topo \in Topology /\ WithinRequest(topo) /\ UsageOwned(topo)

\* The fields of an event the handlers read.
UsageEvent(e) == e.pod \in Pods /\ e.uid \in 1..MaxUid /\ e.phase \in LivePhase \cup {"none"}

\* Writing one usage entry changes that entry only.
LEMMA SetUsageEffect ==
    ASSUME NEW status \in GpuStatus, NEW e, UsageEvent(e)
    PROVE  /\ SetUsage(status, e) \in GpuStatus
           /\ SetUsage(status, e).by = status.by
           /\ \A u \in Uid : SetUsage(status, e).usage[u] =
                                IF u = <<e.pod, e.uid>> THEN e.phase ELSE status.usage[u]
<1>1. <<e.pod, e.uid>> \in Uid
    BY DEF Uid, UsageEvent
<1>2. QED
    BY <1>1 DEF SetUsage, GpuStatus, UsageEvent

\* A free GPU with no usage is a status.
LEMMA EmptyStatusType ==
    /\ EmptyStatus \in GpuStatus
    /\ EmptyStatus.by = NoPod
    /\ \A u \in Uid : EmptyStatus.usage[u] = "none"
BY DEF EmptyStatus, GpuStatus

\* A topology in which every GPU is as in a sound one or reset is sound.
LEMMA ShrinkSound ==
    ASSUME NEW topo, Sound(topo), NEW new \in Topology,
           \A g \in GPU : \/ new[g] = topo[g]
                          \/ /\ new[g].by \in {topo[g].by, NoPod}
                             /\ \A u \in Uid : new[g].usage[u] = "none"
    PROVE  Sound(new)
<1>1. ASSUME NEW p \in Pods PROVE Held(new, p) \subseteq Held(topo, p)
    BY NodeTopologyAssumption DEF Held
<1>2. WithinRequest(new)
    <2>1. ASSUME NEW p \in Pods, IsDedicatedGpuPod(p)
          PROVE  Cardinality(Held(new, p)) <= Request[p]
        <3>1. Held(topo, p) \in SUBSET GPU /\ Held(new, p) \in SUBSET GPU
            BY DEF Held
        <3>2. Cardinality(Held(new, p)) <= Cardinality(Held(topo, p))
            BY <1>1, <3>1, FS_Subset, GpuFinite
        <3>3. Cardinality(Held(topo, p)) <= Request[p]
            BY <2>1 DEF Sound, WithinRequest
        <3>4. Request[p] \in Nat
            BY NodeTopologyAssumption
        <3>5. Cardinality(Held(new, p)) \in Nat /\ Cardinality(Held(topo, p)) \in Nat
            BY <3>1, GpuFinite
        <3>6. QED
            BY <3>2, <3>3, <3>4, <3>5
    <2>2. QED
        BY <1>1, <2>1 DEF Sound, WithinRequest
<1>3. UsageOwned(new)
    BY DEF Sound, UsageOwned
<1>4. QED
    BY <1>2, <1>3 DEF Sound

\* A new ConfigMap is sound.
LEMMA FreshSound == Sound(FreshTopology)
<1>1. FreshTopology \in Topology
    BY EmptyStatusType DEF FreshTopology, Topology
<1>2. ASSUME NEW p \in Pods PROVE Held(FreshTopology, p) = {}
    BY EmptyStatusType, NodeTopologyAssumption DEF Held, FreshTopology
<1>3. WithinRequest(FreshTopology)
    BY <1>2, FS_EmptySet, NodeTopologyAssumption DEF WithinRequest
<1>4. UsageOwned(FreshTopology)
    BY EmptyStatusType DEF UsageOwned, FreshTopology
<1>5. QED
    BY <1>1, <1>3, <1>4 DEF Sound

\* Adding usage entries that their pods may have keeps a topology sound.
LEMMA UsageSound ==
    ASSUME NEW topo, Sound(topo), NEW e, UsageEvent(e), NEW S \in SUBSET GPU,
           e.phase # "none" => \A g \in S : MayUse(e.pod, topo[g].by),
           NEW new, new = [g \in GPU |-> IF g \in S THEN SetUsage(topo[g], e) ELSE topo[g]]
    PROVE  Sound(new)
<1>1. ASSUME NEW g \in GPU
      PROVE  /\ new[g] \in GpuStatus
             /\ new[g].by = topo[g].by
             /\ \A u \in Uid : \/ new[g].usage[u] = topo[g].usage[u]
                               \/ g \in S /\ u[1] = e.pod /\ new[g].usage[u] = e.phase
    <2>1. topo[g] \in GpuStatus
        BY DEF Sound, Topology
    <2>2. CASE g \in S
        BY <2>1, <2>2, SetUsageEffect
    <2>3. CASE g \notin S
        BY <2>1, <2>3
    <2>4. QED
        BY <2>2, <2>3
<1>2. new \in Topology
    BY <1>1 DEF Topology
<1>3. ASSUME NEW p \in Pods PROVE Held(new, p) = Held(topo, p)
    BY <1>1 DEF Held
<1>4. WithinRequest(new)
    BY <1>3 DEF Sound, WithinRequest
<1>5. UsageOwned(new)
    <2>1. ASSUME NEW g \in GPU, NEW u \in Uid, new[g].usage[u] # "none"
          PROVE  MayUse(u[1], new[g].by)
        <3>1. CASE new[g].usage[u] = topo[g].usage[u]
            BY <1>1, <2>1, <3>1 DEF Sound, UsageOwned
        <3>2. CASE g \in S /\ u[1] = e.pod /\ new[g].usage[u] = e.phase
            <4>1. MayUse(e.pod, topo[g].by)
                BY <2>1, <3>2
            <4>2. QED
                BY <4>1, <3>2, <1>1
        <3>3. QED
            BY <1>1, <3>1, <3>2
    <2>2. QED
        BY <2>1 DEF UsageOwned
<1>6. QED
    BY <1>2, <1>4, <1>5 DEF Sound

\* A pod that holds no GPU takes free GPUs, no more than it is due.
LEMMA AllocateSound ==
    ASSUME NEW topo, Sound(topo), NEW e, UsageEvent(e), NEW S \in SUBSET Free(topo),
           ~IsSharedGpuPod(e.pod), Held(topo, e.pod) = {},
           IsDedicatedGpuPod(e.pod) => Cardinality(S) <= Request[e.pod],
           IsDraPod(e.pod) => S \subseteq Claim[e.pod]
    PROVE  Sound(Allocate(topo, S, e))
<1> DEFINE taken(g) == [topo[g] EXCEPT !.by = e.pod]
           new == Allocate(topo, S, e)
<1>0. S \in SUBSET GPU /\ \A g \in S : topo[g].by = NoPod
    BY DEF Free
<1>1. ASSUME NEW g \in GPU PROVE topo[g] \in GpuStatus
    BY DEF Sound, Topology
<1>2. ASSUME NEW g \in S
      PROVE  /\ taken(g) \in GpuStatus /\ taken(g).by = e.pod
             /\ taken(g).usage = topo[g].usage
    BY <1>0, <1>1 DEF GpuStatus, UsageEvent
<1>3. ASSUME NEW g \in S, NEW u \in Uid PROVE taken(g).usage[u] = "none"
    <2>1. ~MayUse(u[1], NoPod)
        BY NodeTopologyAssumption DEF MayUse, Uid
    <2>2. QED
        BY <1>0, <1>2, <2>1 DEF Sound, UsageOwned
<1>4. ASSUME NEW g \in S
      PROVE  /\ new[g] \in GpuStatus /\ new[g].by = e.pod
             /\ \A u \in Uid : new[g].usage[u] # "none" =>
                                  u[1] = e.pod /\ ~IsGpuReservationPod(e.pod)
    <2>1. CASE IsGpuReservationPod(e.pod)
        BY <1>0, <1>2, <1>3, <2>1 DEF Allocate
    <2>2. CASE ~IsGpuReservationPod(e.pod)
        <3>1. new[g] = SetUsage(taken(g), e)
            BY <1>0, <2>2 DEF Allocate
        <3>2. /\ new[g] \in GpuStatus /\ new[g].by = e.pod
              /\ \A u \in Uid : new[g].usage[u] =
                    IF u = <<e.pod, e.uid>> THEN e.phase ELSE taken(g).usage[u]
            <4> HIDE DEF taken, new
            <4>1. QED
                BY <1>2, <3>1, SetUsageEffect
        <3>3. ASSUME NEW u \in Uid, u # <<e.pod, e.uid>> PROVE new[g].usage[u] = "none"
            BY <1>3, <3>2, <3>3
        <3>4. QED
            BY <2>2, <3>2, <3>3
    <2>3. QED
        BY <2>1, <2>2
<1>5. ASSUME NEW g \in GPU, g \notin S PROVE new[g] = topo[g]
    BY <1>5 DEF Allocate
<1>6. new \in Topology
    <2>1. new = [g \in GPU |-> new[g]]
        BY DEF Allocate
    <2>2. \A g \in GPU : new[g] \in GpuStatus
        BY <1>1, <1>4, <1>5
    <2>3. QED
        BY <2>1, <2>2 DEF Topology
<1>7. Held(new, e.pod) = S
    BY <1>0, <1>4, <1>5 DEF Held
<1>8. ASSUME NEW p \in Pods, p # e.pod PROVE Held(new, p) = Held(topo, p)
    BY <1>0, <1>4, <1>5, <1>8, NodeTopologyAssumption DEF Held
<1>9. WithinRequest(new)
    BY <1>7, <1>8 DEF WithinRequest, Sound, UsageEvent
<1>10. UsageOwned(new)
    <2>1. ASSUME NEW g \in GPU, NEW u \in Uid, new[g].usage[u] # "none"
          PROVE  MayUse(u[1], new[g].by)
        <3>1. CASE g \in S
            BY <1>4, <2>1, <3>1 DEF MayUse
        <3>2. CASE g \notin S
            BY <1>5, <2>1, <3>2 DEF Sound, UsageOwned
        <3>3. QED
            BY <3>1, <3>2
    <2>2. QED
        BY <2>1 DEF UsageOwned
<1>11. QED
    BY <1>6, <1>9, <1>10 DEF Sound

\* handleDedicatedGpuPodAddition.
LEMMA DedicatedAdditionSound ==
    ASSUME NEW topo, Sound(topo), NEW e, UsageEvent(e), IsDedicatedGpuPod(e.pod)
    PROVE  Sound(DedicatedAddition(topo, e))
<1>1. CASE Held(topo, e.pod) # {}
    BY <1>1 DEF DedicatedAddition
<1>2. CASE Held(topo, e.pod) = {}
    <2>1. Request[e.pod] \in Nat
        BY NodeTopologyAssumption DEF UsageEvent
    <2>2. ~IsSharedGpuPod(e.pod) /\ ~IsDraPod(e.pod)
        BY DEF IsDedicatedGpuPod, IsSharedGpuPod, IsDraPod
    <2>3. QED
        BY <1>2, <2>1, <2>2, FirstFreeBound, AllocateSound DEF DedicatedAddition
<1>3. QED
    BY <1>1, <1>2

\* The update handlers' refresh, of a pod that is not shared.
LEMMA RefreshUsageSound ==
    ASSUME NEW topo, Sound(topo), NEW e, UsageEvent(e)
    PROVE  Sound(RefreshUsage(topo, e))
<1> DEFINE S == {g \in GPU : topo[g].by = e.pod /\ ~IsGpuReservationPod(e.pod)}
<1>1. RefreshUsage(topo, e) = [g \in GPU |-> IF g \in S THEN SetUsage(topo[g], e) ELSE topo[g]]
    BY DEF RefreshUsage
<1>2. \A g \in S : MayUse(e.pod, topo[g].by)
    BY DEF MayUse
<1>3. QED
    BY <1>1, <1>2, UsageSound

\* handleDraGpuPodAddition and handleDraGpuPodUpdate.
LEMMA DraSound ==
    ASSUME NEW topo, Sound(topo), NEW e, UsageEvent(e), IsDraPod(e.pod),
           NEW devices \in SUBSET Claim[e.pod]
    PROVE  Sound(DraAddition(topo, e, devices)) /\ Sound(DraUpdate(topo, e, devices))
<1>1. ~IsSharedGpuPod(e.pod) /\ ~IsDedicatedGpuPod(e.pod)
    BY DEF IsDedicatedGpuPod, IsSharedGpuPod, IsDraPod
<1>2. ASSUME Held(topo, e.pod) = {} PROVE Sound(DraAllocation(topo, e, devices))
    BY <1>1, <1>2, AllocateSound DEF DraAllocation
<1>3. QED
    BY <1>2, RefreshUsageSound DEF DraAddition, DraUpdate

\* handleDedicatedGpuPodDeletion and handleDraGpuPodDeletion.
LEMMA ReleaseSound ==
    ASSUME NEW topo, Sound(topo), NEW p
    PROVE  Sound(Release(topo, p))
<1>1. ASSUME NEW g \in GPU PROVE topo[g] \in GpuStatus
    BY DEF Sound, Topology
<1>2. Release(topo, p) \in Topology
    BY <1>1, EmptyStatusType DEF Release, Topology
<1>3. QED
    BY <1>2, EmptyStatusType, ShrinkSound DEF Release

\* The usage of a shared pod, set on or deleted from its reservation pod's GPU.
LEMMA SharedSound ==
    ASSUME NEW topo, Sound(topo), NEW e, UsageEvent(e), NEW g \in GPU,
           MayUse(e.pod, topo[g].by)
    PROVE  Sound(SetSharedUsage(topo, g, e)) /\ Sound(DropSharedUsage(topo, g, e))
<1> DEFINE none == [e EXCEPT !.phase = "none"]
<1>1. ASSUME NEW f, UsageEvent(f), f.pod = e.pod PROVE Sound(SetSharedUsage(topo, g, f))
    <2> DEFINE S == {h \in GPU : h = g}
    <2>1. SetSharedUsage(topo, g, f) =
              [h \in GPU |-> IF h \in S THEN SetUsage(topo[h], f) ELSE topo[h]]
        BY DEF SetSharedUsage, Sound, Topology
    <2>2. S \in SUBSET GPU /\ \A h \in S : MayUse(f.pod, topo[h].by)
        BY <1>1
    <2> HIDE DEF S
    <2>3. QED
        BY <1>1, <2>1, <2>2, UsageSound
<1>2. UsageEvent(none) /\ none.pod = e.pod
    BY DEF UsageEvent
<1>3. QED
    BY <1>1, <1>2 DEF DropSharedUsage
-----------------------------------------------------------------------------
(* The pieces of the state machine                                         *)

\* The inductive invariant: the safety properties speak of the ConfigMap and of
\* the two copies together, because a step may write a copy over the ConfigMap.
Inv == TypeOK /\ Sound(cm) /\ Sound(workerTopo) /\ Sound(pruneTopo)

\* The least element of a non-empty set of GPUs belongs to it.
LEMMA FirstMember ==
    ASSUME NEW S \in SUBSET GPU, S # {}
    PROVE  First(S) \in S
<1>1. S \subseteq Nat
    BY NodeTopologyAssumption DEF GPU
<1>2. \E g \in S : \A h \in S : g <= h
    BY <1>1, NatMinimum
<1>3. QED
    BY <1>2 DEF First

\* The next event the pod worker takes, and what is left of the queue.
LEMMA QueueType ==
    ASSUME TypeOK, queue # <<>>
    PROVE  /\ Head(queue) \in PodEvent
           /\ Tail(queue) \in Seq(PodEvent)
           /\ UsageEvent(Head(queue))
<1>1. Head(queue) \in PodEvent /\ Tail(queue) \in Seq(PodEvent)
    BY DEF TypeOK
<1>2. QED
    BY <1>1 DEF PodEvent, UsageEvent

\* The informer's reaction to a change of a pod.
LEMMA NotifyType ==
    ASSUME TypeOK, NEW p \in Pods, NEW base \in Seq(PodEvent), NEW new \in PodObject,
           new.phase # "Absent" => new.uid \in 1..MaxUid
    PROVE  Notify(base, p, new) \in Seq(PodEvent)
<1>1. pods[p] \in PodObject /\ (FilterFunc(pods[p]) => pods[p].uid \in 1..MaxUid)
    BY DEF TypeOK, FilterFunc, LivePhase
<1>2. FilterFunc(new) => new.uid \in 1..MaxUid
    BY DEF FilterFunc, LivePhase
<1>3. ASSUME NEW pod \in PodObject, FilterFunc(pod) => pod.uid \in 1..MaxUid, FilterFunc(pod),
             NEW type \in {"Add", "Update", "Delete"}
      PROVE  Event(type, p, pod) \in PodEvent
    BY <1>3 DEF Event, PodEvent, PodObject, FilterFunc
<1>4. Notification(p, pods[p], new) \in Seq(PodEvent)
    <2>1. CASE FilterFunc(pods[p]) /\ FilterFunc(new)
        BY <1>1, <1>2, <1>3, <2>1 DEF Notification
    <2>2. CASE ~FilterFunc(pods[p]) /\ FilterFunc(new)
        BY <1>1, <1>2, <1>3, <2>2 DEF Notification
    <2>3. CASE FilterFunc(pods[p]) /\ ~FilterFunc(new)
        BY <1>1, <1>2, <1>3, <2>3 DEF Notification
    <2>4. CASE ~FilterFunc(pods[p]) /\ ~FilterFunc(new)
        BY <2>4 DEF Notification
    <2>5. QED
        BY <2>1, <2>2, <2>3, <2>4
<1>5. QED
    BY <1>4 DEF Notify

\* The GPU found for a shared pod is held by its reservation pod: the lookup by
\* name alone is exact because no other pod has the name of a reservation pod.
LEMMA SharedGpuOwner ==
    ASSUME TypeOK, NEW p \in Pods, IsSharedGpuPod(p), NEW g, SharedGpu(p, g)
    PROVE  g \in GPU /\ MayUse(p, cm[g].by)
<1>1. PICK r \in MatchingReservationPods(p) :
          HeldByName(cm, NameOf[r]) # {} /\ g = First(HeldByName(cm, NameOf[r]))
    BY DEF SharedGpu
<1>2. r \in Pods /\ IsGpuReservationPod(r) /\ Group[r] = Group[p]
    BY <1>1 DEF MatchingReservationPods
<1>3. HeldByName(cm, NameOf[r]) \in SUBSET GPU
    BY DEF HeldByName
<1>4. g \in HeldByName(cm, NameOf[r])
    BY <1>1, <1>3, FirstMember
<1>5. g \in GPU /\ cm[g].by \in Pods /\ NameOf[cm[g].by] = NameOf[r]
    BY <1>4 DEF HeldByName
<1>6. cm[g].by = r
    BY <1>2, <1>5, NodeTopologyAssumption DEF IsGpuReservationPod
<1>7. QED
    BY <1>2, <1>5, <1>6 DEF MayUse

\* An iteration of the prune pass.
LEMMA PrunedSound ==
    ASSUME Sound(pruneTopo), NEW i \in GPU
    PROVE  Sound([pruneTopo EXCEPT ![i] = Pruned(@)])
<1> DEFINE new == [pruneTopo EXCEPT ![i] = Pruned(@)]
<1>1. \A g \in GPU : pruneTopo[g] \in GpuStatus
    BY DEF Sound, Topology
<1>2. /\ Pruned(pruneTopo[i]) \in GpuStatus
      /\ Pruned(pruneTopo[i]).by \in {pruneTopo[i].by, NoPod}
      /\ \A u \in Uid : Pruned(pruneTopo[i]).usage[u] = "none"
    BY <1>1, EmptyStatusType DEF Pruned, EmptyStatus, GpuStatus
<1>3. new \in Topology
    BY <1>1, <1>2 DEF Sound, Topology
<1>4. \A g \in GPU : \/ new[g] = pruneTopo[g]
                     \/ /\ new[g].by \in {pruneTopo[g].by, NoPod}
                        /\ \A u \in Uid : new[g].usage[u] = "none"
    BY <1>2 DEF Sound, Topology
<1>5. QED
    BY <1>3, <1>4, ShrinkSound
-----------------------------------------------------------------------------
(* Every step keeps the inductive invariant                                *)

USE DEF api, configMap, podController, pruner, nodeController, bounds

\* The sound topologies of a state are the TypeOK conjuncts about topologies.
LEMMA SoundType == ASSUME NEW topo, Sound(topo) PROVE topo \in Topology
BY DEF Sound

\* The initial state.
LEMMA InitInv == Init => Inv
<1> SUFFICES ASSUME Init PROVE Inv
    OBVIOUS
<1>1. Sound(cm) /\ Sound(workerTopo) /\ Sound(pruneTopo)
    BY FreshSound DEF Init
<1>2. pods \in [Pods -> PodObject] /\ \A p \in Pods : pods[p].phase = "Absent"
    BY NodeTopologyAssumption DEF Init, PodObject, Phase, LivePhase
<1>3. TypeOK
    <2>1. cm \in Topology /\ workerTopo \in Topology /\ pruneTopo \in Topology
        BY <1>1, SoundType
    <2>2. pruneIdx \in 1..(GpuCount + 1) /\ spawned \in Nat
          /\ restarts \in Nat /\ nodeEvents \in Nat /\ faults \in Nat
        BY NodeTopologyAssumption DEF Init
    <2>3. queue \in Seq(PodEvent) /\ claimed \subseteq Pods /\ tasks \subseteq NodeTask
        BY DEF Init
    <2>4. deployed \in BOOLEAN /\ present \in BOOLEAN /\ up \in BOOLEAN
        BY DEF Init
    <2>5. QED
        BY <1>2, <2>1, <2>2, <2>3, <2>4 DEF TypeOK, Init
<1>4. QED
    BY <1>1, <1>3 DEF Inv

\* A change of a pod that the informer sees.
LEMMA ChangePodInv ==
    ASSUME Inv, NEW p \in Pods, NEW new \in PodObject, ChangePod(p, new),
           new.phase # "Absent" => new.uid \in 1..MaxUid,
           claimed' \subseteq Pods
    PROVE  Inv'
<1>1. queue' \in Seq(PodEvent)
    BY NotifyType DEF ChangePod, Inv, TypeOK
<1>2. /\ pods' \in [Pods -> PodObject]
      /\ \A q \in Pods : pods'[q].phase # "Absent" => pods'[q].uid \in 1..MaxUid
    BY DEF ChangePod, Inv, TypeOK
<1>3. QED
    BY <1>1, <1>2 DEF ChangePod, Inv, TypeOK

\* The users of the cluster, the scheduler and the kubelet.
LEMMA ClusterInv ==
    ASSUME Inv, NEW p \in Pods
    PROVE  /\ BindPod(p) => Inv'
           /\ AllocateClaim(p) => Inv'
           /\ StartPod(p) => Inv'
           /\ FinishPod(p) => Inv'
           /\ RemovePod(p) => Inv'
           /\ RemovePodUnseen(p) => Inv'
           /\ ReleaseClaim(p) => Inv'
<1>0. /\ pods[p] \in PodObject /\ claimed \subseteq Pods
      /\ pods[p].phase # "Absent" => pods[p].uid \in 1..MaxUid
    BY DEF Inv, TypeOK
<1>1. ASSUME BindPod(p) PROVE Inv'
    <2> DEFINE new == [uid |-> pods[p].uid + 1, phase |-> "Pending", idx |-> 0]
    <2>1. new \in PodObject /\ new.uid \in 1..MaxUid
        BY <1>0, <1>1, NodeTopologyAssumption DEF BindPod, PodObject, Phase, LivePhase
    <2>2. ChangePod(p, new) /\ claimed' \subseteq Pods
        BY <1>0, <1>1 DEF BindPod
    <2>3. QED
        BY <2>1, <2>2, ChangePodInv
<1>2. ASSUME AllocateClaim(p) PROVE Inv'
    BY <1>0, <1>2 DEF AllocateClaim, Inv, TypeOK
<1>3. ASSUME StartPod(p) PROVE Inv'
    <2> DEFINE new == [pods[p] EXCEPT !.phase = "Running"]
    <2>1. new \in PodObject /\ new.uid \in 1..MaxUid
        BY <1>0, <1>3 DEF StartPod, PodObject, Phase, LivePhase
    <2>2. ChangePod(p, new) /\ claimed' \subseteq Pods
        BY <1>0, <1>3 DEF StartPod
    <2>3. QED
        BY <2>1, <2>2, ChangePodInv
<1>4. ASSUME FinishPod(p) PROVE Inv'
    <2> DEFINE new == [pods[p] EXCEPT !.phase = "Done"]
    <2>1. new \in PodObject /\ new.uid \in 1..MaxUid
        BY <1>0, <1>4 DEF FinishPod, Alive, PodObject, Phase, LivePhase
    <2>2. ChangePod(p, new) /\ claimed' \subseteq Pods
        BY <1>0, <1>4 DEF FinishPod
    <2>3. QED
        BY <2>1, <2>2, ChangePodInv
<1>5. Removed(p) \in PodObject /\ Removed(p).phase = "Absent"
    <2>1. 0 \in 0..GpuCount
        BY NodeTopologyAssumption
    <2>2. QED
        BY <1>0, <2>1 DEF Removed, PodObject, Phase
<1>6. ASSUME RemovePod(p) PROVE Inv'
    <2>1. ChangePod(p, Removed(p)) /\ claimed' \subseteq Pods
        BY <1>0, <1>6 DEF RemovePod
    <2>2. QED
        BY <1>5, <2>1, ChangePodInv
<1>7. ASSUME RemovePodUnseen(p) PROVE Inv'
    <2>1. /\ pods' \in [Pods -> PodObject]
          /\ \A q \in Pods : pods'[q].phase # "Absent" => pods'[q].uid \in 1..MaxUid
        BY <1>5, <1>7 DEF RemovePodUnseen, Inv, TypeOK
    <2>2. QED
        BY <2>1, <1>0, <1>7 DEF RemovePodUnseen, Inv, TypeOK
<1>8. ASSUME ReleaseClaim(p) PROVE Inv'
    BY <1>0, <1>8 DEF ReleaseClaim, Inv, TypeOK
<1>9. QED
    BY <1>1, <1>2, <1>3, <1>4, <1>6, <1>7, <1>8

\* A pod handler that goes on to write a sound topology.
LEMMA WillApplyInv ==
    ASSUME Inv, NEW topo, Sound(topo), WillApply(topo), queue' \in Seq(PodEvent),
           pods' \in [Pods -> PodObject],
           \A q \in Pods : pods'[q].phase # "Absent" => pods'[q].uid \in 1..MaxUid
    PROVE  Inv'
BY SoundType DEF WillApply, Inv, TypeOK

\* The same for the handlers that do not patch a pod.
LEMMA HandlerInv ==
    ASSUME Inv, NEW topo, Sound(topo), WillApply(topo), queue # <<>>,
           queue' = Tail(queue), UNCHANGED pods
    PROVE  Inv'
<1>1. queue' \in Seq(PodEvent)
    BY QueueType DEF Inv
<1>2. QED
    BY <1>1, WillApplyInv DEF Inv, TypeOK

\* The pod controller's worker.
LEMMA PodWorkerInv == Inv /\ PodWorker => Inv'
<1> SUFFICES ASSUME Inv, PodWorker PROVE Inv'
    OBVIOUS
<1> DEFINE e == Head(queue)
<1>0. ASSUME queue # <<>>
      PROVE  UsageEvent(e) /\ e.pod \in Pods /\ Tail(queue) \in Seq(PodEvent)
    BY <1>0, QueueType DEF Inv, UsageEvent
<1>1. CASE HandleAddDedicated
    <2> DEFINE topo == DedicatedAddition(cm, e)
               mine == HeldByName(topo, NameOf[e.pod])
    <2>1. /\ queue # <<>> /\ IsDedicatedGpuPod(e.pod) /\ WillApply(topo)
          /\ IF NeedsGpuIdx(e)
             THEN mine # {} /\ pods[e.pod].phase # "Absent" /\ PatchGpuIdx(e.pod, First(mine))
             ELSE queue' = Tail(queue) /\ UNCHANGED pods
        BY <1>1 DEF HandleAddDedicated, TakeEvent
    <2>2. Sound(topo)
        BY <1>0, <2>1, DedicatedAdditionSound DEF Inv
    <2>3. CASE ~NeedsGpuIdx(e)
        BY <2>1, <2>2, <2>3, HandlerInv
    <2>4. CASE NeedsGpuIdx(e)
        <3> DEFINE new == [pods[e.pod] EXCEPT !.idx = First(mine)]
        <3>1. First(mine) \in 0..GpuCount
            <4>1. mine \in SUBSET GPU
                BY DEF HeldByName
            <4>2. First(mine) \in GPU
                BY <2>1, <2>4, <4>1, FirstMember
            <4>3. QED
                BY <4>2, NodeTopologyAssumption DEF GPU
        <3>2. pods[e.pod] \in PodObject /\ pods[e.pod].uid \in 1..MaxUid
            BY <1>0, <2>1, <2>4 DEF Inv, TypeOK
        <3>3. new \in PodObject /\ new.uid \in 1..MaxUid
            BY <3>1, <3>2 DEF PodObject
        <3>4. pods' = [pods EXCEPT ![e.pod] = new] /\ queue' = Notify(Tail(queue), e.pod, new)
            BY <2>1, <2>4 DEF PatchGpuIdx
        <3>5. queue' \in Seq(PodEvent)
            BY <1>0, <2>1, <3>3, <3>4, NotifyType DEF Inv
        <3>6. /\ pods' \in [Pods -> PodObject]
              /\ \A q \in Pods : pods'[q].phase # "Absent" => pods'[q].uid \in 1..MaxUid
            BY <1>0, <2>1, <3>3, <3>4 DEF Inv, TypeOK
        <3>7. QED
            BY <2>1, <2>2, <3>5, <3>6, WillApplyInv
    <2>5. QED
        BY <2>3, <2>4
<1>2. ASSUME NEW type, HandleShared(type) PROVE Inv'
    <2>1. /\ queue # <<>> /\ IsSharedGpuPod(e.pod)
          /\ queue' = Tail(queue) /\ UNCHANGED pods
        BY <1>2 DEF HandleShared, TakeEvent
    <2>2. PICK g \in GPU :
             /\ SharedGpu(e.pod, g)
             /\ WillApply(IF type = "Delete" THEN DropSharedUsage(cm, g, e)
                                             ELSE SetSharedUsage(cm, g, e))
        BY <1>2 DEF HandleShared
    <2>3. MayUse(e.pod, cm[g].by)
        BY <1>0, <2>1, <2>2, SharedGpuOwner DEF Inv
    <2>4. Sound(SetSharedUsage(cm, g, e)) /\ Sound(DropSharedUsage(cm, g, e))
        BY <1>0, <2>1, <2>3, SharedSound DEF Inv
    <2>5. QED
        BY <2>1, <2>2, <2>4, HandlerInv
<1>3. ASSUME queue # <<>> PROVE ClaimDevices(e.pod) \in SUBSET Claim[e.pod]
    BY DEF ClaimDevices
<1>4. CASE HandleAddDra
    <2>1. /\ queue # <<>> /\ IsDraPod(e.pod) /\ queue' = Tail(queue) /\ UNCHANGED pods
          /\ WillApply(DraAddition(cm, e, ClaimDevices(e.pod)))
        BY <1>4 DEF HandleAddDra, TakeEvent
    <2>2. Sound(DraAddition(cm, e, ClaimDevices(e.pod)))
        BY <1>0, <1>3, <2>1, DraSound DEF Inv
    <2>3. QED
        BY <2>1, <2>2, HandlerInv
<1>5. CASE HandleUpdateDedicated
    <2>1. /\ queue # <<>> /\ queue' = Tail(queue) /\ UNCHANGED pods
          /\ WillApply(RefreshUsage(cm, e))
        BY <1>5 DEF HandleUpdateDedicated, TakeEvent
    <2>2. Sound(RefreshUsage(cm, e))
        BY <1>0, <2>1, RefreshUsageSound DEF Inv
    <2>3. QED
        BY <2>1, <2>2, HandlerInv
<1>6. CASE HandleUpdateDra
    <2>1. /\ queue # <<>> /\ IsDraPod(e.pod) /\ queue' = Tail(queue) /\ UNCHANGED pods
          /\ WillApply(DraUpdate(cm, e, ClaimDevices(e.pod)))
        BY <1>6 DEF HandleUpdateDra, TakeEvent
    <2>2. Sound(DraUpdate(cm, e, ClaimDevices(e.pod)))
        BY <1>0, <1>3, <2>1, DraSound DEF Inv
    <2>3. QED
        BY <2>1, <2>2, HandlerInv
<1>7. CASE HandleDeleteOwner
    <2>1. /\ queue # <<>> /\ queue' = Tail(queue) /\ UNCHANGED pods
          /\ WillApply(Release(cm, e.pod))
        BY <1>7 DEF HandleDeleteOwner, TakeEvent
    <2>2. Sound(Release(cm, e.pod))
        BY ReleaseSound DEF Inv
    <2>3. QED
        BY <2>1, <2>2, HandlerInv
<1>8. CASE DropEvent
    BY <1>0, <1>8 DEF DropEvent, Inv, TypeOK
<1>9. CASE PodApply
    <2>1. Sound(workerTopo') /\ workerTopo' \in Topology
        BY <1>9, FreshSound, SoundType DEF PodApply
    <2>2. QED
        BY <1>9, <2>1 DEF PodApply, Inv, TypeOK
<1>10. QED
    BY <1>1, <1>2, <1>4, <1>5, <1>6, <1>7, <1>8, <1>9 DEF PodWorker

\* Starting goroutines of the node handler.
LEMMA SpawnType ==
    ASSUME TypeOK, NEW ops \in SUBSET {"add", "delete"}, Spawn(ops)
    PROVE  tasks' \subseteq NodeTask /\ spawned' \in Nat
<1>1. ASSUME NEW op \in ops PROVE Task(spawned + 1, op) \in NodeTask
    BY <1>1 DEF Task, NodeTask, TypeOK
<1>2. QED
    BY <1>1 DEF Spawn, TypeOK

\* The node object changes.
LEMMA ChangeNodeInv ==
    ASSUME Inv, NEW new \in {"gone", "plain", "fake"}, ChangeNode(new)
    PROVE  Inv'
<1>1. PICK ops \in SUBSET {"add", "delete"} : Spawn(ops)
    BY DEF ChangeNode
<1>2. tasks' \subseteq NodeTask /\ spawned' \in Nat
    BY <1>1, SpawnType DEF Inv
<1>3. deployed' \in BOOLEAN /\ nodeEvents' \in Nat
    BY DEF ChangeNode, Inv, TypeOK
<1>4. QED
    BY <1>2, <1>3 DEF ChangeNode, Inv, TypeOK

\* A step of a goroutine of the node handler.
LEMMA NodeTaskInv == Inv /\ NodeTaskStep => Inv'
<1> SUFFICES ASSUME Inv, NodeTaskStep PROVE Inv'
    OBVIOUS
<1>1. PICK t \in tasks :
          TaskGet(t) \/ TaskCreate(t) \/ TaskLabel(t) \/ TaskDelete(t) \/ TaskUnlabel(t)
    BY DEF NodeTaskStep
<1>2. t \in NodeTask /\ tasks \subseteq NodeTask
    BY <1>1 DEF Inv, TypeOK
<1>3. tasks' \subseteq NodeTask
    <2>1. ASSUME NEW pc \in {"label", "create", "unlabel"}, Advance(t, pc)
          PROVE  tasks' \subseteq NodeTask
        BY <1>2, <2>1 DEF Advance, NodeTask
    <2>2. ASSUME EndTask(t) PROVE tasks' \subseteq NodeTask
        BY <1>2, <2>2 DEF EndTask
    <2>3. QED
        BY <1>1, <2>1, <2>2 DEF TaskGet, TaskCreate, TaskLabel, TaskDelete, TaskUnlabel
<1>4. deployed' \in BOOLEAN /\ present' \in BOOLEAN
    BY <1>1 DEF TaskGet, TaskCreate, TaskLabel, TaskDelete, TaskUnlabel, Inv, TypeOK
<1>5. cm' = cm \/ cm' = FreshTopology
    BY <1>1 DEF TaskGet, TaskCreate, TaskLabel, TaskDelete, TaskUnlabel
<1>6. Sound(cm)' /\ cm' \in Topology
    BY <1>5, FreshSound, SoundType DEF Inv
<1>7. QED
    BY <1>3, <1>4, <1>6 DEF NodeTaskStep, Inv, TypeOK

\* The prune pass hands over to the node informer.
LEMMA EndPruneType ==
    ASSUME TypeOK, EndPrune
    PROVE  /\ prune' = "done" /\ tasks' \subseteq NodeTask /\ spawned' \in Nat
           /\ Sound(pruneTopo') /\ pruneTopo' \in Topology /\ pruneIdx' \in 1..(GpuCount + 1)
<1>1. PICK ops \in SUBSET {"add", "delete"} : Spawn(ops)
    BY DEF EndPrune
<1>2. Sound(pruneTopo') /\ pruneTopo' \in Topology
    BY FreshSound, SoundType DEF EndPrune
<1>3. pruneIdx' \in 1..(GpuCount + 1)
    BY NodeTopologyAssumption DEF EndPrune
<1>4. QED
    BY <1>1, <1>2, <1>3, SpawnType DEF EndPrune

\* The prune pass.
LEMMA PruneInv == Inv /\ Prune => Inv'
<1> SUFFICES ASSUME Inv, Prune PROVE Inv'
    OBVIOUS
<1>0. ASSUME EndPrune
      PROVE  /\ prune' = "done" /\ tasks' \subseteq NodeTask /\ spawned' \in Nat
             /\ Sound(pruneTopo') /\ pruneTopo' \in Topology /\ pruneIdx' \in 1..(GpuCount + 1)
    BY <1>0, EndPruneType DEF Inv
<1>1. CASE PruneList
    <2>1. CASE present
        <3>1. 1 \in 1..(GpuCount + 1)
            BY NodeTopologyAssumption
        <3>2. QED
            BY <1>1, <2>1, <3>1 DEF PruneList, Inv, TypeOK
    <2>2. CASE ~present
        BY <1>0, <1>1, <2>2 DEF PruneList, Inv, TypeOK
    <2>3. QED
        BY <2>1, <2>2
<1>2. CASE PruneDelete
    <2>1. Sound(cm)' /\ cm' \in Topology
        BY <1>2, FreshSound, SoundType DEF PruneDelete
    <2>2. QED
        BY <1>2, <2>1 DEF PruneDelete, Inv, TypeOK
<1>3. CASE PruneCheck
    <2>1. CASE pruneTopo[pruneIdx].by = NoPod /\ EmptyNameGet = "error"
        BY <1>0, <1>3, <2>1 DEF PruneCheck, Inv, TypeOK
    <2>2. CASE ~(pruneTopo[pruneIdx].by = NoPod /\ EmptyNameGet = "error")
        <3>1. pruneIdx \in GPU /\ pruneIdx + 1 \in 1..(GpuCount + 1)
            BY <1>3, NodeTopologyAssumption DEF PruneCheck, Inv, TypeOK, GPU
        <3>2. pruneTopo' = [pruneTopo EXCEPT ![pruneIdx] = Pruned(@)] /\ pruneIdx' = pruneIdx + 1
            BY <1>3, <2>2 DEF PruneCheck
        <3>3. Sound(pruneTopo') /\ pruneTopo' \in Topology
            BY <3>1, <3>2, PrunedSound, SoundType DEF Inv
        <3>4. QED
            BY <1>3, <2>2, <3>1, <3>2, <3>3 DEF PruneCheck, Inv, TypeOK
    <2>3. QED
        BY <2>1, <2>2
<1>4. CASE PruneApply
    BY <1>0, <1>4 DEF PruneApply, Inv, TypeOK
<1>5. QED
    BY <1>1, <1>2, <1>3, <1>4 DEF Prune

\* Failed API calls.
LEMMA FaultInv == Inv /\ (PodCallFails \/ NodeCallFails \/ PruneCallFails) => Inv'
<1> SUFFICES ASSUME Inv, PodCallFails \/ NodeCallFails \/ PruneCallFails PROVE Inv'
    OBVIOUS
<1>1. CASE PodCallFails
    <2>1. queue' \in Seq(PodEvent)
        BY <1>1, QueueType DEF PodCallFails, Inv, TypeOK
    <2>2. Sound(workerTopo') /\ workerTopo' \in Topology
        BY <1>1, FreshSound, SoundType DEF PodCallFails, Inv
    <2>3. QED
        BY <1>1, <2>1, <2>2 DEF PodCallFails, Inv, TypeOK
<1>2. CASE NodeCallFails
    <2>1. tasks' \subseteq NodeTask
        BY <1>2 DEF NodeCallFails, EndTask, Advance, NodeTask, Inv, TypeOK
    <2>2. QED
        BY <1>2, <2>1 DEF NodeCallFails, Inv, TypeOK
<1>3. CASE PruneCallFails
    BY <1>3, EndPruneType DEF PruneCallFails, Inv, TypeOK
<1>4. QED
    BY <1>1, <1>2, <1>3

\* The process starts: the informer's initial list.
LEMMA StartInv == Inv /\ Start => Inv'
<1> SUFFICES ASSUME Inv, Start PROVE Inv'
    OBVIOUS
<1> DEFINE L == {p \in Pods : FilterFunc(pods[p])}
<1>1. PICK order \in SetToSeqs(L) :
          queue' = [i \in DOMAIN order |-> Event("Add", order[i], pods[order[i]])]
    BY DEF Start
<1>2. PICK n \in Nat : order \in [1..n -> L]
    <2>1. IsFiniteSet(L) /\ Cardinality(L) \in Nat
        BY NodeTopologyAssumption, FS_Subset, FS_CardinalityType
    <2>2. order \in [1..Cardinality(L) -> L]
        BY <1>1 DEF SetToSeqs
    <2>3. QED
        BY <2>1, <2>2
<1>3. ASSUME NEW i \in 1..n PROVE Event("Add", order[i], pods[order[i]]) \in PodEvent
    <2>1. order[i] \in Pods /\ pods[order[i]].phase \in LivePhase
        BY <1>2 DEF FilterFunc
    <2>2. pods[order[i]] \in PodObject /\ pods[order[i]].uid \in 1..MaxUid
        BY <2>1 DEF Inv, TypeOK, LivePhase
    <2>3. QED
        BY <2>1, <2>2 DEF Event, PodEvent, PodObject
<1>4. queue' \in [1..n -> PodEvent]
    BY <1>1, <1>2, <1>3
<1>5. queue' \in Seq(PodEvent)
    BY <1>4
<1>6. QED
    BY <1>5 DEF Start, Inv, TypeOK

\* The process crashes.
LEMMA CrashInv == Inv /\ Crash => Inv'
<1> SUFFICES ASSUME Inv, Crash PROVE Inv'
    OBVIOUS
<1>1. Sound(workerTopo') /\ Sound(pruneTopo')
    BY FreshSound DEF Crash
<1>2. workerTopo' \in Topology /\ pruneTopo' \in Topology
    BY <1>1, SoundType
<1>3. pruneIdx' \in 1..(GpuCount + 1) /\ spawned' \in Nat /\ restarts' \in Nat
    BY NodeTopologyAssumption DEF Crash, Inv, TypeOK
<1>4. queue' \in Seq(PodEvent) /\ tasks' \subseteq NodeTask
    BY DEF Crash
<1>5. QED
    BY <1>1, <1>2, <1>3, <1>4 DEF Crash, Inv, TypeOK

\* The invariant is inductive.
LEMMA NextInv == Inv /\ [Next]_vars => Inv'
<1> SUFFICES ASSUME Inv, [Next]_vars PROVE Inv'
    OBVIOUS
<1>1. CASE Next
    BY <1>1, ClusterInv, ChangeNodeInv, PodWorkerInv, NodeTaskInv, PruneInv, FaultInv,
       StartInv, CrashInv DEF Next
<1>2. CASE UNCHANGED vars
    BY <1>2 DEF vars, Inv, TypeOK
<1>3. QED
    BY <1>1, <1>2

\* What the status updater always maintains, whatever crashes or interleaves.
THEOREM Invariance == Spec => []Inv
BY InitInv, NextInv, PTL DEF Spec

\* The state of the process and of the API server objects stays well typed.
THEOREM TypeCorrect == Spec => []TypeOK
<1>1. Inv => TypeOK
    BY DEF Inv
<1>2. QED
    BY Invariance, <1>1, PTL

\* No pod ever holds more GPUs than it requested or was allocated, in the ConfigMap
\* or in a copy about to be written (isAlreadyAllocated, isDraAlreadyAllocated).
THEOREM NeverOverAllocated == Spec => []NoOverAllocation
<1>1. Inv => NoOverAllocation
    BY DEF Inv, Sound, NoOverAllocation, Copies
<1>2. QED
    BY Invariance, <1>1, PTL

\* No GPU ever reports usage of a pod it is neither allocated to nor shared with.
THEOREM UsageAlwaysOwned == Spec => []UsageOwnership
<1>1. Inv => UsageOwnership
    BY DEF Inv, Sound, UsageOwnership, Copies
<1>2. QED
    BY Invariance, <1>1, PTL
=============================================================================
