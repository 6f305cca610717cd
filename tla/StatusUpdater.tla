---------------------------- MODULE StatusUpdater ----------------------------
(***************************************************************************)
(* The status updater and the topology ConfigMap of one node.              *)
(*                                                                         *)
(* Three actors of the process write the same ConfigMap, each on a copy it *)
(* read earlier and with no version check (server-side Apply with Force):  *)
(*   - the pod controller, one informer worker that handles pod events one *)
(*     after another (controllers/pod, handlers/pod);                      *)
(*   - the prune pass of the node controller, which runs once at start     *)
(*     beside the pod controller (controllers/node);                       *)
(*   - one goroutine per node event (controllers/node, handlers/node).     *)
(* The process may crash and start again; the API server's state survives. *)
(*                                                                         *)
(* The ConfigMap is per node and so is everything the handlers touch, so   *)
(* one node is modelled; events of pods of other nodes only delay it.      *)
(***************************************************************************)
EXTENDS NodeTopology, Sequences, SequencesExt

CONSTANTS
    EmptyNameGet,        \* "error": Get with an empty name fails in client-go
                         \* before any request; "notFound": as a fake clientset
    DisableNodeLabeling, \* the handler's disableLabeling
    LateClaims,          \* the pods that are bound before their claims are allocated
    MixedNode,           \* whether device plugin and DRA plugin both serve the node
    MaxBinds,            \* bound: pods bound in all
    MaxQueue,            \* bound: pod events the informer holds
    MaxRestarts,         \* bound: crashes of the process
    MaxNodeEvents,       \* bound: changes of the node object
    MaxFaults            \* bound: failed API calls and deletions missed by a watch

VARIABLES
    pods,       \* API server: [uid, phase, idx] of each pod
    claimed,    \* API server: the pods whose ResourceClaims are allocated; an
                \* allocation outlives its pod until the claim controller acts
    node,       \* API server: "gone", "plain" or "fake" (has the node-pool label)
    deployed,   \* API server: the node carries the nvidia.com/gpu.deploy.* labels
    present,    \* API server: the topology ConfigMap exists
    cm,         \* API server: the topology it holds
    up,         \* the process runs
    queue,      \* pod events not yet handled, in the informer's order
    worker,     \* "idle", or "apply": a pod handler is about to write workerTopo
    workerTopo, \* (a copy that is not in use is FreshTopology)
    prune,      \* "list", "delete", "check" or "done"
    pruneTopo,
    pruneIdx,   \* next GPU the prune pass looks at
    tasks,      \* running goroutines of the node handler: [id, op, pc]
    spawned,    \* goroutines started since the process started
    restarts, nodeEvents, faults

api == <<pods, claimed, node, deployed>>
configMap == <<present, cm>>
podController == <<queue, worker, workerTopo>>
pruner == <<prune, pruneTopo, pruneIdx>>
nodeController == <<tasks, spawned>>
bounds == <<restarts, nodeEvents, faults>>
vars == <<api, configMap, up, podController, pruner, nodeController, bounds>>

Phase == LivePhase \cup {"Absent", "Done"}
PodObject == [uid : 0..MaxUid, phase : Phase, idx : 0..GpuCount]
PodEvent == [type : {"Add", "Update", "Delete"}, pod : Pods, uid : 1..MaxUid,
             phase : LivePhase, idx : 0..GpuCount]
NodeTask == [id : Nat, op : {"add", "delete"}, pc : {"get", "create", "label", "delete", "unlabel"}]

ASSUME StatusUpdaterAssumption ==
    /\ EmptyNameGet \in {"error", "notFound"}
    /\ DisableNodeLabeling \in BOOLEAN
    /\ LateClaims \subseteq Pods
    /\ MixedNode \in BOOLEAN
    /\ {MaxBinds, MaxQueue, MaxRestarts, MaxNodeEvents, MaxFaults} \subseteq Nat

TypeOK ==
    /\ pods \in [Pods -> PodObject]
    /\ \A p \in Pods : pods[p].phase # "Absent" => pods[p].uid \in 1..MaxUid
    /\ claimed \subseteq Pods
    /\ node \in {"gone", "plain", "fake"}
    /\ deployed \in BOOLEAN
    /\ present \in BOOLEAN
    /\ cm \in Topology
    /\ up \in BOOLEAN
    /\ queue \in Seq(PodEvent)
    /\ worker \in {"idle", "apply"}
    /\ workerTopo \in Topology
    /\ prune \in {"list", "delete", "check", "done"}
    /\ pruneTopo \in Topology
    /\ pruneIdx \in 1..(GpuCount + 1)
    /\ tasks \subseteq NodeTask
    /\ spawned \in Nat
    /\ restarts \in Nat /\ nodeEvents \in Nat /\ faults \in Nat

\* A fresh installation on a labelled node: nothing runs, no ConfigMap yet.
Init ==
    /\ pods = [p \in Pods |-> [uid |-> 0, phase |-> "Absent", idx |-> 0]]
    /\ claimed = {}
    /\ node = "fake" /\ deployed = FALSE
    /\ present = FALSE /\ cm = FreshTopology
    /\ up = FALSE
    /\ queue = <<>> /\ worker = "idle" /\ workerTopo = FreshTopology
    /\ prune = "list" /\ pruneTopo = FreshTopology /\ pruneIdx = 1
    /\ tasks = {} /\ spawned = 0
    /\ restarts = 0 /\ nodeEvents = 0 /\ faults = 0
-----------------------------------------------------------------------------
(* Pods at the API server, and the pod informer                            *)

\* Mutant: terminated pods pass.
FilterFuncNoTerminated(pod) == pod.phase # "Absent"

\* FilterFunc of the pod controller; every pod of Pods is a GPU pod, and is
\* bound from its first appearance here.
FilterFunc(pod) == pod.phase \in LivePhase

Event(type, p, pod) ==
    [type |-> type, pod |-> p, uid |-> pod.uid, phase |-> pod.phase, idx |-> pod.idx]

\* cache.FilteringResourceEventHandler: what an update from old to new becomes.
Notification(p, old, new) ==
    CASE FilterFunc(old) /\ FilterFunc(new) -> <<Event("Update", p, new)>>
      [] ~FilterFunc(old) /\ FilterFunc(new) -> <<Event("Add", p, new)>>
      [] FilterFunc(old) /\ ~FilterFunc(new) -> <<Event("Delete", p, old)>>
      [] OTHER -> <<>>

Notify(base, p, new) == IF up THEN base \o Notification(p, pods[p], new) ELSE base

\* Some client changes the pod and the informer is told.
ChangePod(p, new) ==
    /\ Len(queue) < MaxQueue
    /\ pods' = [pods EXCEPT ![p] = new]
    /\ queue' = Notify(queue, p, new)
    /\ UNCHANGED <<node, deployed, configMap, up, worker, workerTopo, pruner, nodeController, bounds>>

Alive(p) == pods[p].phase \in LivePhase

\* One slot per GPU that a pod of S requests as nvidia.com/gpu, and how many
\* GPUs the scheduler counts as taken by them.
Slots(S) == UNION {{p} \X (1..Request[p]) : p \in {q \in S : IsDedicatedGpuPod(q)}}
Demand(S) == Cardinality(Slots(S))

\* The devices of p's claims are published, from the ConfigMap, and unused.
Allocatable(p) == present /\ \A q \in claimed : Claim[p] \cap Claim[q] = {}

BoundSoFar == FoldSet(LAMBDA p, n : n + pods[p].uid, 0, Pods)

\* The scheduler binds a pod: within the capacity the device plugin
\* advertises from the ConfigMap; a sharer after its reservation pod, whose
\* generated name is never used twice.
BindPod(p) ==
    /\ pods[p].phase = "Absent"
    /\ pods[p].uid < MaxUid /\ BoundSoFar < MaxBinds
    /\ MixedNode \/ \A q \in Pods : pods[q].uid > 0 => (IsDraPod(q) <=> IsDraPod(p))
    /\ IsDedicatedGpuPod(p) =>
          present /\ Demand({q \in Pods : Alive(q)} \cup {p}) <= GpuCount
    /\ IsSharedGpuPod(p) =>
          \E r \in Pods : IsGpuReservationPod(r) /\ Group[r] = Group[p] /\ Alive(r)
    /\ IsGpuReservationPod(p) => pods[p].uid = 0
    /\ p \notin claimed
    /\ IsDraPod(p) /\ p \notin LateClaims => Allocatable(p)
    /\ claimed' = IF IsDraPod(p) /\ p \notin LateClaims THEN claimed \cup {p} ELSE claimed
    /\ ChangePod(p, [uid |-> pods[p].uid + 1, phase |-> "Pending", idx |-> 0])

\* The scheduler allocates the claims of a pod that was already bound.
AllocateClaim(p) ==
    /\ p \in LateClaims /\ IsDraPod(p) /\ Alive(p) /\ p \notin claimed
    /\ Allocatable(p)
    /\ claimed' = claimed \cup {p}
    /\ UNCHANGED <<pods, node, deployed, configMap, up, podController, pruner, nodeController, bounds>>

\* The kubelet starts a pod once its claims are prepared.
StartPod(p) ==
    /\ pods[p].phase = "Pending"
    /\ IsDraPod(p) => p \in claimed
    /\ ChangePod(p, [pods[p] EXCEPT !.phase = "Running"])
    /\ UNCHANGED claimed

FinishPod(p) ==
    /\ Alive(p)
    /\ ChangePod(p, [pods[p] EXCEPT !.phase = "Done"])
    /\ UNCHANGED claimed

Removed(p) == [pods[p] EXCEPT !.phase = "Absent", !.idx = 0]

RemovePod(p) ==
    /\ pods[p].phase # "Absent"
    /\ ChangePod(p, Removed(p))
    /\ UNCHANGED claimed

\* The claims of a terminated or removed pod are deallocated.
ReleaseClaim(p) ==
    /\ p \in claimed /\ ~Alive(p)
    /\ claimed' = claimed \ {p}
    /\ UNCHANGED <<pods, node, deployed, configMap, up, podController, pruner, nodeController, bounds>>

\* The watch breaks, the pod is removed, and the relist reports the deletion
\* as a DeletedFinalStateUnknown: FilterFunc's default case drops it.
RemovePodUnseen(p) ==
    /\ up /\ pods[p].phase # "Absent"
    /\ faults < MaxFaults /\ faults' = faults + 1
    /\ pods' = [pods EXCEPT ![p] = Removed(p)]
    /\ UNCHANGED <<claimed, node, deployed, configMap, up, podController, pruner, nodeController, restarts, nodeEvents>>
-----------------------------------------------------------------------------
(* The pod handlers: Get the ConfigMap, change a copy, Apply it            *)

\* The reservation pods a live List finds for the shared pod p.
MatchingReservationPods(p) ==
    {r \in Pods : IsGpuReservationPod(r) /\ Group[r] = Group[p] /\ pods[r].phase # "Absent"}

\* getMatchingReservationPodGpuIdx succeeds with g for some order of the list.
SharedGpu(p, g) ==
    \E r \in MatchingReservationPods(p) :
        HeldByName(cm, NameOf[r]) # {} /\ g = First(HeldByName(cm, NameOf[r]))

\* ... and fails for some order of the list.
SharedGpuMissing(p) ==
    \/ MatchingReservationPods(p) = {}
    \/ \E r \in MatchingReservationPods(p) : HeldByName(cm, NameOf[r]) = {}

\* getDeviceNamesFromClaims, unless the pod is already allocated: no device
\* before the claims are allocated; an error once the claims went with the
\* incarnation of the pod the event is about, which happens after its removal.
ClaimDevices(p) == IF p \in claimed THEN Claim[p] ELSE {}
ClaimsRead(e) == pods[e.pod].uid = e.uid \/ Held(cm, e.pod) # {}
ClaimsMissing(e) ==
    /\ pods[e.pod].uid # e.uid \/ (pods[e.pod].phase = "Absent" /\ e.pod \notin claimed)
    /\ Held(cm, e.pod) = {}

\* The worker takes the next event and the Get of the ConfigMap succeeds.
TakeEvent(type) ==
    /\ up /\ worker = "idle" /\ queue # <<>> /\ Head(queue).type = type
    /\ present

\* The handler goes on to UpdateNodeTopologyCM with the topology topo.
WillApply(topo) ==
    /\ worker' = "apply" /\ workerTopo' = topo
    /\ UNCHANGED <<claimed, node, deployed, configMap, up, pruner, nodeController, bounds>>

\* setReservationPodGpuIdxAnnotationIfNeeded patches the pod of this name,
\* whichever incarnation that is now, and the informer reports the change.
PatchGpuIdx(p, g) ==
    LET new == [pods[p] EXCEPT !.idx = g]
    IN  /\ pods' = [pods EXCEPT ![p] = new]
        /\ queue' = Notify(Tail(queue), p, new)

\* Mutant: the annotation is never set.
NeedsNoGpuIdx(e) == FALSE

\* A reservation pod that is not yet allocated and has no index annotation.
NeedsGpuIdx(e) == IsGpuReservationPod(e.pod) /\ Held(cm, e.pod) = {} /\ e.idx = 0

HandleAddDedicated ==
    /\ TakeEvent("Add")
    /\ LET e == Head(queue)
           topo == DedicatedAddition(cm, e)
           mine == HeldByName(topo, NameOf[e.pod])
       IN  /\ IsDedicatedGpuPod(e.pod)
           /\ IF NeedsGpuIdx(e)
              THEN mine # {} /\ pods[e.pod].phase # "Absent" /\ PatchGpuIdx(e.pod, First(mine))
              ELSE queue' = Tail(queue) /\ UNCHANGED pods
           /\ WillApply(topo)

HandleShared(type) ==
    /\ TakeEvent(type)
    /\ LET e == Head(queue)
       IN  /\ IsSharedGpuPod(e.pod)
           /\ \E g \in GPU :
                 /\ SharedGpu(e.pod, g)
                 /\ WillApply(IF type = "Delete" THEN DropSharedUsage(cm, g, e)
                                                 ELSE SetSharedUsage(cm, g, e))
    /\ queue' = Tail(queue) /\ UNCHANGED pods

HandleAddDra ==
    /\ TakeEvent("Add")
    /\ LET e == Head(queue)
       IN  /\ IsDraPod(e.pod) /\ ClaimsRead(e)
           /\ WillApply(DraAddition(cm, e, ClaimDevices(e.pod)))
    /\ queue' = Tail(queue) /\ UNCHANGED pods

HandleUpdateDedicated ==
    /\ TakeEvent("Update")
    /\ IsDedicatedGpuPod(Head(queue).pod)
    /\ WillApply(RefreshUsage(cm, Head(queue)))
    /\ queue' = Tail(queue) /\ UNCHANGED pods

HandleUpdateDra ==
    /\ TakeEvent("Update")
    /\ LET e == Head(queue)
       IN  /\ IsDraPod(e.pod) /\ ClaimsRead(e)
           /\ WillApply(DraUpdate(cm, e, ClaimDevices(e.pod)))
    /\ queue' = Tail(queue) /\ UNCHANGED pods

HandleDeleteOwner ==
    /\ TakeEvent("Delete")
    /\ ~IsSharedGpuPod(Head(queue).pod)
    /\ WillApply(Release(cm, Head(queue).pod))
    /\ queue' = Tail(queue) /\ UNCHANGED pods

\* The error returns of the handlers: the event is logged and forgotten.
HandlerFails(e) ==
    \/ ~present
    \/ IsSharedGpuPod(e.pod) /\ SharedGpuMissing(e.pod)
    \/ e.type # "Delete" /\ IsDraPod(e.pod) /\ ClaimsMissing(e)
    \/ /\ e.type = "Add" /\ NeedsGpuIdx(e)
       /\ \/ pods[e.pod].phase = "Absent"
          \/ HeldByName(DedicatedAddition(cm, e), NameOf[e.pod]) = {}

DropEvent ==
    /\ up /\ worker = "idle" /\ queue # <<>>
    /\ HandlerFails(Head(queue))
    /\ queue' = Tail(queue)
    /\ UNCHANGED <<api, configMap, up, worker, workerTopo, pruner, nodeController, bounds>>

\* UpdateNodeTopologyCM: Apply with Force overwrites, or creates.
PodApply ==
    /\ worker = "apply"
    /\ present' = TRUE /\ cm' = workerTopo
    /\ worker' = "idle" /\ workerTopo' = FreshTopology
    /\ UNCHANGED <<api, up, queue, pruner, nodeController, bounds>>

\* The Get or the Apply of the ConfigMap fails.
PodCallFails ==
    /\ faults < MaxFaults /\ faults' = faults + 1
    /\ \/ worker = "apply" /\ worker' = "idle" /\ workerTopo' = FreshTopology /\ UNCHANGED queue
       \/ up /\ worker = "idle" /\ queue # <<>> /\ queue' = Tail(queue) /\ UNCHANGED <<worker, workerTopo>>
    /\ UNCHANGED <<api, configMap, up, pruner, nodeController, restarts, nodeEvents>>

PodWorker ==
    \/ HandleAddDedicated \/ HandleAddDra
    \/ HandleUpdateDedicated \/ HandleUpdateDra \/ HandleDeleteOwner
    \/ \E type \in {"Add", "Update", "Delete"} : HandleShared(type)
    \/ DropEvent \/ PodApply
-----------------------------------------------------------------------------
(* The node handler                                                        *)

Task(id, op) == [id |-> id, op |-> op, pc |-> IF op = "add" THEN "get" ELSE "delete"]

\* go func() { c.handler.HandleAdd / HandleDelete }
Spawn(ops) ==
    /\ tasks' = tasks \cup {Task(spawned + 1, op) : op \in ops}
    /\ spawned' = IF ops = {} THEN spawned ELSE spawned + 1

\* Mutant: the initial list is not handled.
EndPruneUnlisted ==
    prune' = "done" /\ pruneTopo' = FreshTopology /\ pruneIdx' = 1 /\ Spawn({})

\* The node informer starts when the prune pass ends and lists the node.
EndPrune ==
    /\ prune' = "done" /\ pruneTopo' = FreshTopology /\ pruneIdx' = 1
    /\ Spawn(IF node = "fake" THEN {"add"} ELSE {})

\* A client adds or removes the node-pool label, or deletes or creates the node.
ChangeNode(new) ==
    /\ nodeEvents < MaxNodeEvents /\ nodeEvents' = nodeEvents + 1
    /\ node # new
    /\ node' = new
    /\ deployed' = (deployed /\ new # "gone")
    /\ Spawn(CASE prune # "done" \/ ~up -> {}
               [] node = "fake" -> {"delete"}
               [] new = "fake" -> {"add"}
               [] OTHER -> {})
    /\ UNCHANGED <<pods, claimed, configMap, up, podController, pruner, restarts, faults>>

Advance(t, pc) == tasks' = (tasks \ {t}) \cup {[t EXCEPT !.pc = pc]}
EndTask(t) == tasks' = tasks \ {t}

\* Mutant: an existing ConfigMap ends the handler.
TaskGetReturns(t) ==
    /\ t.pc = "get"
    /\ IF present THEN EndTask(t) ELSE Advance(t, "create")
    /\ UNCHANGED <<deployed, configMap>>

\* createNodeTopologyCM: an existing ConfigMap is left as it is.
TaskGet(t) ==
    /\ t.pc = "get"
    /\ Advance(t, IF present THEN "label" ELSE "create")
    /\ UNCHANGED <<deployed, configMap>>

\* CreateNodeTopologyCM: Create fails when the ConfigMap exists by now.
TaskCreate(t) ==
    /\ t.pc = "create"
    /\ IF present
       THEN EndTask(t) /\ UNCHANGED configMap
       ELSE present' = TRUE /\ cm' = FreshTopology /\ Advance(t, "label")
    /\ UNCHANGED deployed

\* labelNode: the Patch fails when the node is gone.
TaskLabel(t) ==
    /\ t.pc = "label"
    /\ deployed' = (deployed \/ (~DisableNodeLabeling /\ node # "gone"))
    /\ EndTask(t)
    /\ UNCHANGED configMap

\* DeleteNodeTopologyCM, a missing ConfigMap is no error.
TaskDelete(t) ==
    /\ t.pc = "delete"
    /\ present' = FALSE /\ cm' = FreshTopology
    /\ Advance(t, "unlabel")
    /\ UNCHANGED deployed

TaskUnlabel(t) ==
    /\ t.pc = "unlabel"
    /\ deployed' = (deployed /\ DisableNodeLabeling)
    /\ EndTask(t)
    /\ UNCHANGED configMap

NodeTaskStep ==
    /\ \E t \in tasks : TaskGet(t) \/ TaskCreate(t) \/ TaskLabel(t) \/ TaskDelete(t) \/ TaskUnlabel(t)
    /\ UNCHANGED <<pods, claimed, node, up, podController, pruner, spawned, bounds>>

\* An API call of a node handler, or resolving the node pool, fails; any error
\* of the Get is taken for a missing ConfigMap.
NodeCallFails ==
    /\ faults < MaxFaults /\ faults' = faults + 1
    /\ \E t \in tasks : IF t.pc = "get" THEN Advance(t, "create") ELSE EndTask(t)
    /\ UNCHANGED <<api, configMap, up, podController, pruner, spawned, restarts, nodeEvents>>
-----------------------------------------------------------------------------
(* pruneTopologyConfigMaps                                                 *)

\* Lists the fake GPU nodes and the topology ConfigMaps.
PruneList ==
    /\ up /\ prune = "list"
    /\ IF present
       THEN /\ prune' = IF node = "fake" THEN "check" ELSE "delete"
            /\ pruneTopo' = cm /\ pruneIdx' = 1
            /\ UNCHANGED nodeController
       ELSE EndPrune
    /\ UNCHANGED <<api, configMap, up, podController, bounds>>

\* The ConfigMap of a node that is no fake GPU node: deleted, and then
\* treated like the others.
PruneDelete ==
    /\ up /\ prune = "delete"
    /\ present' = FALSE /\ cm' = FreshTopology
    /\ prune' = "check"
    /\ UNCHANGED <<api, up, podController, pruneTopo, pruneIdx, nodeController, bounds>>

\* isPodExist: any object of that name, terminated or not.
IsPodExist(p) == p # NoPod /\ pods[p].phase # "Absent"

\* Mutant: the usage of a removed pod stays.
PrunedOwnerOnly(status) ==
    IF IsPodExist(status.by) THEN status ELSE [status EXCEPT !.by = NoPod]

\* What an iteration leaves of a GPU's status.
Pruned(status) == [EmptyStatus EXCEPT !.by = IF IsPodExist(status.by) THEN status.by ELSE NoPod]

\* One iteration of the loop over the GPUs: an error ends the pass for this
\* ConfigMap before it is written.
PruneCheck ==
    /\ up /\ prune = "check" /\ pruneIdx <= GpuCount
    /\ IF pruneTopo[pruneIdx].by = NoPod /\ EmptyNameGet = "error"
       THEN EndPrune
       ELSE /\ pruneTopo' = [pruneTopo EXCEPT ![pruneIdx] = Pruned(@)]
            /\ pruneIdx' = pruneIdx + 1
            /\ UNCHANGED <<prune, nodeController>>
    /\ UNCHANGED <<api, configMap, up, podController, bounds>>

PruneApply ==
    /\ up /\ prune = "check" /\ pruneIdx = GpuCount + 1
    /\ present' = TRUE /\ cm' = pruneTopo
    /\ EndPrune
    /\ UNCHANGED <<api, up, podController, bounds>>

\* A failed Delete is only logged; a failed Get of a pod or a failed Apply
\* ends the pass for this ConfigMap.  (A failed List ends the process: Crash.)
PruneCallFails ==
    /\ faults < MaxFaults /\ faults' = faults + 1
    /\ up
    /\ \/ prune = "delete" /\ prune' = "check" /\ UNCHANGED <<pruneTopo, pruneIdx, nodeController>>
       \/ prune = "check" /\ EndPrune
    /\ UNCHANGED <<api, configMap, up, podController, restarts, nodeEvents>>

Prune == PruneList \/ PruneDelete \/ PruneCheck \/ PruneApply
-----------------------------------------------------------------------------
(* The process                                                             *)

\* Run starts the controllers together: the pod informer's initial list, in
\* any order, and the prune pass.
Start ==
    /\ ~up /\ up' = TRUE
    /\ \E order \in SetToSeqs({p \in Pods : FilterFunc(pods[p])}) :
          queue' = [i \in DOMAIN order |-> Event("Add", order[i], pods[order[i]])]
    /\ prune' = "list"
    /\ UNCHANGED <<api, configMap, worker, workerTopo, pruneTopo, pruneIdx, nodeController, bounds>>

\* All volatile state is lost.
Crash ==
    /\ up /\ up' = FALSE
    /\ restarts < MaxRestarts /\ restarts' = restarts + 1
    /\ queue' = <<>> /\ worker' = "idle" /\ workerTopo' = FreshTopology
    /\ prune' = "list" /\ pruneTopo' = FreshTopology /\ pruneIdx' = 1
    /\ tasks' = {} /\ spawned' = 0
    /\ UNCHANGED <<api, configMap, nodeEvents, faults>>

Next ==
    \/ \E p \in Pods : \/ BindPod(p) \/ AllocateClaim(p) \/ StartPod(p)
                       \/ FinishPod(p) \/ RemovePod(p) \/ RemovePodUnseen(p) \/ ReleaseClaim(p)
    \/ \E new \in {"gone", "plain", "fake"} : ChangeNode(new)
    \/ PodWorker \/ PodCallFails
    \/ NodeTaskStep \/ NodeCallFails
    \/ Prune \/ PruneCallFails
    \/ Start \/ Crash

Spec == Init /\ [][Next]_vars

\* The process is restarted when it is down, informer workers and goroutines
\* are scheduled; nothing is assumed of the cluster's users.
Fairness == WF_vars(PodWorker) /\ WF_vars(NodeTaskStep) /\ WF_vars(Prune) /\ WF_vars(Start)
FairSpec == Spec /\ Fairness
-----------------------------------------------------------------------------
(* What holds in every run, whatever crashes, fails or interleaves         *)

\* The topologies in play: the ConfigMap and the copies about to overwrite it.
Copies == {cm, workerTopo, pruneTopo}

WithinRequest(topo) ==
    \A p \in Pods :
        /\ IsDedicatedGpuPod(p) => Cardinality(Held(topo, p)) <= Request[p]
        /\ IsDraPod(p) => Held(topo, p) \subseteq Claim[p]
        /\ IsSharedGpuPod(p) => Held(topo, p) = {}

\* No pod holds more GPUs than it asked for, in the ConfigMap or in a copy that
\* will replace it: the "already allocated" tests make the handlers idempotent
\* when the informer replays a pod after a restart, and nothing written over a
\* newer ConfigMap adds up to more.  A DRA pod holds only devices of its claims
\* and a shared pod holds none.
NoOverAllocation == \A topo \in Copies : WithinRequest(topo)

\* p may have a usage entry on a GPU allocated to by.
MayUse(p, by) ==
    \/ by = p /\ ~IsGpuReservationPod(p)
    \/ by \in Pods /\ IsSharedGpuPod(p) /\ IsGpuReservationPod(by) /\ Group[by] = Group[p]

UsageOwned(topo) ==
    \A g \in GPU, u \in Uid : topo[g].usage[u] # "none" => MayUse(u[1], topo[g].by)

\* Every usage entry belongs to the pod the GPU is allocated to or to a sharer
\* of the reservation pod it is allocated to: a GPU never reports utilisation
\* of a pod whose allocation was released, and a free GPU reports none.
UsageOwnership == \A topo \in Copies : UsageOwned(topo)
-----------------------------------------------------------------------------
(* What holds when nothing is left to do                                   *)

Quiescent == up /\ queue = <<>> /\ worker = "idle" /\ prune = "done" /\ tasks = {}

\* Every GPU of the ConfigMap is free or allocated to a live pod, and a usage
\* entry is that of a live incarnation: no deletion was lost on the way.
NoStaleAllocation ==
    Quiescent /\ present =>
        \A g \in GPU :
            /\ cm[g].by # NoPod => Alive(cm[g].by)
            /\ \A u \in Uid : cm[g].usage[u] # "none" => Alive(u[1]) /\ u[2] = pods[u[1]].uid

\* The GPUs a settled live pod is entitled to.
Entitled(p, S) ==
    CASE IsDedicatedGpuPod(p) -> Cardinality(S) = Request[p]
      [] IsDraPod(p) -> pods[p].phase = "Running" => S = Claim[p]
      [] IsSharedGpuPod(p) -> S = {}

\* Every live pod has all the GPUs it is entitled to, although the handlers
\* allocate on the pod's addition only and never come back to a shortage.
AllocationComplete ==
    Quiescent /\ present => \A p \in Pods : Alive(p) => Entitled(p, Held(cm, p))

\* The usage the exporters publish is that of the pod's present phase: on the
\* GPUs a pod holds, and on its reservation pod's GPU for a sharer.
UsageIsCurrent ==
    Quiescent /\ present =>
        \A p \in Pods, g \in GPU :
            Alive(p) /\ MayUse(p, cm[g].by) => cm[g].usage[<<p, pods[p].uid>>] = pods[p].phase

\* The GPU index annotation of a live reservation pod, which the scheduler reads,
\* names the GPU the ConfigMap gives it.
ReservationIndexAgrees ==
    Quiescent /\ present =>
        \A r \in Pods : Alive(r) /\ IsGpuReservationPod(r) => Held(cm, r) = {pods[r].idx}

\* A labelled node has its ConfigMap and its deploy labels, whatever crash
\* separated the creation of the one from the patch of the others.
FakeNodeServed == Quiescent /\ node = "fake" => present /\ (deployed \/ DisableNodeLabeling)

\* After the prune pass of a restart no GPU is allocated to a pod that does not exist.
NonExistingPodsPruned ==
    Quiescent /\ present => \A g \in GPU : cm[g].by # NoPod => IsPodExist(cm[g].by)
-----------------------------------------------------------------------------
(* What a step may do, and what must happen                                *)

\* Readers of the ConfigMap see an allocation ledger: whole grants, whole
\* releases, and no GPU that changes hands without being free in between.
Ledger == INSTANCE GpuLedger WITH
    owner <- [g \in GPU |-> cm[g].by],
    Grant <- [p \in Pods |-> {S \in SUBSET GPU :
                 IF IsDraPod(p) THEN S = Claim[p] ELSE Cardinality(S) = Request[p]}]
ImplementsLedger == Ledger!LedgerSpec

\* A bound pod that stays gets all its GPUs, as long as the process is not restarted.
EventuallyAllocated ==
    \A p \in Pods : Alive(p) ~> (~Alive(p) \/ Entitled(p, Held(cm, p)) \/ restarts > 0)

\* A node that keeps its label is served for good in the end.
EventuallyServed == <>[](node = "fake" => present /\ (deployed \/ DisableNodeLabeling))
=============================================================================
