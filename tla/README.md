# Verification of fake-gpu-operator

TLA+ models of the parts of fake-gpu-operator that keep state across events, crashes and
concurrent writers, the TLC configurations that check them on small instances, and TLAPS proofs of
the safety properties that matter most, for instances of any size. Every definition is translated
from the Go source; `PROJECT.json` maps definitions to lines.

## 1. The system

fake-gpu-operator makes a Kubernetes cluster believe that its nodes have GPUs. There is no central
process: several programs share objects of the API server.

| Part | State it keeps | Operations | Interaction |
|---|---|---|---|
| status-updater, pod controller | none; the node's topology ConfigMap | add, update and delete of a GPU pod | reads pods, claims; reads, changes and applies the ConfigMap; patches reservation pods |
| status-updater, node controller | none; ConfigMaps and deploy labels | prune pass at start, add and delete of a node, one goroutine each | creates, deletes, applies ConfigMaps beside the pod controller |
| status-updater, mock controller | DaemonSets and ConfigMaps of mock pools | periodic reconcile | reads the cluster topology |
| status-updater, runai controller | one PrometheusRule | periodic apply | - |
| topology ConfigMap | GPUs, who holds each, usage per pod UID | Get, Create, Apply with Force, Delete | written by the status-updater, read by exporters, device plugins, topology server |
| compute-domain controller | finalizers, ResourceClaimTemplate, status of a ComputeDomain | Reconcile | watches domains, templates and claims through caches |
| compute-domain DRA plugin | checkpoint file, CDI spec files, device directories | Prepare, Unprepare | called by the kubelet, repeated until it succeeds |
| GPU DRA plugin | CDI spec files, devices read once | register, publish, Prepare, Unprepare | called by the kubelet; asks the topology server for its devices |
| status-exporter | last topology in each exporter | fan-out of ConfigMap changes, periodic refresh | metrics, node labels, files, NodeResourceTopology, pod-resources socket; labels the Node beside the MIG faker |
| KWOK variants | per-node caches, metric series, ResourceSlices, node capacity | reconcile a ConfigMap or a node | the same objects, for simulated nodes |
| device plugin | devices read at start | register, ListAndWatch, Allocate | kubelet |
| MIG faker | the annotation last seen | wait for a change, label the node | informer and worker share a condition variable |
| topology server, nvidia-smi, preloader | none | serve or print | read the ConfigMap |

What is hard here: three writers of one ConfigMap without a version check; events that arrive late,
out of order or, after a restart, again; deletions that are never reported; a process that dies
between two writes that belong together; caches that lag behind what the same process wrote; and
calls that the caller has given up on but that still run. `PROJECT.json` lists these under `hazards`, each
at its line.

What makes each part correct:

* **status-updater**: a pod gets exactly the GPUs it asked for, once, and gives all of them back; the
  usage published is that of pods that hold a GPU; a labelled node is served.
* **compute-domain plugin**: whatever the checkpoint says is prepared can be injected; the checkpoint's
  two indexes agree; calls conclude.
* **compute-domain controller**: a template never outlives its domain and every live domain has its
  own; the status settles at what the claims say; deletion completes.
* **status-exporter**: a scrape shows one topology; every exporter catches up with the ConfigMap whatever was
  lost on the way; the placement served adds up and refers to CPU ids that exist.
* **Node object**: neither the status-exporter nor the MIG faker undoes what another writer wrote; the
  annotation in force is mapped in the end.
* **KWOK components**: metrics, labels, slices and capacity follow the ConfigMaps; nothing is left of a deleted node
  (`KW_StaleSeries` shows that series are).
* **mock controller**: no rollout before its configuration is there; every pool gets what is asked of it.
* **GPU DRA plugin**: what a running claim was promised is in its CDI spec file; a free claim has none.

## 2. Modules

| Module | Models | Uses |
|---|---|---|
| `NodeTopology` | the topology of one node and what the pod handlers do to a copy | - |
| `StatusUpdater` | pod worker, node goroutines, prune pass, ConfigMap, crashes | `NodeTopology`, `GpuLedger` |
| `GpuLedger` | abstract specification: what readers of the ConfigMap may rely on | - |
| `StatusUpdaterProofs` | theorems about `StatusUpdater` that hold through restarts, node events and failures | `StatusUpdater` |
| `StatusUpdaterQueueProofs` | counting of GPUs, what the informer's queue has still to report, a labelled node is served | `StatusUpdaterProofs` |
| `StatusUpdaterLedgerProofs` | complete allocation and the refinement of `GpuLedger` | `StatusUpdaterQueueProofs` |
| `StatusUpdaterUsageProofs` | no stale allocation, current usage, index annotations | `StatusUpdaterLedgerProofs` |
| `ComputeDomainPlugin` | Prepare, Unprepare, disk, mutex, kubelet | - |
| `ComputeDomainPluginProofs` | theorems about it | `ComputeDomainPlugin` |
| `ComputeDomainController` | Reconcile over lagging caches | - |
| `ComputeDomainControllerProofs` | theorems about it | `ComputeDomainController` |
| `Bounds` | what the surroundings may still do: events and mishaps left | - |
| `NodeObject` | a Node object and clients that read, change and update it with its version | `Bounds` |
| `NumaLayout` | the NUMA layout, NodeResourceTopology, pod-resources answer and cpulists as pure operators | - |
| `StatusExporter` | watch relay, fan-out, and the five exporters of a node | `NumaLayout`, `NodeObject` |
| `MigFaker` | informer, condition variable and loop | `NodeObject` |
| `NodeAgents` | the composition of the two over one Node object, and its properties | `StatusExporter`, `MigFaker` |
| `NodeAgentsProofs` | theorems about it | `NodeAgents` |
| `KwokCluster` | KWOK status exporter, both KWOK DRA plugins, KWOK GPU device plugin | `Bounds` |
| `MockController` | a pass of the mock controller, call by call | `Bounds` |
| `GpuDraPlugin` | the GPU DRA plugin, kubelet, scheduler and topology server around it | `Bounds` |
| `Fleet` | one of the last three at a time, and their properties | `KwokCluster`, `MockController`, `GpuDraPlugin` |
| `FleetProofs` | theorems about all three | `Fleet` |
| `MC*` | the small instances; a `.cfg` picks one | the module after `MC` |

Definitions marked *Mutant* are bugs on purpose: each is what a named definition would be if the
code had a plausible mistake, and shows that a property notices it. They take no part in the
specifications.

### StatusUpdater

State: the API server's side (`pods`, `claimed`, `node`, `deployed`, `present`, `cm`) survives a crash;
the rest is the process. The pod informer delivers to one worker, in order (`queue`). A handler is two
steps: the Get of the ConfigMap together with what it computes from it (`HandleAddDedicated`,
`HandleShared`, ...; the copy is `workerTopo`) and the Apply (`PodApply`). Between the two, the prune
pass and the node goroutines run. The prune pass is one step per API call (`PruneList`, `PruneDelete`,
`PruneCheck` per GPU, `PruneApply`), a node goroutine likewise (`TaskGet`, `TaskCreate`, `TaskLabel`,
`TaskDelete`, `TaskUnlabel`). `Start` delivers the initial list in any order, and the node informer's list
comes when the prune pass is over (`EndPrune`).

Abstractions, and why they lose nothing the properties need:

* One node. The ConfigMap is per node and so is everything a handler touches; pods of other nodes only
  delay the worker.
* A pod is its (namespace, name); `NameOf` keeps the name alone, since some lookups ignore the
  namespace. A name may have several incarnations (UIDs); usage entries are keyed by UID.
* A usage value is the phase of the pod it was calculated from: `calculateUsage` is a function of the pod.
* Each pod has one kind. A pod that requests both a whole GPU and a fraction of one is refused by the
  scheduler this simulates.
* The reservation pod of a sharer is found by group (`Group`), which stands for the deprecated
  annotation and the group label alike. A list in any order is allowed, the code takes the first match.
  Reservation pods that carry an index annotation from their creation (schedulers before 2.17) are not
  modelled.
* A copy that is not in use (`workerTopo`, `pruneTopo`) is `FreshTopology`.
* The first GPU is number 1; an index annotation of 0 means none.
* The Patch of the reservation pod happens in the handler's first step; a crash between Patch and Apply
  is the crash before `PodApply`.
* The topology round-trips through YAML: an empty usage map is written as `{}` and read back as an empty map,
  not as nil, so that writing to it is safe in the next handler.
* `EmptyNameGet`: client-go fails a Get with an empty name without asking the server (`"error"`, the real
  client); a fake clientset answers NotFound (`"notFound"`). Run `SU_Crash` uses the second, under which the prune
  pass goes further and disturbs more.
* The scheduler, the kubelet and the claim controller are external: a dedicated pod is bound within the
  capacity advertised from the ConfigMap; a DRA pod's devices are given to one pod at a time; the pods of `LateClaims`
  are bound before their claims are allocated; the name of a reservation pod is generated and used once.
* `MixedNode` = FALSE: the device plugin or the DRA plugin serves a node, not both. The repository's README installs
  one instead of the other. `SU_Crash` and `StatusUpdaterProofs` do not assume it.

### ComputeDomainPlugin

State: the checkpoint's two halves (`prepared`, `domains`), spec files, device directories, calls waiting for
the mutex and the one that holds it. Each action is one access to the disk with the computation up to
it. Both the checkpoint manager and the CDI cache write a temporary file and rename it, so that a file is replaced
atomically. `state.domains`, loaded at start and never used afterwards, is left out. The kubelet repeats a
call until it succeeds; `KubeletTimeout` leaves a call in the plugin that nobody waits for, because the driver
ignores the context of a call. `DiskFails` fails any access; a spec file that cannot be deleted is only logged.

### ComputeDomainController

State: the objects at the API server, what each cache shows of them, the queue and the Reconcile in
progress with the objects it read. Every cached object catches up on its own, in any order. A write carries the
version that was read; here it is refused when the object at the server differs from the one
read. (An object that changed and changed back would be refused too; accepting it writes the same value.)
Deletion with a finalizer waits, the garbage collector deletes templates whose owner is gone.
The history variable `stale` records that the worker once took a key while the cache of templates was behind the API
server. Until then no template is orphaned (`GuardedWhileFresh`); run `CC_Orphan` shows what happens after.

### NodeAgents

State: the ConfigMap, the numa block and the Node object at the API server; the relay of the watch (`stream`, `relay`), the
watcher's fan-out (`pub`, `subs`), and per exporter where its goroutine is and with what (`job`); what is published
(`series`, `dirs`, `nrt`, `snapshot` with `sysfs`, `node.gpu`). The fan-out is one blocking send per step
(`Deliver`): a goroutine receives only in its select, so that a slow exporter stops the watcher. `IntervalElapses`
is the watcher's timer, `Republish` the metrics exporter's. The export of metrics is one step per `Reset` and per GPU and
vector, that of files one per file, that of NRT and pod-resources one per API call and per zone. `Crash` is the only end
of the process: `Init` never stores the stop channel, so `Run` does not return.

* A topology is a sequence of GPUs with holder and users. The value of a series or file is a function of the users.
* `NodeObject` models the version of an object by the set of clients whose copy is current (`fresh`): an update is
  accepted from those only, and a change empties the set.
* A MIG configuration is a number, in the order set, and a mapping the number of its configuration; `ConfigKind` says
  which can be mapped. `NoProduct` is the value of the labels before the status-exporter has written any.
* A `Mishap` is a failed call or the death of a process. In `focus` are the agents observed: the exporters share nothing but the
  watcher's time, and time an unobserved one takes is time between two of the watcher's steps.

### Fleet

`KwokCluster` is one component at a time: `component` says which, the objects it watches are `obj`, its informer's cache is
`seen`, its workqueue `queue`, its worker `work`. The metrics of the KWOK exporter are written series by series, by the
worker and by the refresh, which works on a copy of the map. Labels are a Get and an Update, retried on
conflict. The history variable `excused` names the nodes for which the code gives up: labels whose last
update failed or kept being refused, objects deleted while a DRA plugin was down, patches that failed, overlapped
or were not made since the GPU count alone changed. `ExportsSettle` and `ResourcesSettle` promise the rest. An excuse ends when
the code handles the node again.

`MockController`: `pass` is the pass in progress with what it has read and what is left to do. ConfigMaps come before
DaemonSets, creations before updates before deletions. `touched` stands for the versions: DaemonSets changed by others
since they were listed. Changes of the managed ConfigMaps by others are left out: between the two halves of a pass such a
change would be rolled out until the next resync, whatever the controller does. The hash of a configuration is the configuration.

`GpuDraPlugin`: the plugin registers, waits for the topology server, then has a state (`plugin`, `allocatable`) and publishes
it. Prepare and Unprepare hold a mutex and write or remove one file: one step, the answer another, so that the
process may die in between. `Allocations` gives each claim its devices and configurations; the scheduler allocates a device
to one claim at a time, the kubelet repeats a call that failed.

## 3. Runs

| Run | Instance | Checks |
|---|---|---|
| `SU_Steady` | 7 pods to choose 4 bindings from: 2 dedicated ones of one name, a reservation pod and its sharer, 3 DRA pods (two with the same device, bound before their claims are allocated; one with two devices); 3 GPUs, 2 incarnations; no crash | `NoStaleAllocation`, `AllocationComplete`, `UsageIsCurrent`, `ReservationIndexAgrees`, `ImplementsLedger` |
| `SU_Crash` | a reservation pod, its sharer and a DRA pod with two devices, 2 GPUs; a crash, a node event, a fault; a prune pass that goes over free GPUs | `TypeOK`, `NoOverAllocation`, `UsageOwnership` |
| `SU_Live` | 2 dedicated pods and a DRA pod, 3 GPUs, a crash, fair | `FakeNodeServed`, `EventuallyAllocated`, `EventuallyServed` |
| `CD_Calls` | 3 claims, one malformed, 2 channels; a crash, a fault, a timeout; fair | `TypeOK`, `PreparedHasSpec`, `DomainsAgree`, `ToldPreparedIsPrepared`, `CallsConclude` |
| `CC_Reconcile` | a domain with 2 incarnations, 2 claims, 2 nodes, 5 changes; a fault, a restart; fair | `TypeOK`, `GuardedWhileFresh`, `DomainHasOwnTemplate`, `SettledIsServed`, `StatusSettles`, `DeletionCompletes` |
| `EX_Node` | one node: 2 topologies of 2 and 3 GPUs, 3 numa blocks (none, even, explicit), 3 MIG configurations of which one is unknown; 2 events, a mishap; one or two agents observed; fair | `TypeOK`, `ScrapeOfOneTopology`, `ServedIdsResolve`, `PlacementAddsUp`, `NoChangeLost`, `NothingUndone`, `ExportsCatchUp`, `OldExportsStayAway`, `MigSettles` |
| `FL_Fleet` | 2 KWOK nodes with 1 or 2 GPUs; 2 mock pools, one profile in 2 versions; 5 claims over 2 devices (plain, two configurations, one that cannot be decoded, a rejected one used and unused); 3 events, 2 mishaps, 2 tries; one component observed; fair | `TypeOK`, `SpecsFollowClaims`, `NothingForgotten`, `ExportsSettle`, `ResourcesSettle`, `RolloutReadsItsConfig`, `MockSettles` |

Runs that end in a counterexample, each a disagreement between the code and what the repository says
of it (`findings` quotes both):

| Run | What happens |
|---|---|
| `SU_PruneSkips` | a free GPU makes the prune pass return before it writes, so vanished pods keep their GPUs |
| `SU_NodeRace` | deletion and re-addition of a node are handled in the wrong order |
| `CD_Leak` | a claim is prepared; a crash inside Unprepare, after its checkpoint write, leaves the spec file for ever |
| `CC_Orphan` | a deletion with a stale template cache leaves a template nobody can remove |
| `KW_StaleSeries` | a refresh that copied the map before a node was deleted, or a holder that changed before it, leaves series of the deleted node |

**Bounds.** Named in the modules: `MaxUid`, `MaxBinds`, `MaxQueue`, `MaxRestarts`, `MaxNodeEvents`, `MaxFaults`,
`MaxCrashes`, `MaxTimeouts`, `MaxChanges`, `MaxEvents`, `MaxMishaps`, `Attempts`. A hazard of this code needs at most three pods (a holder, a competitor,
and one of the same name), two events of one pod under way, and one crash, fault or timeout between two steps; the
bounds allow at least that. In `EX_Node` two events are enough for a topology that changes while an older one is being
exported, or for the watch to end and the ConfigMap to change after it; in `FL_Fleet` three are a node
that comes, changes and goes, or two pools and a profile. Deadlock checking is off in the status-updater and controller runs since pods, node
events and changes run out; it is on for the plugin, whose kubelet can always want something.

**Fairness.** Weak fairness of the worker, the prune pass, the node goroutines, the plugin's steps, Reconcile and
the informers: each is a goroutine that is always runnable once it has something to do. `Start`: Kubernetes restarts
the container. The kubelet repeats a call for as long as it needs it. Strong fairness of taking the mutex (Go hands
it to the waiter that starves) and of taking a key from the work queue (which is first in, first out). Nothing is
assumed of users, of the scheduler, or of crashes and faults, which the bounds limit. In `EX_Node` the relay, the watcher,
its interval, the exporters' goroutines and the MIG faker's two are weakly fair. `Deliver` is strongly fair: between two of its
ticks the metrics exporter waits in a select that has the topology among its ready cases, and Go chooses among
them at random. In `FL_Fleet` the informers, the workers, the refresh, the patches and, since the informer resyncs every
30 s, the mock controller's passes are weakly fair; nothing is assumed of scheduler and kubelet.

**Properties of quiescence.** `NoStaleAllocation`, `AllocationComplete`, `UsageIsCurrent`, `ReservationIndexAgrees` and
`FakeNodeServed` speak of states in which the process has nothing left to do. They hold without crashes; with
them they do not: the first two counterexample runs and section 5 name the ways. Nor does `AllocationComplete` when a claim
that is allocated late overlaps others in part (section 5), which `SU_Steady` leaves out: there a late claim has one device. `SU_Live` checks
`FakeNodeServed` with crashes but without node events, which `SU_NodeRace` adds.

`SettledIsServed`, `NoChangeLost` and `NothingForgotten` are of the same kind and do hold with crashes, conflicts, failed
calls and lagging caches, since each of those leaves behind a queued key, an event to come or an excuse. They are what is
safety in `StatusSettles` and `DeletionCompletes`, `MigSettles`, `ExportsSettle` and `ResourcesSettle`; what the latter add is
that a state with nothing under way is reached.

## 4. Proofs

Every theorem holds for all values of the constants that satisfy the assumptions named here. Each invariant that
a passing run checks is proved.

### What is assumed of the constants

| Assumption | Says | Why |
|---|---|---|
| `NodeTopologyAssumption`, `StatusUpdaterAssumption`, `ComputeDomainPluginAssumption`, `ComputeDomainControllerAssumption` | types of the constants, finitely many pods, claims and nodes | - |
| `TopologiesAssumption`, `LayoutAssumption`, `ConfigAssumption` | topologies and configurations are sequences, a numa block holds integers | the Go types |
| `AllocationsAssumption`, `NoSpecAssumption` | a device is allocated to one request of a claim | the scheduler |
| `GpusAssumption` | a GPU node has a GPU | a node without one has nothing to export |
| `RequestsAssumption` | a pod that holds a GPU requests a natural number of milli-CPUs | the API server admits no negative request; a pod that is not listed counts as zero |
| `PoolSpecsAssumption` | pools are numbered, the profiles asked for are observed | a profile may be missing |

Some theorems have hypotheses of their own, since the property does not hold without them:

* `NodeUndisturbed` (`LabelledNodeServed`): the node object does not change and no API call fails. `SU_NodeRace` shows the
  first is needed; a handler that fails is not repeated. Restarts are allowed.
* `Undisturbed` (the properties of quiescence and `LedgerImplemented`): nor is the process restarted. `SU_PruneSkips` shows
  what a restart does. Everything else is allowed: any order of bindings, ends and new incarnations of any
  number of pods, claims that are allocated late, handlers that lag behind by any number of events.
* `Environment`: one plugin serves the node (`~MixedNode`), and the claims of a pod that may be bound before their
  allocation overlap larger ones only (`NestedClaims`). Without the latter a pod may keep a part of its devices
  for good (section 5). Without the former TLC finds a dedicated pod that comes too short, since the capacity advertised
  to the scheduler does not tell what the DRA pods leave of it.
* `SingleReservation` (usage and annotations): a group of sharers has one reservation pod, and that asks for one GPU; so
  do the reservation pods of the scheduler. With two, the code takes the first match: an update may
  set another entry than the addition did. With a request of two, the index annotation and the sharers' entries name one
  GPU of two. TLC finds `UsageIsCurrent` violated in both cases.
* `OwnNames` (`TemplatesAlwaysOwn`): no two domains name the same template. With a shared name the deletion of one leaves
  the other without (section 5).

### Status updater

* `StatusUpdaterProofs`: `NeverOverAllocated`, `UsageAlwaysOwned`, `TypeCorrect`, through restarts, node events and failures. An
  Apply replaces the whole ConfigMap by a copy read earlier, so the properties are inductive only if they hold of every copy
  that may be written. The invariant is `TypeOK` and `Sound` of `cm`, `workerTopo` and `pruneTopo`, where `Sound(topo)` bounds
  what each pod holds and says whose usage is where. A lemma per operator of `NodeTopology` shows that it keeps a
  topology sound (`DedicatedAdditionSound`, `DraSound`, `ReleaseSound`, `SharedSound`, `PrunedSound`, ...);
  `FirstFreeBound` shows that the allocation loop takes no more than the request.
* `StatusUpdaterQueueProofs`: `LabelledNodeServed`, from `ServedInv`: one goroutine at most handles the node, finds the ConfigMap
  or creates it, and labels the node only then. The rest is groundwork. `Demand` counts slots, so that finite-set theorems do the
  arithmetic, and `FirstFreeExact` shows that the allocation loop finds all it looks for. The central idea is `LivePods(ps, q, k)`, the pods alive as far as the first `k` events of the informer's
  queue tell: `Accurate` says that the queue tells the truth about the API server (additions and deletions
  alternate, the last event of a pod has its present phase), and `Watched` that every change keeps it so.
* `StatusUpdaterLedgerProofs`: `AllocationAlwaysComplete` and `LedgerImplemented`. What the handlers allocate depends on events
  that may be long out of date, so the invariant `LedgerInv` relates the ConfigMap as it will be after the worker's
  Apply (`Promised`) to every point of the queue, not just to the API server. `Capacity`: at no point do the live pods ask
  for more than the node has. `Holdings`: GPUs are held by pods that are alive at the front of the queue, and those
  hold all they are entitled to. `Handover`: a device that a pod is going to need is free, or the deletion
  of its last holder comes before. `Moves`: the worker's copy is one step of `GpuLedger` away from the ConfigMap;
  that is the refinement's step.
* `StatusUpdaterUsageProofs`: `AllocationNeverStale`, `UsageAlwaysCurrent`, `IndexAlwaysAgrees`. Entries are keyed by incarnation. `Faithful`: from
  an event to the next deletion the queue speaks of one incarnation. `Entries`: an entry is that of
  an incarnation that is alive at the front of the queue. `Current`: a live pod without events to come has its entry. `Ordered`:
  a reservation pod is added before its sharers. `Indexed`: the Patch and the copy agree. The handlers look a
  reservation pod up at the API server and not in the queue, so an entry of a sharer whose reservation pod is gone already is
  `Excused` until the GPU is released. TLC checked `UsageInv` on three small clusters before it was proved.

### Compute domains

* `ComputeDomainPluginProofs`. `PreparedAlwaysHasSpec`, `DomainsAlwaysAgree`: the invariant adds `MidCall`, what
  the call that holds the mutex has secured on disk. Lemmas on `RemoveFirst` and `Append` show that a domain's
  list stays free of duplicates. `ToldPreparedAlwaysIs`: as long as the kubelet gives up on no call, each call in the
  plugin is the one it waits for, and for that claim the only one (`Answerable`).
* `ComputeDomainControllerProofs`. `TemplatesAlwaysGuarded`: the inductive invariant is `~stale => Inv`, since
  `stale` is never reset. In `Inv`, a cached domain that is live
  and has its finalizer still exists with it, because only a Reconcile that saw it being deleted removes the finalizer, and
  there is one worker (`CacheFollows`, `Making`, `Removing`, `Adding`); a template bears the name
  its owner's spec asks for (`NamedByOwner`), so that the owner's deletion looks for the right one.
  `TemplatesAlwaysOwn`: a template that exists belongs to an incarnation that exists (`Owned`), because the domain keeps its finalizer
  until the template is gone (`Informed`); and a live domain without template has its key queued, is about to get a
  newer copy in the cache, or is being reconciled (`Expected`). `ControllerTypes` needs no hypothesis.
  `SettledAlwaysServed` needs none either, not even on the template cache: a Reconcile whose key is not queued again works on
  what the caches show (`Reading`), since every change of what they show queues the key. If it writes a status that differs
  from the cached one, the informer has that change still to see and queues the key. So a domain that is neither
  queued nor in work, and that the cache shows as it is, has the status of the claims in the cache (`Served`). A domain
  being deleted keeps its finalizer until it goes (`Held`), and the cache is never ahead (`Older`).

### Agents of a node

* `ScrapesSeeOneTopology`: the invariant says what the goroutine holds in each part (`MetricsShape`), that
  only topologies of the ConfigMap are on their way (`Carried`), and that series of an earlier topology are those of vectors
  not yet reset (`Resetting`, `Setting`). `OthersLeaveMetrics` disposes of the other exporters.
* `NothingIsUndone`: a copy that may still be written is the object (`CopiesCurrent`), and the configurations in mapping, loop,
  informer, notices and annotation follow each other in the order they were set (`MigInOrder`), removals aside.
* `ChangesNeverLost`: the informer's last notice is the annotation in force (`LastNotice`); a loop that waits has read what is
  current, unless that is a removal (`Waits`); and a round that ended well left what it read mapped (`RoundDone`). So the
  one thing `Get` does not do, looking again after it was woken, loses nothing.
* `ServedIdsAlwaysResolve`: what a round carries was read in this round (`Rounds`), the tree holds the first zones of
  the layout that is being rendered, and between two renderings all zones of the answer's layout (`Rendering`). The
  ids of an entry are ids of its zones (`EntryIds`), which are intervals whose cpulist has them (`IdsOfInterval`).
* `PlacementAlwaysAddsUp`, for any number of zones: the answer is `Answer` of one layout, so it remains to count.
  A fold is defined by choosing a recursive function; that there is one is proved (`AdderExists`), then that it
  does not depend on the order of the elements, so that sums are linear. Where induction is needed it is over a set of numbers and
  by its least counterexample (`Climb`), since the library's induction theorems cannot be used here.
  `LargestRemainderAddsUp`: rounding down leaves less than one unit per zone, and the first `k` of a strict order of the zones
  are `k` many. The ids of an entry are counted zone by zone: all its shares are given, or some zone has given
  all it has. The model's fractions are exact; the code computes them in floating point, so that a tie may fall to another zone,
  which no property depends on.
* `AgentsTypes`: the types follow from the three invariants and those of the MIG faker and of what is published.

### Fleet

* `RolloutsReadTheirConfig`: what a pass has not yet brought to the desired ConfigMaps is still on its
  list (`ConfigMapsUnderway`), so that none differs once DaemonSets are applied (`ConfigMapsApplied`).
* `SpecsAlwaysFollowClaims`: an answer on its way and the phase of a claim agree with the files (`AnswersHold`, `PhasesHold`);
  `LastConfigWins` and `PreparedAsConfigured` relate the plugin's choice to the property's own wording.
* `NothingEverForgotten`: per component, what the worker is about to write is what the informer saw last or the node is queued
  again, and what is written already is what was seen last, or the node is queued, in work or excused (`LabelsInv`, `SlicesInv`).
  The capacity is set by goroutines of their own, so there the patches under way take the part of the queue (`CapacityInv`).
  Series are left out: the refresh may set one back until the next refresh.
* `FleetTypes`: what each worker, pass and call holds in each of its parts (`WorkShape`, `PassTypes`, `Enumerated`), and that the
  exporter's knowledge of a node differs from its cache only while the node is queued (`KnownIsSeen`).

### Only model-checked

* Liveness (`EventuallyAllocated`, `EventuallyServed`, `CallsConclude`, `StatusSettles`, `DeletionCompletes`, `ExportsCatchUp`,
  `MigSettles`, `ExportsSettle`, `ResourcesSettle`, `MockSettles`, `OldExportsStayAway`): outside the
  prover's reach. Of `StatusSettles`, `DeletionCompletes`, `MigSettles`, `ExportsSettle` and `ResourcesSettle` the safety part is
  proved (section 3, properties of quiescence); that nothing is under way in the end is not.
* The properties of quiescence in behaviours with restarts, node events or failures do not hold; the runs in the second
  table of section 3 show how.

## 5. Not modelled

* device plugin: registration with the kubelet; its own state is the list of devices read at start.
* runai controller: a loop that applies one static object.
* topology configuration: parsing, normalising and merging of YAML; the map of usages is a function in `NodeTopology`.
* compute-domain plugin process, health endpoints, application runner: flags, signals and gRPC plumbing.
* topology server, `nvidia-smi`, preloader: no state. Of the server, `GpuDraPlugin` has what its answer means.
* NRT of KWOK nodes: the function of `StatusExporter` (`publishNodeNRT`) called from the worker of `KwokCluster`.
* Memory in NUMA zones: split by the code that splits CPU.

Effects that the models have but no run is about:

* the prune pass deletes the ConfigMap of a node without label and, a few lines on, applies it again (`PruneApply` after
  `PruneDelete`); a pod handler's Apply brings back the ConfigMap of a node removed since its Get;
* the prune pass overwrites an allocation made since it listed the ConfigMap, which the pod loses until a restart;
* a pod that is bound before its claim is allocated may be given devices one of which belonged to a pod whose deletion is
  still in the queue: the handler skips that device, and since `isDraAlreadyAllocated` is true for the rest, every later event
  only refreshes usage and the pod never gets it. TLC finds this (`AllocationComplete`, no crash) with a pod with devices
  1 and 2 and a late one with 1 and 3; claims that are nested are safe, which is proved;
* a pod whose usage the prune pass cleared gets it back only on its next update, and likewise a sharer that was handled
  before its reservation pod;
* a reservation pod's annotation may name a GPU the ConfigMap does not give it when the process dies between Patch
  and Apply;
* two domains that name the same template share it, and the deletion of one leaves the other without;
* two pods with GPUs in one zone are given the same CPU ids; the last NodeResourceTopology and sysfs tree stay when the
  pool loses its numa block;
* the deletion of the ConfigMap reaches no exporter: metrics, labels and files stay; a watch event that was delayed
  may for a while take the exports back to an earlier topology;
* a crash inside Prepare between the spec file and the checkpoint leaves the file too, when the next call for the claim is Unprepare,
  which does not find the claim;
* of a KWOK node that stays, the series of former holders and of GPUs it no longer has are never removed: the
  multi-node exporter, unlike the one of a real node, resets no vector. `ExportsSettle` asks for the series of the GPUs as they are
  and says nothing of others;
* a pod-resources server that failed to listen is not started again;
* the removal of the MIG annotation wakes nobody: the empty mapping is written only if a change follows or the loop
  has not read the one before; a failed round is not repeated until the next change;
* one missing profile ends every pass of the mock controller for all pools; when the cluster ConfigMap is
  deleted, the resources of the mock pools stay;
* the GPU DRA plugin never reads its devices again after it has them; a call that comes between registration and state
  makes it panic, and the kubelet's next call may find it there again;
* a KWOK node whose ConfigMap changes its GPU count keeps the capacity it had; two goroutines of one node may
  patch in either order.

Outside the models: a ConfigMap re-created by Apply lacks the KWOK annotation that `CreateNodeTopologyCM` gives it, and an
object that loses its KWOK mark is filtered out, so that its slice stays; a changed node selector, pool label key or pull
policy alone does not make the mock controller update a DaemonSet.

## 6. Plan

1. Proofs: the series of the KWOK exporter after a refresh, and the exports of the status-exporter between two intervals.
2. `ProfileMerge`, `Normalize`: the merge of profiles with overrides and the normalisation of the cluster configuration against
   reference definitions.
3. The device plugin: registration again after a kubelet restart, and the list of devices read once.
4. The NodeResourceTopology of KWOK nodes, and a cluster in which a node is served by both DRA plugins.
