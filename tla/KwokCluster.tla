------------------------------ MODULE KwokCluster ------------------------------
(***************************************************************************)
(* The components that serve KWOK nodes, which have no kubelet and no      *)
(* agents of their own:                                                    *)
(*   "exporter"  the KWOK status exporter: metrics and labels of all nodes *)
(*               (status-exporter/watch/multi_node_watcher.go; its NRT     *)
(*               part is publishNodeNRT of StatusExporter and left out);   *)
(*   "gpu"       kwok-dra-plugin: a ResourceSlice of the node's GPUs;      *)
(*   "channel"   kwok-compute-domain-dra-plugin: one of a channel device;  *)
(*   "capacity"  kwok-gpu-device-plugin: the node's GPU capacity.          *)
(* Each has an informer of its own.  The first three reconcile one object  *)
(* at a time from a workqueue; the last starts a goroutine per addition.   *)
(*                                                                         *)
(* obj is what a component watches: the node's topology ConfigMap, for     *)
(* "channel" the Node, of which only the existence matters.  A topology is *)
(* a sequence of GPUs [by, users]; every GPU has an ID.  The three metric  *)
(* vectors are always written together and are one set of series here.     *)
(***************************************************************************)
EXTENDS Bounds, Sequences, FiniteSets, FiniteSetsExt

CONSTANTS KwokNodes,   \* the nodes' names
          Topologies,  \* contents a topology ConfigMap may have
          NoTopology,  \* no such object
          NoNode, NoLabels, NoSlice, NoCapacity,
          Attempts     \* bound: tries of retry.RetryOnConflict (DefaultRetry has 5)

\* A GPU node has at least one GPU.
ASSUME GpusAssumption == \A t \in Topologies : DOMAIN t # {}

VARIABLES component, \* the component observed: they share no state
          obj,       \* [node -> the object the component watches]
          seen,      \* [node -> the object in its informer's cache]
          queue,     \* its workqueue
          work,      \* its worker: where it is, and with what
          known,     \* the exporter's nodeTopologies
          series,    \* the metric series
          refresh,   \* what is left of refreshAllMetrics
          labels,    \* [node -> the GPU count label of the Node]
          slice,     \* [node -> the devices of its ResourceSlice]
          patches,   \* the goroutines of the device plugin
          capacity,  \* [node -> its GPU capacity]
          excused    \* nodes for which the code made no promise (see Mirrors)

exporterVars == <<known, series, refresh, labels>>
kwokVars == <<component, obj, seen, queue, work, exporterVars, slice, patches, capacity, excused>>

Components == {"exporter", "gpu", "channel", "capacity"}
Idle == [at |-> "idle"]
At(l) == work.at = l

\* The series of a node: the labels of each are the GPU and its holder.
Series(n, t) == {[node |-> n, gpu |-> i, by |-> t[i].by, users |-> t[i].users] : i \in DOMAIN t}
SameLabels(r, s) == r.node = s.node /\ r.gpu = s.gpu /\ r.by = s.by
SetSeries(S, s) == {r \in S : ~ SameLabels(r, s)} \cup {s}
DeleteSeries(S, s) == {r \in S : ~ SameLabels(r, s)}
\* The series to be written next: one node after the other, GPU after GPU.
NextSeries(S) == {s \in S : \A r \in S : r.node = s.node => s.gpu <= r.gpu}

\* The devices of a slice: one per GPU, or the one channel.
GpuDevices(t) == DOMAIN t
ChannelDevices == {0}
Devices(t) == IF component = "channel" THEN ChannelDevices ELSE GpuDevices(t)

Present(n) == obj[n] # NoTopology
Slicing == component \in {"gpu", "channel"}

\* The slice of a node whose object goes while nobody watches it stays.
Orphan(n) == IF Slicing /\ slice[n] # NoSlice THEN {n} ELSE {}

\* The cluster is empty; what a restart finds is found after a Crash.
KwokInit ==
  /\ obj = [n \in KwokNodes |-> NoTopology]
  /\ seen = [n \in KwokNodes |-> NoTopology] /\ queue = {} /\ work = Idle
  /\ known = [n \in KwokNodes |-> NoTopology] /\ series = {} /\ refresh = {}
  /\ labels = [n \in KwokNodes |-> NoLabels]
  /\ slice = [n \in KwokNodes |-> NoSlice]
  /\ patches = {} /\ capacity = [n \in KwokNodes |-> NoCapacity]
  /\ excused = {}

-----------------------------------------------------------------------------
\* The cluster around the component.

\* The object is created, changed or deleted.
ChangeObject(n) ==
  /\ Spend
  /\ \E t \in (Topologies \cup {NoTopology}) \ {obj[n]} :
       /\ obj' = [obj EXCEPT ![n] = t]
       /\ excused' = IF t = NoTopology /\ seen[n] = NoTopology THEN excused \cup Orphan(n)
                     ELSE excused
  /\ UNCHANGED <<component, seen, queue, work, exporterVars, slice, patches, capacity>>

\* A stage of KWOK changes the node between the exporter's read and its update.
ChangeNode(n) ==
  /\ component = "exporter" /\ At("update") /\ work.node = n /\ work.fresh
  /\ Spend
  /\ work' = [work EXCEPT !.fresh = FALSE]
  /\ UNCHANGED <<component, obj, seen, queue, exporterVars, slice, patches, capacity, excused>>

\* The Node is deleted; its ConfigMap follows by ChangeObject.
DeleteNode(n) ==
  /\ component = "exporter" /\ labels[n] # NoNode
  /\ Spend
  /\ labels' = [labels EXCEPT ![n] = NoNode]
  /\ work' = IF At("update") /\ work.node = n THEN [work EXCEPT !.fresh = FALSE] ELSE work
  /\ UNCHANGED <<component, obj, seen, queue, known, series, refresh, slice, patches, capacity, excused>>

-----------------------------------------------------------------------------
\* The informer, which may be behind and may skip states in between.

\* kwok-gpu-device-plugin: a goroutine per addition.  A change of the GPU count
\* is not handled, nor in which order two goroutines of a node run.
StartPatch(n) ==
  IF seen[n] = NoTopology
  THEN /\ patches' = patches \cup {<<n, Len(obj[n])>>}
       /\ excused' = IF \E p \in patches : p[1] = n THEN excused \cup {n} ELSE excused \ {n}
  ELSE /\ UNCHANGED patches
       /\ excused' = IF Present(n) /\ Len(seen[n]) # Len(obj[n]) THEN excused \cup {n} ELSE excused

\* Mutant: the predicate lets no deletion pass.
ObserveNoDeletion(n) ==
  /\ seen[n] # obj[n]
  /\ seen' = [seen EXCEPT ![n] = obj[n]]
  /\ IF component = "capacity" \/ ~ Present(n)
     THEN UNCHANGED queue /\ StartPatch(n)
     ELSE queue' = queue \cup {n} /\ UNCHANGED <<patches, excused>>
  /\ UNCHANGED <<component, obj, work, exporterVars, slice, capacity, boundVars>>

\* The cache follows the API server and the event is handed on.
Observe(n) ==
  /\ seen[n] # obj[n]
  /\ seen' = [seen EXCEPT ![n] = obj[n]]
  /\ IF component = "capacity"
     THEN UNCHANGED queue /\ StartPatch(n)
     ELSE /\ queue' = queue \cup {n}
          /\ excused' = IF component # "exporter" /\ Present(n) THEN excused \ {n} ELSE excused
          /\ UNCHANGED patches
  /\ UNCHANGED <<component, obj, work, exporterVars, slice, capacity, boundVars>>

\* HandleAdd: one merge patch of the node's status; an error is only logged.
ApplyPatch ==
  /\ \E p \in patches :
       /\ patches' = patches \ {p}
       /\ \/ capacity' = [capacity EXCEPT ![p[1]] = p[2]] /\ UNCHANGED <<excused, boundVars>>
          \/ Mishap /\ excused' = excused \cup {p[1]} /\ UNCHANGED capacity
  /\ UNCHANGED <<component, obj, seen, queue, work, exporterVars, slice>>

-----------------------------------------------------------------------------
\* MultiNodeWatcher.Reconcile and the exporters it calls.

\* Mutant: a node that is in the map stays there with the topology it had.
SetMetricsOfNewNode(n) ==
  /\ component = "exporter" /\ At("idle") /\ n \in queue /\ seen[n] # NoTopology
  /\ queue' = queue \ {n}
  /\ known' = IF known[n] = NoTopology THEN [known EXCEPT ![n] = seen[n]] ELSE known
  /\ work' = [at |-> "set", node |-> n, topo |-> seen[n], left |-> Series(n, seen[n])]
  /\ UNCHANGED <<component, obj, seen, series, refresh, labels, slice, patches, capacity, excused, boundVars>>

\* SetMetricsForNode: the map first, then the series, GPU after GPU.
SetMetricsForNode(n) ==
  /\ component = "exporter" /\ At("idle") /\ n \in queue /\ seen[n] # NoTopology
  /\ queue' = queue \ {n}
  /\ known' = [known EXCEPT ![n] = seen[n]]
  /\ work' = [at |-> "set", node |-> n, topo |-> seen[n], left |-> Series(n, seen[n])]
  /\ UNCHANGED <<component, obj, seen, series, refresh, labels, slice, patches, capacity, excused, boundVars>>

\* DeleteNode: the node leaves the map, then the series of its last topology go.
DeleteMetricsOfNode(n) ==
  /\ component = "exporter" /\ At("idle") /\ n \in queue /\ seen[n] = NoTopology
  /\ queue' = queue \ {n}
  /\ known' = [known EXCEPT ![n] = NoTopology]
  /\ work' = IF known[n] = NoTopology THEN Idle
             ELSE [at |-> "delete", node |-> n, left |-> Series(n, known[n])]
  /\ UNCHANGED <<component, obj, seen, series, refresh, labels, slice, patches, capacity, excused, boundVars>>

WriteSeries ==
  /\ work.at \in {"set", "delete"}
  /\ \E s \in NextSeries(work.left) :
       /\ series' = IF At("set") THEN SetSeries(series, s) ELSE DeleteSeries(series, s)
       /\ work' = IF work.left # {s} THEN [work EXCEPT !.left = @ \ {s}]
                  ELSE IF At("delete") THEN Idle
                  ELSE [at |-> "get", node |-> work.node, topo |-> work.topo, tries |-> Attempts]
  /\ UNCHANGED <<component, obj, seen, queue, known, refresh, labels, slice, patches, capacity, excused, boundVars>>

\* refreshAllMetrics: every ten seconds, from a copy of the map.
StartRefresh ==
  /\ component = "exporter" /\ refresh = {}
  /\ refresh' = UNION {IF known[n] = NoTopology THEN {} ELSE Series(n, known[n]) : n \in KwokNodes}
  /\ UNCHANGED <<component, obj, seen, queue, work, known, series, labels, slice, patches, capacity, excused, boundVars>>

RefreshSeries ==
  /\ \E s \in NextSeries(refresh) :
       /\ series' = SetSeries(series, s)
       /\ refresh' = refresh \ {s}
  /\ UNCHANGED <<component, obj, seen, queue, work, known, labels, slice, patches, capacity, excused, boundVars>>

\* setNodeLabels: Get; a node that is gone needs no labels.
GetLabels ==
  /\ At("get")
  /\ work' = IF labels[work.node] = NoNode THEN Idle
             ELSE [at |-> "update", node |-> work.node, topo |-> work.topo,
                   tries |-> work.tries, fresh |-> TRUE]
  /\ excused' = excused \ {work.node}
  /\ UNCHANGED <<component, obj, seen, queue, exporterVars, slice, patches, capacity, boundVars>>

\* Mutant: a conflict is not an error.
UpdateLabelsOnce ==
  /\ At("update")
  /\ labels' = IF work.fresh THEN [labels EXCEPT ![work.node] = Len(work.topo)] ELSE labels
  /\ work' = Idle
  /\ UNCHANGED <<component, obj, seen, queue, known, series, refresh, slice, patches, capacity, excused, boundVars>>

\* Update; only a conflict is retried, and after the last try nothing is.
UpdateLabels ==
  /\ At("update")
  /\ \/ work.fresh /\ labels' = [labels EXCEPT ![work.node] = Len(work.topo)]
        /\ work' = Idle /\ UNCHANGED excused
     \/ /\ ~ work.fresh /\ UNCHANGED labels
        /\ IF work.tries > 1 /\ labels[work.node] # NoNode
           THEN /\ work' = [at |-> "get", node |-> work.node, topo |-> work.topo,
                            tries |-> work.tries - 1]
                /\ UNCHANGED excused
           ELSE work' = Idle /\ excused' = excused \cup {work.node}
  /\ UNCHANGED <<component, obj, seen, queue, known, series, refresh, slice, patches, capacity, boundVars>>

\* Another error: it is logged, and the ConfigMap is not queued again.
LabelsFail ==
  /\ work.at \in {"get", "update"} /\ component = "exporter"
  /\ Mishap
  /\ work' = Idle /\ excused' = excused \cup {work.node}
  /\ UNCHANGED <<component, obj, seen, queue, exporterVars, slice, patches, capacity>>

-----------------------------------------------------------------------------
\* The reconcilers of the two DRA plugins

\* Reconcile: delete, or build the slice and look for an existing one.
ReconcileSlice(n) ==
  /\ Slicing /\ At("idle") /\ n \in queue
  /\ queue' = queue \ {n}
  /\ IF seen[n] = NoTopology
     THEN slice' = [slice EXCEPT ![n] = NoSlice] /\ UNCHANGED work
     ELSE /\ work' = [at |-> "write", node |-> n, devices |-> Devices(seen[n])]
          /\ UNCHANGED slice
  /\ UNCHANGED <<component, obj, seen, exporterVars, patches, capacity, excused, boundVars>>

\* Create or Update; nobody else writes the slice in between.
StoreSlice ==
  /\ At("write")
  /\ slice' = [slice EXCEPT ![work.node] = work.devices]
  /\ work' = Idle
  /\ UNCHANGED <<component, obj, seen, queue, exporterVars, patches, capacity, excused, boundVars>>

WriteGpuSlice == component = "gpu" /\ StoreSlice
WriteChannelSlice == component = "channel" /\ StoreSlice

\* Mutant: the error is only logged.
SliceCallFailsLogged(n) ==
  /\ Slicing
  /\ Mishap
  /\ queue' = queue \ {n}
  /\ \/ At("idle") /\ n \in queue /\ UNCHANGED work
     \/ At("write") /\ work.node = n /\ work' = Idle
  /\ UNCHANGED <<component, obj, seen, exporterVars, slice, patches, capacity, excused>>

\* Delete, Get, Create or Update fails: the object is queued again.
SliceCallFails(n) ==
  /\ Slicing
  /\ Mishap
  /\ \/ At("idle") /\ n \in queue /\ UNCHANGED <<queue, work>>
     \/ At("write") /\ work.node = n /\ work' = Idle /\ queue' = queue \cup {n}
  /\ UNCHANGED <<component, obj, seen, exporterVars, slice, patches, capacity, excused>>

-----------------------------------------------------------------------------
(* The process dies and is restarted: its caches start empty, and nothing   *)
(* tells it of an object deleted meanwhile, whose slice stays.  Metrics die *)
(* with it, labels, slices and capacities do not.                           *)
Crash ==
  /\ Mishap
  /\ seen' = [n \in KwokNodes |-> NoTopology] /\ queue' = {} /\ work' = Idle
  /\ known' = [n \in KwokNodes |-> NoTopology] /\ series' = {} /\ refresh' = {}
  /\ patches' = {}
  /\ excused' = excused \cup UNION {Orphan(n) : n \in {m \in KwokNodes : ~ Present(m)}}
  /\ UNCHANGED <<component, obj, labels, slice, capacity>>

Work ==
  \/ WriteSeries \/ GetLabels \/ UpdateLabels \/ WriteGpuSlice \/ WriteChannelSlice
  \/ \E n \in KwokNodes : SetMetricsForNode(n) \/ DeleteMetricsOfNode(n) \/ ReconcileSlice(n)

Refresh == StartRefresh \/ RefreshSeries

KwokNext ==
  \/ Work \/ Refresh \/ ApplyPatch \/ LabelsFail \/ Crash
  \/ \E n \in KwokNodes : ChangeObject(n) \/ ChangeNode(n) \/ DeleteNode(n)
                            \/ Observe(n) \/ SliceCallFails(n)
=============================================================================
