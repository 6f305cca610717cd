---------------------------- MODULE StatusExporter ----------------------------
(***************************************************************************)
(* The status exporter of a real node (internal/status-exporter): the      *)
(* kubeclient goroutine that relays the watch of the node's topology       *)
(* ConfigMap, the KubeWatcher that fans every topology out to the          *)
(* exporters over unbuffered channels, and the exporters, each a goroutine *)
(* of its own: metrics, node labels, files, NodeResourceTopology and       *)
(* pod-resources with its sysfs tree.                                      *)
(*                                                                         *)
(* A topology is a sequence of GPUs [by, users]: the pod of allocatedBy    *)
(* and the pods of podGpuUsageStatus.  The value of a series or a file is  *)
(* abstracted to the users it is computed from.                            *)
(*                                                                         *)
(* Only the exporters in focus are observed.  Whatever time the others     *)
(* take to accept a topology is time the watcher spends between two of its *)
(* steps, and they touch nothing that is observed.                         *)
(***************************************************************************)
EXTENDS NumaLayout, NodeObject

CONSTANTS Topologies,   \* the contents the ConfigMap may have
          NoTopology,   \* no ConfigMap, or nothing in a channel or a cache
          NoLabels,     \* the node carries no GPU labels yet
          NoNRT,        \* no NodeResourceTopology has been applied
          Reserved,     \* the pods of the resource reservation namespace
          Requests,     \* [pod -> its CPU request]
          Numas,        \* the numa blocks the node's pool may have
          Allocatable,  \* the node's allocatable CPU
          FocusChoices  \* the agents observed together

\* The ConfigMap may have some content, and each is a sequence of GPUs.
ASSUME TopologiesAssumption ==
  /\ Topologies # {}
  /\ \A t \in Topologies : Len(t) \in Nat /\ DOMAIN t = 1..Len(t)

\* A numa block has integers (types.go:38), where it says
\* anything, and so has the node's CPU.
ASSUME LayoutAssumption ==
  /\ Allocatable \in Int
  /\ \A n \in Numas \ {NoNuma} :
       /\ n.zones \in Int
       /\ n.gpus # DefaultSplit => n.gpus \in Seq(Int)
       /\ n.cpu # DefaultSplit => n.cpu \in Int

\* The request of a pod that holds a GPU is the sum over its containers, or zero
\* when the pod is not listed (exporter.go:116-128): the API server admits no
\* negative request.
ASSUME RequestsAssumption ==
  \A t \in Topologies : \A i \in DOMAIN t : t[i].by # NoPod => Requests[t[i].by] \in Nat

VARIABLES cm,        \* the ConfigMap
          numa,      \* the numa block of the node's pool in the cluster ConfigMap
          watchOpen, \* the watch of the ConfigMap has not ended
          stream,    \* events the watch has not delivered
          relay,     \* the ConfigMap watchCmChange is sending, or NoTopology
          subs,      \* KubeWatcher.subscribers
          pub,       \* publishTopology: the topology and who is left to be sent it
          job,       \* [exporter -> where its goroutine is, and with what]
          cache,     \* the metrics exporter's nodeTopologyCache
          series,    \* [metric vector -> its series]
          dirs,      \* /runai/proc/pod: the files, by pod and GPU
          nrt,       \* the NodeResourceTopology of the node
          snapshot,  \* what the pod-resources server's answer was built from, or NoTopology
          sysfs,     \* [zone directory -> its cpulist]
          torn,      \* the last rendering of sysfs failed half way
          socket,    \* the socket file: "none", "stale" or "served"
          focus      \* the exporters that are observed

channelVars == <<watchOpen, stream, relay, subs, pub>>
outputVars  == <<cache, series, dirs, nrt, snapshot, sysfs, torn, socket>>
exporterVars == <<cm, numa, channelVars, job, outputVars, focus, boundVars, nodeVars>>

Vectors == <<"utilization", "fbUsed", "fbFree">>
\* The exporters in the order they subscribe in; podres subscribes later.
AtInit == <<"metrics", "labels", "fs", "nrt">>
Exporters == {"metrics", "labels", "fs", "nrt", "podres"}
Idle == [at |-> "select"]
At(e, l) == job[e].at = l
Goto(e, l) == job' = [job EXCEPT ![e].at = l]
Ready(e) == job' = [job EXCEPT ![e] = Idle]

-----------------------------------------------------------------------------
\* What each exporter makes of a topology.

\* One series of each vector per GPU: its labels are the GPU and its holder.
Series(t) == {[gpu |-> i, by |-> t[i].by, users |-> t[i].users] : i \in DOMAIN t}

\* Set replaces the value of the series with the same labels.
SetSeries(S, s) == {r \in S : r.gpu # s.gpu \/ r.by # s.by} \cup {s}

\* The labels of BuildNodeLabels that differ between topologies: the GPU count.
BuildNodeLabels(t) == Len(t)

\* One directory per user of a GPU held by a reservation pod.
ProcDirs(t) == UNION {t[i].users \X {i} : i \in {j \in DOMAIN t : t[j].by \in Reserved}}

Layout(n, t) == ResolveZoneLayout(n, Len(t), Allocatable)

\* The answer of the pod-resources server: that built from its last inputs.
List == IF snapshot = NoTopology THEN {}
        ELSE BuildPodResources(snapshot.topo, Layout(snapshot.numa, snapshot.topo), Requests)

-----------------------------------------------------------------------------
StartProcess(withCm) ==
  /\ watchOpen' = TRUE
  /\ stream' = IF withCm = NoTopology THEN <<>> ELSE <<withCm>>
  /\ relay' = NoTopology
  /\ subs' = SelectSeq(AtInit, LAMBDA e: e \in focus)
  /\ pub' = [topo |-> NoTopology, left |-> <<>>]
  /\ job' = [e \in Exporters |-> IF e = "podres" THEN [at |-> "subscribe"] ELSE Idle]
  /\ cache' = NoTopology
  /\ series' = [v \in DOMAIN Vectors |-> {}]
  /\ snapshot' = NoTopology
  /\ torn' = FALSE

Init ==
  /\ focus \in FocusChoices
  /\ cm \in Topologies \cup {NoTopology}
  /\ numa \in IF focus \cap {"nrt", "podres"} # {} THEN Numas ELSE {NoNuma}
  /\ watchOpen = TRUE
  /\ stream = IF cm = NoTopology THEN <<>> ELSE <<cm>>
  /\ relay = NoTopology
  /\ subs = SelectSeq(AtInit, LAMBDA e: e \in focus)
  /\ pub = [topo |-> NoTopology, left |-> <<>>]
  /\ job = [e \in Exporters |-> IF e = "podres" THEN [at |-> "subscribe"] ELSE Idle]
  /\ cache = NoTopology
  /\ series = [v \in DOMAIN Vectors |-> {}]
  /\ dirs = {} /\ nrt = NoNRT /\ snapshot = NoTopology
  /\ sysfs = <<>> /\ torn = FALSE /\ socket = "none"
  /\ node = [gpu |-> NoLabels, foreign |-> 0, pool |-> TRUE,
             ann |-> 0, mig |-> 0, migState |-> FALSE]
  /\ copy = [c \in {"labels", "mig"} |-> NoCopy]
  /\ fresh = {}
  /\ BoundsInit

-----------------------------------------------------------------------------
\* The cluster around the exporter.

\* The status updater creates, changes or deletes the ConfigMap.  The watch
\* reports additions and changes only to who reads it as such.
ChangeTopology ==
  /\ Spend
  /\ \E t \in (Topologies \cup {NoTopology}) \ {cm} :
       /\ cm' = t
       /\ stream' = IF watchOpen /\ t # NoTopology THEN Append(stream, t) ELSE stream
  /\ UNCHANGED <<numa, watchOpen, relay, subs, pub, job, outputVars, focus, nodeVars>>

\* The API server closes the watch; what it had sent is still delivered.
EndWatch ==
  /\ Spend
  /\ watchOpen /\ watchOpen' = FALSE
  /\ UNCHANGED <<cm, numa, stream, relay, subs, pub, job, outputVars, focus, nodeVars>>

\* Someone else changes the node: a label of their own, or its pool label
\* (each where an observed agent could tell).
ChangeNode ==
  /\ Spend
  /\ \/ "labels" \in focus /\ Store([node EXCEPT !.foreign = @ + 1])
     \/ focus \cap {"nrt", "podres"} # {} /\ Store([node EXCEPT !.pool = ~@])
  /\ UNCHANGED <<cm, numa, channelVars, job, outputVars, focus, copy>>

\* The pool's numa block is changed, added or removed.
ChangeNuma ==
  /\ Spend
  /\ focus \cap {"nrt", "podres"} # {}
  /\ numa' \in Numas \ {numa}
  /\ UNCHANGED <<cm, channelVars, job, outputVars, focus, nodeVars>>

-----------------------------------------------------------------------------
\* kubeclient.watchCmChange and KubeWatcher.Watch

\* The goroutine of the watch takes the next event and blocks on its channel.
Relay ==
  /\ relay = NoTopology /\ stream # <<>>
  /\ relay' = Head(stream)
  /\ stream' = Tail(stream)
  /\ UNCHANGED <<cm, numa, watchOpen, subs, pub, job, outputVars, focus, boundVars, nodeVars>>

Selecting == pub.left = <<>>

\* publishTopology: the range takes the list of subscribers once.
Publish(t) == pub' = [topo |-> IF subs = <<>> THEN NoTopology ELSE t, left |-> subs]

ReceiveUpdate ==
  /\ Selecting /\ relay # NoTopology
  /\ Publish(relay)
  /\ relay' = NoTopology
  /\ UNCHANGED <<cm, numa, watchOpen, stream, subs, job, outputVars, focus, boundVars, nodeVars>>

\* Mutant: the interval is counted only as long as the watch is open.
IntervalOfOpenWatch ==
  /\ Selecting /\ cm # NoTopology /\ watchOpen
  /\ Publish(cm)
  /\ UNCHANGED <<cm, numa, watchOpen, stream, relay, subs, job, outputVars, focus, boundVars, nodeVars>>

\* Nothing came for TOPOLOGY_MAX_EXPORT_INTERVAL: the ConfigMap is read; when
\* there is none, or the read fails, the loop goes on.
IntervalElapses ==
  /\ Selecting /\ cm # NoTopology
  /\ Publish(cm)
  /\ UNCHANGED <<cm, numa, watchOpen, stream, relay, subs, job, outputVars, focus, boundVars, nodeVars>>

\* The blocking send to the next subscriber: it is received by a goroutine
\* that waits in its select.
Deliver ==
  /\ pub.left # <<>>
  /\ LET e == Head(pub.left)
     IN  /\ At(e, "select")
         /\ job' = [job EXCEPT ![e] = [at |-> "start", topo |-> pub.topo]]
  /\ pub' = [topo |-> IF Tail(pub.left) = <<>> THEN NoTopology ELSE pub.topo,
             left |-> Tail(pub.left)]
  /\ UNCHANGED <<cm, numa, watchOpen, stream, relay, subs, outputVars, focus, boundVars, nodeVars>>

-----------------------------------------------------------------------------
\* MetricsExporter: Reset of the three vectors, then three Sets per GPU.

\* The ticker of ten seconds: the cached topology again.
Republish ==
  /\ "metrics" \in focus
  /\ At("metrics", "select") /\ cache # NoTopology
  /\ job' = [job EXCEPT !["metrics"] = [at |-> "start", topo |-> cache]]
  /\ UNCHANGED <<cm, numa, channelVars, outputVars, focus, boundVars, nodeVars>>

StartMetrics ==
  /\ At("metrics", "start")
  /\ job' = [job EXCEPT !["metrics"] = [at |-> "reset", topo |-> @.topo, next |-> 1]]
  /\ UNCHANGED <<cm, numa, channelVars, outputVars, focus, boundVars, nodeVars>>

\* Mutant: one vector is not reset.
ResetTwoVectors ==
  /\ At("metrics", "reset")
  /\ LET v == job["metrics"].next
     IN  /\ series' = IF v = 2 THEN series ELSE [series EXCEPT ![v] = {}]
         /\ job' = IF v < Len(Vectors) THEN [job EXCEPT !["metrics"].next = v + 1]
                   ELSE [job EXCEPT !["metrics"].at = "set", !["metrics"].next = 1]
  /\ UNCHANGED <<cm, numa, channelVars, cache, dirs, nrt, snapshot, sysfs, torn, socket, focus, boundVars, nodeVars>>

ResetVector ==
  /\ At("metrics", "reset")
  /\ LET v == job["metrics"].next
     IN  /\ series' = [series EXCEPT ![v] = {}]
         /\ job' = IF v < Len(Vectors) THEN [job EXCEPT !["metrics"].next = v + 1]
                   ELSE [job EXCEPT !["metrics"].at = "set", !["metrics"].next = 1]
  /\ UNCHANGED <<cm, numa, channelVars, cache, dirs, nrt, snapshot, sysfs, torn, socket, focus, boundVars, nodeVars>>

\* The k-th Set of the loop: three for the first GPU, three for the second...
SetGauge ==
  LET k == job["metrics"].next
      t == job["metrics"].topo
      i == ((k - 1) \div Len(Vectors)) + 1
      v == ((k - 1) % Len(Vectors)) + 1
  IN  /\ At("metrics", "set") /\ i <= Len(t)
      /\ series' = [series EXCEPT ![v] = SetSeries(@, [gpu |-> i, by |-> t[i].by, users |-> t[i].users])]
      /\ job' = [job EXCEPT !["metrics"].next = k + 1]
      /\ UNCHANGED <<cm, numa, channelVars, cache, dirs, nrt, snapshot, sysfs, torn, socket, focus, boundVars, nodeVars>>

\* Mutant: the cache is filled once.
MetricsDoneOnce ==
  /\ At("metrics", "set") /\ job["metrics"].next > Len(Vectors) * Len(job["metrics"].topo)
  /\ cache' = IF cache = NoTopology THEN job["metrics"].topo ELSE cache
  /\ Ready("metrics")
  /\ UNCHANGED <<cm, numa, channelVars, series, dirs, nrt, snapshot, sysfs, torn, socket, focus, boundVars, nodeVars>>

MetricsDone ==
  /\ At("metrics", "set") /\ job["metrics"].next > Len(Vectors) * Len(job["metrics"].topo)
  /\ cache' = job["metrics"].topo
  /\ Ready("metrics")
  /\ UNCHANGED <<cm, numa, channelVars, series, dirs, nrt, snapshot, sysfs, torn, socket, focus, boundVars, nodeVars>>

MetricsExport == StartMetrics \/ ResetVector \/ SetGauge \/ MetricsDone

-----------------------------------------------------------------------------
\* LabelsExporter: SetNodeLabels reads the node, sets the keys, updates it.

ReadNode ==
  /\ At("labels", "start")
  /\ GetNode("labels")
  /\ Goto("labels", "update")
  /\ UNCHANGED <<cm, numa, channelVars, outputVars, focus, boundVars>>

UpdateLabels ==
  /\ At("labels", "update")
  /\ \/ UpdateNode("labels", [copy["labels"] EXCEPT !.gpu = BuildNodeLabels(job["labels"].topo)])
     \/ UpdateConflicts("labels")
  /\ Ready("labels")
  /\ UNCHANGED <<cm, numa, channelVars, outputVars, focus, boundVars>>

Labels == ReadNode \/ UpdateLabels

-----------------------------------------------------------------------------
\* FsExporter: the tree is removed, then written file by file.

\* RemoveAll; its error is only logged.
RemoveAll ==
  /\ At("fs", "start")
  /\ \/ dirs' = {} /\ UNCHANGED boundVars
     \/ dirs # {} /\ Mishap /\ UNCHANGED dirs
  /\ job' = [job EXCEPT !["fs"] = [at |-> "write", topo |-> @.topo, left |-> ProcDirs(@.topo)]]
  /\ UNCHANGED <<cm, numa, channelVars, cache, series, nrt, snapshot, sysfs, torn, socket, focus, nodeVars>>

\* The files of one user of one GPU; an error is only logged.
WriteDir ==
  /\ At("fs", "write")
  /\ \E d \in job["fs"].left :
       /\ \A o \in job["fs"].left : d[2] <= o[2]
       /\ \/ dirs' = dirs \cup {d} /\ UNCHANGED boundVars
          \/ Mishap /\ UNCHANGED dirs
       /\ job' = [job EXCEPT !["fs"].left = @ \ {d}]
  /\ UNCHANGED <<cm, numa, channelVars, cache, series, nrt, snapshot, sysfs, torn, socket, focus, nodeVars>>

FilesDone ==
  /\ At("fs", "write") /\ job["fs"].left = {}
  /\ Ready("fs")
  /\ UNCHANGED <<cm, numa, channelVars, outputVars, focus, boundVars, nodeVars>>

Files == RemoveAll \/ WriteDir \/ FilesDone

-----------------------------------------------------------------------------
\* The two readers of the layout: cluster ConfigMap, then node, then the rest.

ReadClusterConfig(e) ==
  /\ e \in {"nrt", "podres"}
  /\ At(e, "start")
  /\ job' = [job EXCEPT ![e] = [at |-> "node", topo |-> @.topo, numa |-> numa]]
  /\ UNCHANGED <<cm, numa, channelVars, outputVars, focus, boundVars, nodeVars>>

\* The layout that follows from the node as it is now and the config read
\* before: none without the pool label or without a numa block.
LayoutSeen(e) == IF node.pool THEN Layout(job[e].numa, job[e].topo) ELSE NoLayout

\* A call fails: the error is logged and what was exported before stays.
GiveUp(e) ==
  /\ e \in focus \cap {"labels", "nrt", "podres"}
  /\ job[e].at \in {"start", "update", "node", "pods", "apply"}
  /\ Mishap
  /\ Ready(e)
  /\ IF e = "labels" THEN DropCopy(e) ELSE UNCHANGED nodeVars
  /\ UNCHANGED <<cm, numa, channelVars, outputVars, focus>>

\* The layout cannot be resolved: likewise.
RejectLayout(e) ==
  /\ At(e, "node") /\ LayoutSeen(e) = BadLayout
  /\ Ready(e)
  /\ UNCHANGED <<cm, numa, channelVars, outputVars, focus, boundVars, nodeVars>>

\* publishNodeNRT: without a layout there is nothing to do.
ReadNodeForNRT ==
  /\ At("nrt", "node") /\ LayoutSeen("nrt") # BadLayout
  /\ IF LayoutSeen("nrt") = NoLayout THEN Ready("nrt")
     ELSE job' = [job EXCEPT !["nrt"] = [at |-> "apply", layout |-> LayoutSeen("nrt")]]
  /\ UNCHANGED <<cm, numa, channelVars, outputVars, focus, boundVars, nodeVars>>

ApplyNRT ==
  /\ At("nrt", "apply")
  /\ nrt' = BuildNRT(job["nrt"].layout)
  /\ Ready("nrt")
  /\ UNCHANGED <<cm, numa, channelVars, cache, series, dirs, snapshot, sysfs, torn, socket, focus, boundVars, nodeVars>>

NodeResourceTopology ==
  ReadClusterConfig("nrt") \/ RejectLayout("nrt") \/ ReadNodeForNRT \/ ApplyNRT

-----------------------------------------------------------------------------
\* The pod-resources exporter

\* Run subscribes first, from its own goroutine ...
SubscribePodResources ==
  /\ "podres" \in focus /\ At("podres", "subscribe")
  /\ subs' = Append(subs, "podres")
  /\ Goto("podres", "listen")
  /\ UNCHANGED <<cm, numa, watchOpen, stream, relay, pub, outputVars, focus, boundVars, nodeVars>>

\* ... then removes the socket another process left and listens.  An error is
\* logged and the socket is never served.
StartServer ==
  /\ At("podres", "listen")
  /\ \/ socket' = "served" /\ UNCHANGED boundVars
     \/ Mishap /\ socket' \in {socket, "none"}
  /\ Ready("podres")
  /\ UNCHANGED <<cm, numa, channelVars, cache, series, dirs, nrt, snapshot, sysfs, torn, focus, nodeVars>>

\* Without a layout the answer is emptied; the sysfs tree stays.
ReadNodeForPods ==
  /\ At("podres", "node") /\ LayoutSeen("podres") # BadLayout
  /\ IF LayoutSeen("podres") = NoLayout
     THEN snapshot' = NoTopology /\ Ready("podres")
     ELSE /\ Goto("podres", "pods")
          /\ UNCHANGED snapshot
  /\ UNCHANGED <<cm, numa, channelVars, cache, series, dirs, nrt, sysfs, torn, socket, focus, boundVars, nodeVars>>

\* Mutant: the tree of the layout before is kept when it has zones enough.
KeepSysfs ==
  /\ At("podres", "pods")
  /\ UNCHANGED sysfs
  /\ Goto("podres", "zones")
  /\ UNCHANGED <<cm, numa, channelVars, cache, series, dirs, nrt, snapshot, torn, socket, focus, boundVars, nodeVars>>

\* The pods' requests are listed, and RenderCpulist purges the tree.
PurgeSysfs ==
  /\ At("podres", "pods")
  /\ sysfs' = <<>>
  /\ Goto("podres", "zones")
  /\ UNCHANGED <<cm, numa, channelVars, cache, series, dirs, nrt, snapshot, torn, socket, focus, boundVars, nodeVars>>

LayoutUsed == Layout(job["podres"].numa, job["podres"].topo)

\* The cpulist of the next zone; a failed write ends the reconcile, with the
\* tree incomplete and the old answer kept.
WriteZone ==
  /\ At("podres", "zones") /\ Len(sysfs) < LayoutUsed.zones
  /\ \/ /\ sysfs' = Append(sysfs, Cpulist(LayoutUsed.ids[Len(sysfs) + 1]))
        /\ UNCHANGED <<job, torn, boundVars>>
     \/ /\ Mishap
        /\ torn' = TRUE
        /\ Ready("podres")
        /\ UNCHANGED sysfs
  /\ UNCHANGED <<cm, numa, channelVars, cache, series, dirs, nrt, snapshot, socket, focus, nodeVars>>

SetSnapshot ==
  /\ At("podres", "zones") /\ Len(sysfs) = LayoutUsed.zones
  /\ snapshot' = [topo |-> job["podres"].topo, numa |-> job["podres"].numa]
  /\ torn' = FALSE
  /\ Ready("podres")
  /\ UNCHANGED <<cm, numa, channelVars, cache, series, dirs, nrt, sysfs, socket, focus, boundVars, nodeVars>>

PodResources ==
  \/ SubscribePodResources \/ StartServer
  \/ ReadClusterConfig("podres") \/ RejectLayout("podres") \/ ReadNodeForPods
  \/ PurgeSysfs \/ WriteZone \/ SetSnapshot

-----------------------------------------------------------------------------
(* The process dies and is restarted.  Init never stores the stop channel,  *)
(* so Run does not return on a signal: it always ends this way, and the     *)
(* socket is never removed.  Files, node, NRT and sysfs outlive it.         *)
Crash ==
  /\ Mishap
  /\ StartProcess(cm)
  /\ socket' = IF socket = "served" THEN "stale" ELSE socket
  /\ DropCopy("labels")
  /\ UNCHANGED <<cm, numa, dirs, nrt, sysfs, focus>>

Environment == ChangeTopology \/ EndWatch \/ ChangeNode \/ ChangeNuma

ExporterNext ==
  \/ Environment \/ Relay \/ ReceiveUpdate \/ IntervalElapses \/ Deliver
  \/ Republish \/ MetricsExport \/ Labels \/ Files
  \/ NodeResourceTopology \/ PodResources
  \/ \E e \in Exporters : GiveUp(e)
  \/ Crash
=============================================================================
