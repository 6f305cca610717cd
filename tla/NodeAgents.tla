------------------------------ MODULE NodeAgents ------------------------------
(***************************************************************************)
(* The agents of one fake node that share its Node object: the status      *)
(* exporter, which labels it, and the MIG faker, which reads those labels  *)
(* and writes a label and an annotation of its own.                        *)
(***************************************************************************)
EXTENDS StatusExporter, MigFaker

vars == <<exporterVars, migVars>>
exporterOwnVars == <<cm, numa, channelVars, job, outputVars, focus>>

AgentsInit == Init /\ MigInit

ExporterRuns(A) == A /\ UNCHANGED migVars
\* The MIG faker runs on the node only when it is observed.
MigRuns(A) == "mig" \in focus /\ A /\ UNCHANGED exporterOwnVars

Next == ExporterRuns(ExporterNext) \/ MigRuns(MigNext)

(* Every goroutine runs, watches and informers deliver, the API server      *)
(* answers, and the interval elapses again and again.  The delivery is       *)
(* strong: between two of its ticks the metrics exporter waits in its       *)
(* select, and Go chooses among the cases that are ready.  Nothing obliges  *)
(* the cluster, a fault, a crash or the metrics ticker.                     *)
Fairness ==
  /\ WF_vars(ExporterRuns(Relay)) /\ WF_vars(ExporterRuns(ReceiveUpdate))
  /\ WF_vars(ExporterRuns(IntervalElapses)) /\ SF_vars(ExporterRuns(Deliver))
  /\ WF_vars(ExporterRuns(MetricsExport)) /\ WF_vars(ExporterRuns(Labels))
  /\ WF_vars(ExporterRuns(Files)) /\ WF_vars(ExporterRuns(NodeResourceTopology))
  /\ WF_vars(ExporterRuns(PodResources))
  /\ WF_vars(MigRuns(HandleNotice)) /\ WF_vars(MigRuns(MigStep))

Spec == AgentsInit /\ [][Next]_vars /\ Fairness

-----------------------------------------------------------------------------
(* Types and shapes: who is sent what, and where every goroutine is.        *)
TypeOK ==
  /\ cm \in Topologies \cup {NoTopology} /\ relay \in Topologies \cup {NoTopology}
  /\ stream \in Seq(Topologies) /\ cache \in Topologies \cup {NoTopology}
  /\ pub.topo = NoTopology <=> pub.left = <<>>
  /\ \A e \in Exporters : "topo" \in DOMAIN job[e] => job[e].topo \in Topologies
  /\ socket \in {"none", "stale", "served"} /\ torn \in BOOLEAN
  /\ \A c \in DOMAIN copy : c \in fresh => copy[c] = node
  /\ lastRead \in 0..Len(ConfigKind) /\ current \in 0..Len(ConfigKind)
  /\ loop \in {"get", "waiting", "woken", "map", "readLabels", "setLabels", "readAnnotations", "setAnnotations"}

(* A scrape at any moment, between any two calls of export, sees series of  *)
(* one topology only in the three vectors: the pod that used a GPU before   *)
(* is gone before the first new series is set (exporter.go:62-82).          *)
ScrapeOfOneTopology ==
  \E t \in Topologies : \A v \in DOMAIN Vectors : series[v] \subseteq Series(t)

(* Between two renderings, unless the last one failed half way, every CPU   *)
(* id served to the numa-placement-exporter is found in the cpulist of the  *)
(* very zone its pod's GPUs are charged to (docs/npe-podresources.md:24).   *)
ServedIdsResolve ==
  At("podres", "select") /\ ~ torn =>
    \A e \in List : \A c \in e.cpus : c[1] <= Len(sysfs) /\ c[2] \in IdsIn(sysfs[c[1]])

(* The answer charges every held GPU to one pod and one zone, none lost by  *)
(* the split over the zones, and exactly the cores a pod requests unless    *)
(* one of its zones has no more ids (podresources/build.go:29-130).         *)
PlacementAddsUp ==
  /\ snapshot # NoTopology =>
       UNION {{g[2] : g \in e.gpus} : e \in List} =
       {i \in DOMAIN snapshot.topo : snapshot.topo[i].by # NoPod}
  /\ \A e, f \in List : \A g \in e.gpus, h \in f.gpus : g[2] = h[2] => e = f /\ g = h
  /\ At("podres", "select") /\ ~ torn =>
       \A e \in List :
         LET zone(z) == {c[2] : c \in {d \in e.cpus : d[1] = z}}
             asked   == Cores(Requests[e.pod])
         IN  \/ Cardinality(e.cpus) = asked
             \/ Cardinality(e.cpus) < asked /\ \E g \in e.gpus : zone(g[1]) = IdsIn(sysfs[g[1]])

(* An update of the node never undoes what someone else wrote since the     *)
(* node was read (kubeclient.go:47-77: the version goes along, no retry).   *)
NothingUndone ==
  [][/\ node'.foreign >= node.foreign
     /\ node.mig # EmptyMapping /\ node'.mig # EmptyMapping => node'.mig >= node.mig]_node

(* The loop does not wait while a change is still to be mapped: when the     *)
(* informer has nothing left to hand over, the annotation in force is       *)
(* mapped or its round failed, although Get waits once and never rechecks   *)
(* and Set wakes nobody for a removal (syncconfig.go:31-48).                *)
NoChangeLost ==
  loop = "waiting" /\ notices = <<>> => node.ann = 0 \/ failed \/ node.mig = node.ann

-----------------------------------------------------------------------------
\* What the exporter publishes is what the ConfigMap says.
Synced(e) ==
  LET layout == IF node.pool THEN Layout(numa, cm) ELSE NoLayout
  IN  CASE e = "metrics" -> \A v \in DOMAIN Vectors : series[v] = Series(cm)
        [] e = "labels"  -> node.gpu = BuildNodeLabels(cm)
        [] e = "fs"      -> dirs = ProcDirs(cm)
        [] e = "nrt"     -> layout \notin {NoLayout, BadLayout} => nrt = BuildNRT(layout)
        [] e = "podres"  ->
             /\ layout = NoLayout => snapshot = NoTopology
             /\ layout \notin {NoLayout, BadLayout} =>
                  /\ snapshot = [topo |-> cm, numa |-> numa]
                  /\ sysfs = [z \in 1..layout.zones |-> Cpulist(layout.ids[z])]
        [] OTHER         -> TRUE

(* Whatever was lost on the way - a watch that ended, a subscription after  *)
(* the first publication, a refused or failed write, a restart - the        *)
(* interval makes every exporter publish the ConfigMap as it is again and   *)
(* again, and the blocking fan-out never comes to a halt                    *)
(* (kubewatcher.go:43-74, kubeclient.go:115-128).                           *)
ExportsCatchUp == \A e \in Exporters : []<>(e \in focus /\ cm # NoTopology => Synced(e))

(* Once the cluster is quiet no series or file of an earlier topology comes *)
(* back, neither from a delayed watch event nor from the metrics cache.     *)
OldExportsStayAway ==
  <>[](cm # NoTopology =>
         /\ \A v \in DOMAIN Vectors : series[v] \subseteq Series(cm)
         /\ dirs \subseteq ProcDirs(cm))

(* The annotation in force is mapped in the end, unless the round for it    *)
(* failed: no change is lost between the informer and a loop that waits     *)
(* once on the condition variable and never rechecks (syncconfig.go:31-48). *)
MigSettles == <>[](node.ann = 0 \/ failed \/ node.mig = node.ann)
=============================================================================
