--------------------------- MODULE NodeAgentsProofs ---------------------------
(***************************************************************************)
(* What is proved of the agents of a node, for any topologies, bounds,     *)
(* failures and restarts: a scrape of the metrics never mixes two          *)
(* topologies, nobody's update of the Node object undoes another's, the    *)
(* CPU ids served are in the sysfs tree, every held GPU is charged to one  *)
(* pod and one zone, no change of the MIG annotation is lost between the   *)
(* informer and the loop, and every variable has its type.                 *)
(***************************************************************************)
EXTENDS NodeAgents, WellFoundedInduction, FiniteSetTheorems, TLAPS

-----------------------------------------------------------------------------
\* The metrics of the status exporter.

\* Whatever is on its way to the metrics exporter is a topology.
Carried ==
  /\ cm \in Topologies \cup {NoTopology} /\ relay \in Topologies \cup {NoTopology}
  /\ cache \in Topologies \cup {NoTopology}
  /\ stream \in Seq(Topologies)
  /\ pub.left # <<>> => pub.topo \in Topologies

\* What its goroutine holds in each of its parts.
MetricsShape ==
  /\ DOMAIN job = Exporters
  /\ DOMAIN series = 1..3
  /\ LET m == job["metrics"]
     IN  \/ m = Idle
         \/ m = [at |-> "start", topo |-> m.topo] /\ m.topo \in Topologies
         \/ /\ m = [at |-> "reset", topo |-> m.topo, next |-> m.next]
            /\ m.topo \in Topologies /\ m.next \in 1..3
         \/ /\ m = [at |-> "set", topo |-> m.topo, next |-> m.next]
            /\ m.topo \in Topologies /\ m.next \in Nat \ {0}

\* The series that are left of the topology before are those of vectors not yet
\* reset; none is once the first of the new ones is set.
SeriesOf(t) == \A v \in 1..3 : series[v] \subseteq Series(t)
Resetting == At("metrics", "reset") => \A v \in 1..(job["metrics"].next - 1) : series[v] = {}
Setting == At("metrics", "set") => SeriesOf(job["metrics"].topo)

MetricsInv ==
  Carried /\ MetricsShape /\ (\E t \in Topologies : SeriesOf(t)) /\ Resetting /\ Setting

\* The metrics part of the state.
metricsVars == <<cm, relay, stream, pub, cache, series, job["metrics"], DOMAIN job>>

\* A step that leaves the metrics part alone keeps its invariant.
LEMMA MetricsUnchanged ==
  ASSUME MetricsInv, UNCHANGED metricsVars
  PROVE  MetricsInv'
  BY DEF metricsVars, MetricsInv, Carried, MetricsShape, SeriesOf, Resetting, Setting, At

\* The process starts with no series and nothing on its way but the ConfigMap.
LEMMA MetricsInvStart ==
  ASSUME MetricsInv, StartProcess(cm), UNCHANGED cm
  PROVE  MetricsInv'
  BY DEF StartProcess, MetricsInv, Carried, MetricsShape, SeriesOf, Resetting, Setting, At,
         Exporters, Idle, Vectors

\* Initially no series is exported and no topology is on its way.
LEMMA MetricsInvInit ==
  ASSUME Init
  PROVE  MetricsInv
  BY TopologiesAssumption DEF Init, MetricsInv, Carried, MetricsShape, SeriesOf, Resetting, Setting, At,
         Exporters, Idle, Vectors

\* The cluster, the watch and the fan-out hand on what they were given.
LEMMA MetricsInvFanOut ==
  ASSUME MetricsInv, Environment \/ Relay \/ ReceiveUpdate \/ IntervalElapses \/ Deliver
  PROVE  MetricsInv'
<1>1. UNCHANGED series
  BY DEF Environment, ChangeTopology, EndWatch, ChangeNode, ChangeNuma, Relay, ReceiveUpdate,
         IntervalElapses, Deliver, outputVars
<1>2. CASE UNCHANGED job
  <2>1. Carried'
    <3> USE DEF channelVars, outputVars, MetricsInv, Carried
    <3>1. CASE ChangeTopology
      BY <3>1 DEF ChangeTopology
    <3>2. CASE EndWatch \/ ChangeNode \/ ChangeNuma
      BY <3>2 DEF EndWatch, ChangeNode, ChangeNuma
    <3>3. CASE Relay
      BY <3>3 DEF Relay
    <3>4. CASE ReceiveUpdate
      BY <3>4 DEF ReceiveUpdate, Publish
    <3>5. CASE IntervalElapses
      BY <3>5 DEF IntervalElapses, Publish
    <3>6. CASE Deliver
      BY <3>6 DEF Deliver
    <3> QED
      BY <3>1, <3>2, <3>3, <3>4, <3>5, <3>6 DEF Environment
  <2> QED
    BY <1>1, <1>2, <2>1 DEF MetricsInv, MetricsShape, SeriesOf, Resetting, Setting, At
<1>3. CASE Deliver
  <2>1. Carried'
    BY <1>3 DEF Deliver, outputVars, MetricsInv, Carried
  <2>2. PICK e : job' = [job EXCEPT ![e] = [at |-> "start", topo |-> pub.topo]]
    BY <1>3 DEF Deliver
  <2>3. pub.topo \in Topologies
    BY <1>3 DEF Deliver, MetricsInv, Carried
  <2> QED
    BY <1>1, <2>1, <2>2, <2>3 DEF MetricsInv, MetricsShape, SeriesOf, Resetting, Setting, At, Idle
<1> QED
  BY <1>2, <1>3 DEF Environment, ChangeTopology, EndWatch, ChangeNode, ChangeNuma, Relay,
     ReceiveUpdate, IntervalElapses

\* The other exporters neither write series nor touch what is on its way.
LEMMA OthersLeaveMetrics ==
  ASSUME MetricsInv,
         \/ Labels \/ Files \/ NodeResourceTopology \/ PodResources
         \/ \E e \in Exporters : GiveUp(e)
  PROVE  UNCHANGED metricsVars
<1>0. DOMAIN job = Exporters
  BY DEF MetricsInv, MetricsShape
<1>1. /\ UNCHANGED <<cm, relay, stream, pub, cache, series>>
      /\ job' = job \/ \E e \in Exporters \ {"metrics"} : \E x : job' = [job EXCEPT ![e] = x]
  <2>1. ASSUME NEW e \in Exporters \ {"metrics"}, NEW l, Goto(e, l) \/ Ready(e)
        PROVE  \E d \in Exporters \ {"metrics"} : \E x : job' = [job EXCEPT ![d] = x]
    BY <2>1 DEF Goto, Ready
  <2>2. CASE Labels
    BY <2>1, <2>2 DEF Labels, ReadNode, UpdateLabels, Exporters, channelVars, outputVars
  <2>3. CASE Files
    BY <2>1, <2>3 DEF Files, RemoveAll, WriteDir, FilesDone, Exporters, channelVars, outputVars
  <2>4. CASE NodeResourceTopology
    BY <2>1, <2>4 DEF NodeResourceTopology, ReadClusterConfig, RejectLayout, ReadNodeForNRT, ApplyNRT,
       Exporters, channelVars, outputVars
  <2>5. CASE PodResources
    BY <2>1, <2>5 DEF PodResources, SubscribePodResources, StartServer, ReadClusterConfig,
       RejectLayout, ReadNodeForPods, PurgeSysfs, WriteZone, SetSnapshot,
       Exporters, channelVars, outputVars
  <2>6. CASE \E e \in Exporters : GiveUp(e)
    BY <2>1, <2>6 DEF GiveUp, Exporters, channelVars, outputVars
  <2> QED
    BY <2>2, <2>3, <2>4, <2>5, <2>6
<1>2. job'["metrics"] = job["metrics"] /\ DOMAIN job' = DOMAIN job
  BY <1>0, <1>1 DEF Exporters
<1> QED
  BY <1>1, <1>2 DEF metricsVars

\* The exporter resets every vector before it sets the first series.
LEMMA MetricsInvExport ==
  ASSUME MetricsInv, Republish \/ MetricsExport
  PROVE  MetricsInv'
<1> DEFINE m == job["metrics"]
<1>0. CASE Republish
  BY <1>0 DEF Republish, channelVars, outputVars, MetricsInv, Carried, MetricsShape, SeriesOf,
     Resetting, Setting, At
<1>1. CASE StartMetrics
  <2>1. m = [at |-> "start", topo |-> m.topo] /\ m.topo \in Topologies
    BY <1>1 DEF StartMetrics, At, MetricsInv, MetricsShape, Idle
  <2>2. job' = [job EXCEPT !["metrics"] = [at |-> "reset", topo |-> m.topo, next |-> 1]]
    BY <1>1 DEF StartMetrics
  <2>3. UNCHANGED <<cm, relay, stream, pub, cache, series>>
    BY <1>1 DEF StartMetrics, channelVars, outputVars
  <2> QED
    BY <2>1, <2>2, <2>3 DEF MetricsInv, Carried, MetricsShape, SeriesOf, Resetting, Setting, At
<1>2. CASE ResetVector
  <2>1. /\ m = [at |-> "reset", topo |-> m.topo, next |-> m.next]
        /\ m.topo \in Topologies /\ m.next \in 1..3
    BY <1>2 DEF ResetVector, At, MetricsInv, MetricsShape, Idle
  <2>2. series' = [series EXCEPT ![m.next] = {}]
    BY <1>2 DEF ResetVector
  <2>3. UNCHANGED <<cm, relay, stream, pub, cache>>
    BY <1>2 DEF ResetVector, channelVars
  <2>4. /\ \E t \in Topologies : \A v \in 1..3 : series'[v] \subseteq Series(t)
        /\ \A v \in 1..m.next : series'[v] = {}
        /\ DOMAIN series' = 1..3
    BY <2>1, <2>2, <1>2 DEF MetricsInv, MetricsShape, SeriesOf, Resetting, ResetVector
  <2>5. CASE m.next < 3
    <3>1. job' = [job EXCEPT !["metrics"].next = m.next + 1]
      BY <1>2, <2>5 DEF ResetVector, Vectors
    <3>2. job'["metrics"] = [at |-> "reset", topo |-> m.topo, next |-> m.next + 1]
      BY <2>1, <3>1 DEF MetricsInv, MetricsShape, Exporters
    <3> QED
      BY <2>1, <2>3, <2>4, <2>5, <3>1, <3>2
         DEF MetricsInv, Carried, MetricsShape, SeriesOf, Resetting, Setting, At
  <2>6. CASE ~ m.next < 3
    <3>1. job' = [job EXCEPT !["metrics"].at = "set", !["metrics"].next = 1]
      BY <1>2, <2>6 DEF ResetVector, Vectors
    <3>2. job'["metrics"] = [at |-> "set", topo |-> m.topo, next |-> 1]
      BY <2>1, <3>1 DEF MetricsInv, MetricsShape, Exporters
    <3>3. \A v \in 1..3 : series'[v] = {}
      BY <2>1, <2>4, <2>6
    <3>4. DOMAIN job' = Exporters
      BY <3>1 DEF MetricsInv, MetricsShape
    <3> QED
      BY <2>1, <2>3, <2>4, <3>2, <3>3, <3>4
         DEF MetricsInv, Carried, MetricsShape, SeriesOf, Resetting, Setting, At
  <2> QED
    BY <2>5, <2>6
<1>3. CASE SetGauge
  <2>1. /\ m = [at |-> "set", topo |-> m.topo, next |-> m.next]
        /\ m.topo \in Topologies /\ m.next \in Nat \ {0}
    BY <1>3 DEF SetGauge, At, MetricsInv, MetricsShape, Idle
  <2> DEFINE i == ((m.next - 1) \div 3) + 1
             v == ((m.next - 1) % 3) + 1
             s == [gpu |-> i, by |-> m.topo[i].by, users |-> m.topo[i].users]
  <2>2. i \in DOMAIN m.topo /\ v \in 1..3
    <3>1. i <= Len(m.topo)
      BY <1>3 DEF SetGauge, Vectors
    <3>2. i \in Nat \ {0} /\ v \in 1..3
      BY <2>1
    <3> QED
      BY <2>1, <3>1, <3>2, TopologiesAssumption
  <2>3. series' = [series EXCEPT ![v] = SetSeries(series[v], s)]
    BY <1>3 DEF SetGauge, Vectors
  <2>4. job' = [job EXCEPT !["metrics"].next = m.next + 1]
    BY <1>3 DEF SetGauge
  <2>5. UNCHANGED <<cm, relay, stream, pub, cache>>
    BY <1>3 DEF SetGauge, channelVars
  <2>6. job'["metrics"] = [at |-> "set", topo |-> m.topo, next |-> m.next + 1]
    BY <2>1, <2>4 DEF MetricsInv, MetricsShape, Exporters
  <2>7. s \in Series(m.topo)
    BY <2>2 DEF Series
  <2>8. \A w \in 1..3 : series'[w] \subseteq Series(m.topo)
    <3>1. SeriesOf(m.topo)
      BY <1>3 DEF SetGauge, MetricsInv, Setting
    <3>2. SetSeries(series[v], s) \subseteq Series(m.topo)
      BY <2>2, <2>7, <3>1 DEF SeriesOf, SetSeries
    <3> QED
      BY <2>2, <2>3, <3>1, <3>2 DEF SeriesOf, MetricsInv, MetricsShape
  <2>9. DOMAIN series' = 1..3 /\ DOMAIN job' = Exporters
    BY <2>3, <2>4 DEF MetricsInv, MetricsShape
  <2> QED
    BY <2>1, <2>5, <2>6, <2>8, <2>9
       DEF MetricsInv, Carried, MetricsShape, SeriesOf, Resetting, Setting, At
<1>4. CASE MetricsDone
  <2>1. m.topo \in Topologies
    BY <1>4 DEF MetricsDone, At, MetricsInv, MetricsShape, Idle
  <2> QED
    BY <1>4, <2>1 DEF MetricsDone, Ready, channelVars, MetricsInv, Carried, MetricsShape,
       SeriesOf, Resetting, Setting, At, Idle
<1> QED
  BY <1>0, <1>1, <1>2, <1>3, <1>4 DEF MetricsExport

\* The invariant is inductive.
LEMMA MetricsInvNext == MetricsInv /\ [Next]_vars => MetricsInv'
<1> SUFFICES ASSUME MetricsInv, [Next]_vars PROVE MetricsInv'
  OBVIOUS
<1>1. CASE ExporterNext
  <2>1. CASE Crash
    BY <2>1, MetricsInvStart DEF Crash
  <2> QED
    BY <1>1, <2>1, MetricsInvFanOut, MetricsInvExport, OthersLeaveMetrics, MetricsUnchanged
       DEF ExporterNext
<1>2. CASE ~ ExporterNext
  <2>1. UNCHANGED <<exporterOwnVars>> \/ UNCHANGED vars
    BY <1>2 DEF Next, ExporterRuns, MigRuns
  <2> QED
    BY <2>1, MetricsUnchanged DEF vars, exporterVars, exporterOwnVars, channelVars, outputVars, metricsVars
<1> QED
  BY <1>1, <1>2

\* The metrics exporter's invariant holds in every reachable state, whatever
\* the informer, the watcher's channel and the other goroutines do between calls.
THEOREM MetricsInvariance == Spec => []MetricsInv
BY MetricsInvInit, MetricsInvNext, PTL DEF Spec, AgentsInit

\* A scrape at any moment, between any two calls of the export, in any order of
\* watch events, ticks and intervals and after any crash, sees the series of one
\* topology in all three vectors.
THEOREM ScrapesSeeOneTopology == Spec => []ScrapeOfOneTopology
<1>1. MetricsInv => ScrapeOfOneTopology
  BY DEF MetricsInv, SeriesOf, ScrapeOfOneTopology, Vectors
<1> QED
  BY MetricsInvariance, <1>1, PTL

-----------------------------------------------------------------------------
\* The Node object and its two clients.

Clients == {"labels", "mig"}

\* A copy that has not been outdated is the object.
CopiesCurrent ==
  /\ DOMAIN copy = Clients /\ fresh \subseteq Clients
  /\ \A c \in fresh : copy[c] = node

\* The ways a client or anybody else may change object and copies.
NodeStep(c) ==
  \/ UNCHANGED nodeVars
  \/ GetNode(c) \/ DropCopy(c) \/ UpdateConflicts(c)
  \/ \E changed : UpdateNode(c, changed)
  \/ \E changed : Store(changed) /\ UNCHANGED copy

\* A copy of the Node that is not outdated stays equal to the Node: an update
\* of it by anybody else outdates the copy.
LEMMA CopiesStayCurrent ==
  ASSUME CopiesCurrent, NEW c \in Clients, NodeStep(c)
  PROVE  CopiesCurrent'
  BY DEF CopiesCurrent, NodeStep, nodeVars, GetNode, DropCopy, Forget, UpdateConflicts, UpdateNode, Store

\* Every step of the exporter is such a step and leaves the MIG faker alone.
LEMMA ExporterNodeStep ==
  ASSUME ExporterNext
  PROVE  NodeStep("labels")
<1>1. CASE Environment
  BY <1>1 DEF Environment, ChangeTopology, EndWatch, ChangeNode, ChangeNuma, NodeStep
<1>2. CASE Relay \/ ReceiveUpdate \/ IntervalElapses \/ Deliver \/ Republish \/ MetricsExport
  BY <1>2 DEF Relay, ReceiveUpdate, IntervalElapses, Deliver, Republish, MetricsExport,
     StartMetrics, ResetVector, SetGauge, MetricsDone, NodeStep
<1>3. CASE Labels
  BY <1>3 DEF Labels, ReadNode, UpdateLabels, NodeStep
<1>4. CASE Files \/ NodeResourceTopology
  BY <1>4 DEF Files, RemoveAll, WriteDir, FilesDone, NodeResourceTopology, ReadClusterConfig,
     RejectLayout, ReadNodeForNRT, ApplyNRT, NodeStep
<1>5. CASE PodResources
  BY <1>5 DEF PodResources, SubscribePodResources, StartServer, ReadClusterConfig,
     RejectLayout, ReadNodeForPods, PurgeSysfs, WriteZone, SetSnapshot, NodeStep
<1>6. CASE (\E e \in Exporters : GiveUp(e)) \/ Crash
  BY <1>6 DEF GiveUp, Crash, NodeStep
<1> QED
  BY <1>1, <1>2, <1>3, <1>4, <1>5, <1>6 DEF ExporterNext

\* And so is every step of the MIG faker.
LEMMA MigNodeStep ==
  ASSUME MigNext
  PROVE  NodeStep("mig")
  BY DEF MigNext, MigStep, Annotate, HandleNotice, Get, ComputeMapping, ReadNodeForMig,
     SetStateLabel, SetMappingAnnotation, MigCallFails, MigRestart, NodeStep

-----------------------------------------------------------------------------
\* The order of configurations.

\* The object keeps its fields.
NodeShape ==
  /\ node = [gpu |-> node.gpu, foreign |-> node.foreign, pool |-> node.pool,
             ann |-> node.ann, mig |-> node.mig, migState |-> node.migState]
  /\ node.foreign \in Nat

\* Of two configurations, unless one of them is none, the first is not the later.
UpTo(x, y) == x # 0 /\ y # 0 => x <= y

\* The notices are in order and lead up to the annotation in force; nothing is
\* as late as the next configuration.
NoticesInOrder ==
  /\ next \in Nat \ {0} /\ node.ann \in Nat /\ node.ann < next
  /\ notices \in Seq(Nat)
  /\ \A i \in 1..Len(notices) :
       /\ notices[i] < next /\ UpTo(notices[i], node.ann)
       /\ \A j \in i..Len(notices) : UpTo(notices[i], notices[j])

\* x is no later than anything the informer still has to hand over.
Behind(x) ==
  /\ x \in Nat /\ x < next /\ UpTo(x, node.ann)
  /\ \A i \in 1..Len(notices) : UpTo(x, notices[i])

\* The loop is behind the informer, and the mapping behind the loop.
MigInOrder ==
  /\ NoticesInOrder
  /\ Behind(current) /\ Behind(lastRead) /\ UpTo(lastRead, current)
  /\ node.mig # EmptyMapping =>
       Behind(node.mig) /\ UpTo(node.mig, lastRead) /\ UpTo(node.mig, current)

NodeInv == CopiesCurrent /\ NodeShape /\ MigInOrder

\* Initially nobody has a copy of the Node, and no configuration was mapped.
LEMMA NodeInvInit == AgentsInit => NodeInv
  BY DEF AgentsInit, Init, MigInit, NodeInv, CopiesCurrent, Clients, NodeShape, MigInOrder,
     NoticesInOrder, Behind, UpTo

\* Nobody's write is undone by a step.
NotUndone ==
  /\ node'.foreign >= node.foreign
  /\ node.mig # EmptyMapping /\ node'.mig # EmptyMapping => node'.mig >= node.mig

\* A step of the exporter changes the GPU labels; one of the cluster a label of
\* its own or the pool.  None of them touches what the MIG faker reads.
LEMMA ExporterKeepsNode ==
  ASSUME NodeInv, ExporterNext
  PROVE  node'.ann = node.ann /\ node'.mig = node.mig /\ node'.foreign >= node.foreign /\ NodeShape'
<1>1. \/ node' = node
      \/ node' = [node EXCEPT !.foreign = node.foreign + 1]
      \/ node' = [node EXCEPT !.pool = ~ node.pool]
      \/ \E g : node' = [node EXCEPT !.gpu = g]
  <2>1. CASE ChangeNode
    BY <2>1 DEF ChangeNode, Store
  <2>2. CASE UpdateLabels
    BY <2>2 DEF UpdateLabels, UpdateNode, UpdateConflicts, NodeInv, CopiesCurrent
  <2>3. CASE ~ ChangeNode /\ ~ UpdateLabels
    <3>1. CASE Environment \/ Labels
      BY <2>3, <3>1 DEF Environment, ChangeTopology, EndWatch, ChangeNuma, nodeVars, Labels,
         ReadNode, GetNode
    <3>2. CASE Relay \/ ReceiveUpdate \/ IntervalElapses \/ Deliver \/ Republish \/ MetricsExport
      BY <3>2 DEF Relay, ReceiveUpdate, IntervalElapses, Deliver, Republish, MetricsExport,
         StartMetrics, ResetVector, SetGauge, MetricsDone, nodeVars
    <3>3. CASE Files \/ NodeResourceTopology
      BY <3>3 DEF Files, RemoveAll, WriteDir, FilesDone, NodeResourceTopology, ReadClusterConfig,
         RejectLayout, ReadNodeForNRT, ApplyNRT, nodeVars
    <3>4. CASE PodResources
      BY <3>4 DEF PodResources, SubscribePodResources, StartServer, ReadClusterConfig,
         RejectLayout, ReadNodeForPods, PurgeSysfs, WriteZone, SetSnapshot, nodeVars
    <3>5. CASE (\E e \in Exporters : GiveUp(e)) \/ Crash
      BY <3>5 DEF GiveUp, Crash, DropCopy, nodeVars
    <3> QED
      BY <3>1, <3>2, <3>3, <3>4, <3>5 DEF ExporterNext
  <2> QED
    BY <2>1, <2>2, <2>3
<1> QED
  BY <1>1 DEF NodeInv, NodeShape

\* So they keep the order of the configurations, and undo nothing.
LEMMA ExporterKeepsOrder ==
  ASSUME NodeInv, ExporterNext, UNCHANGED migVars
  PROVE  NodeInv' /\ NotUndone
<1>1. node'.ann = node.ann /\ node'.mig = node.mig /\ node'.foreign >= node.foreign /\ NodeShape'
  BY ExporterKeepsNode
<1>2. MigInOrder'
  BY <1>1 DEF migVars, NodeInv, MigInOrder, NoticesInOrder, Behind
<1>3. CopiesCurrent'
  BY ExporterNodeStep, CopiesStayCurrent DEF NodeInv, Clients
<1>4. node.mig # EmptyMapping => node'.mig >= node.mig
  BY <1>1 DEF NodeInv, MigInOrder, Behind
<1> QED
  BY <1>1, <1>2, <1>3, <1>4 DEF NodeInv, NotUndone

\* The informer hands over in order, the loop takes what is current, and only
\* what it took is written, to a copy nobody has outdated.
LEMMA MigKeepsOrder ==
  ASSUME NodeInv, MigNext
  PROVE  NodeInv' /\ NotUndone
<1>0. CopiesCurrent'
  BY MigNodeStep, CopiesStayCurrent DEF NodeInv, Clients
<1>1. CASE Annotate
  <2>1. PICK v \in {0} \cup {next} :
          /\ node' = [node EXCEPT !.ann = v]
          /\ next' = IF v = 0 THEN next ELSE next + 1
          /\ notices' = Append(notices, v)
    BY <1>1 DEF Annotate, Store
  <2>2. UNCHANGED <<current, lastRead>>
    BY <1>1 DEF Annotate
  <2>3. NodeShape' /\ node'.ann = v /\ node'.mig = node.mig /\ node'.foreign = node.foreign
    BY <2>1 DEF NodeInv, NodeShape
  <2>4. v \in Nat /\ next' \in Nat /\ next <= next' /\ v < next' /\ notices' \in Seq(Nat)
    BY <2>1 DEF NodeInv, MigInOrder, NoticesInOrder
  <2>5. ASSUME NEW x, Behind(x) PROVE Behind(x)'
    BY <2>1, <2>3, <2>4, <2>5 DEF NodeInv, MigInOrder, NoticesInOrder, Behind, UpTo
  <2>6. NoticesInOrder'
    BY <2>1, <2>3, <2>4 DEF NodeInv, MigInOrder, NoticesInOrder, UpTo
  <2>7. MigInOrder'
    BY <2>2, <2>3, <2>5, <2>6 DEF NodeInv, MigInOrder
  <2> QED
    BY <1>0, <2>3, <2>7 DEF NodeInv, NodeShape, NotUndone, MigInOrder, Behind
<1>2. CASE HandleNotice
  <2>1. /\ notices # <<>> /\ current' = Head(notices) /\ notices' = Tail(notices)
        /\ UNCHANGED <<node, next, lastRead>>
    BY <1>2 DEF HandleNotice, Set, nodeVars
  <2>2. MigInOrder'
    BY <2>1 DEF NodeInv, MigInOrder, NoticesInOrder, Behind, UpTo
  <2> QED
    BY <1>0, <2>1, <2>2 DEF NodeInv, NodeShape, NotUndone, MigInOrder, Behind
<1>3. CASE Get
  <2>1. /\ lastRead' = lastRead \/ lastRead' = current
        /\ UNCHANGED <<node, next, notices, current>>
    BY <1>3 DEF Get, nodeVars
  <2>2. MigInOrder'
    BY <2>1 DEF NodeInv, MigInOrder, NoticesInOrder, Behind, UpTo
  <2> QED
    BY <1>0, <2>1, <2>2 DEF NodeInv, NodeShape, NotUndone, MigInOrder, Behind
<1>4. CASE ComputeMapping \/ ReadNodeForMig \/ MigCallFails
  <2>1. UNCHANGED <<node, next, notices, current, lastRead>>
    BY <1>4 DEF ComputeMapping, ReadNodeForMig, MigCallFails, GetNode, DropCopy, nodeVars
  <2> QED
    BY <1>0, <2>1 DEF NodeInv, NodeShape, NotUndone, MigInOrder, NoticesInOrder, Behind
<1>5. CASE SetStateLabel
  <2>1. /\ node' = node \/ node' = [node EXCEPT !.migState = TRUE]
        /\ UNCHANGED <<next, notices, current, lastRead>>
    BY <1>5 DEF SetStateLabel, UpdateNode, UpdateConflicts, NodeInv, CopiesCurrent
  <2>2. NodeShape' /\ node'.ann = node.ann /\ node'.mig = node.mig /\ node'.foreign = node.foreign
    BY <2>1 DEF NodeInv, NodeShape
  <2> QED
    BY <1>0, <2>1, <2>2 DEF NodeInv, NodeShape, NotUndone, MigInOrder, NoticesInOrder, Behind
<1>6. CASE SetMappingAnnotation
  <2>1. /\ node' = node \/ node' = [node EXCEPT !.mig = Mapping]
        /\ UNCHANGED <<next, notices, current, lastRead>>
    BY <1>6 DEF SetMappingAnnotation, UpdateNode, UpdateConflicts, NodeInv, CopiesCurrent
  <2>2. /\ NodeShape' /\ node'.ann = node.ann /\ node'.foreign = node.foreign
        /\ node'.mig = node.mig \/ node'.mig = Mapping
    BY <2>1 DEF NodeInv, NodeShape
  <2>3. MigInOrder'
    BY <2>1, <2>2 DEF Mapping, NodeInv, MigInOrder, NoticesInOrder, Behind, UpTo
  <2>4. node.mig # EmptyMapping /\ node'.mig # EmptyMapping => node'.mig >= node.mig
    BY <2>2 DEF Mapping, NodeInv, MigInOrder, Behind, UpTo
  <2> QED
    BY <1>0, <2>2, <2>3, <2>4 DEF NodeInv, NodeShape, NotUndone
<1>7. CASE MigRestart
  <2>1. /\ notices' = <<node.ann>> /\ current' = 0 /\ lastRead' = 0
        /\ UNCHANGED <<node, next>>
    BY <1>7 DEF MigRestart, DropCopy
  <2>2. MigInOrder'
    BY <2>1 DEF NodeInv, MigInOrder, NoticesInOrder, Behind, UpTo
  <2> QED
    BY <1>0, <2>1, <2>2 DEF NodeInv, NodeShape, NotUndone, MigInOrder, Behind
<1> QED
  BY <1>1, <1>2, <1>3, <1>4, <1>5, <1>6, <1>7 DEF MigNext, MigStep

\* Every step of the agents keeps the invariant of the Node, and a step that
\* changes the Node undoes nobody's update.
LEMMA NodeInvNext == NodeInv /\ [Next]_vars => NodeInv' /\ (node' = node \/ NotUndone)
<1> SUFFICES ASSUME NodeInv, [Next]_vars PROVE NodeInv' /\ (node' = node \/ NotUndone)
  OBVIOUS
<1>1. CASE UNCHANGED vars
  BY <1>1 DEF vars, exporterVars, nodeVars, migVars, NodeInv, CopiesCurrent, NodeShape,
     MigInOrder, NoticesInOrder, Behind
<1>2. CASE Next
  BY <1>2, ExporterKeepsOrder, MigKeepsOrder DEF Next, ExporterRuns, MigRuns
<1> QED
  BY <1>1, <1>2

\* What the clients of the Node hold and the order of the configurations are
\* as NodeInv says in every reachable state.
THEOREM NodeInvariance == Spec => []NodeInv
BY NodeInvInit, NodeInvNext, PTL DEF Spec

\* No label of another writer is ever set back, and no mapping replaced by that
\* of an earlier configuration, however reads and updates of the two agents and
\* of others are interleaved and whichever of them fail.
THEOREM NothingIsUndone == Spec => NothingUndone
<1>1. NodeInv /\ [Next]_vars =>
        [/\ node'.foreign >= node.foreign
         /\ node.mig # EmptyMapping /\ node'.mig # EmptyMapping => node'.mig >= node.mig]_node
  BY NodeInvNext DEF NotUndone
<1> QED
  BY NodeInvariance, <1>1, PTL DEF Spec, NothingUndone

-----------------------------------------------------------------------------
\* The hand-over of the MIG annotation.

\* The informer's last notice is the annotation in force.
LastNotice ==
  IF notices = <<>> THEN current = node.ann ELSE notices[Len(notices)] = node.ann

\* A loop that waits has read what is current, unless that is a removal; between
\* two rounds what it read last is mapped, unless the round failed.
Waits == loop = "waiting" => current \in {0, lastRead}
RoundDone ==
  loop \in {"get", "waiting", "woken"} /\ lastRead # 0 /\ ~ failed => node.mig = lastRead

HandOver == LastNotice /\ Waits /\ RoundDone

\* Initially the informer is about to hand over that there is no annotation.
LEMMA HandOverInit == AgentsInit => HandOver
  BY DEF AgentsInit, Init, MigInit, HandOver, LastNotice, Waits, RoundDone

\* Annotate appends what it sets, Set wakes a loop that waits for anything but a
\* removal, and a round ends well only after it has written what it read.
LEMMA HandOverMig ==
  ASSUME NodeInv, HandOver, MigNext
  PROVE  HandOver'
<1>0. notices \in Seq(Nat)
  BY DEF NodeInv, MigInOrder, NoticesInOrder
<1>1. CASE Annotate
  <2>1. PICK v \in {0} \cup {next} : node' = [node EXCEPT !.ann = v] /\ notices' = Append(notices, v)
    BY <1>1 DEF Annotate, Store
  <2>2. node'.ann = v /\ node'.mig = node.mig
    BY <2>1 DEF NodeInv, NodeShape
  <2>3. v \in Nat
    BY <2>1 DEF NodeInv, MigInOrder, NoticesInOrder
  <2>4. LastNotice'
    BY <1>0, <2>1, <2>2, <2>3 DEF LastNotice
  <2> QED
    BY <1>1, <2>2, <2>4 DEF Annotate, HandOver, Waits, RoundDone
<1>2. CASE HandleNotice
  <2>1. notices # <<>> /\ current' = Head(notices) /\ notices' = Tail(notices) /\ node' = node
    BY <1>2 DEF HandleNotice, Set, nodeVars
  <2>2. LastNotice'
    <3>1. notices[Len(notices)] = node.ann /\ Len(notices) \in Nat \ {0}
      BY <1>0, <2>1 DEF HandOver, LastNotice
    <3>2. CASE Len(notices) = 1
      BY <1>0, <2>1, <3>1, <3>2 DEF LastNotice
    <3>3. CASE Len(notices) # 1
      <4> DEFINE k == Len(notices) - 1
      <4>0. k \in 1..k /\ k + 1 = Len(notices)
        BY <3>1, <3>3
      <4>1. Len(notices') = k
        BY <1>0, <2>1
      <4>2. notices' # <<>>
        BY <4>0, <4>1
      <4>3. notices'[k] = notices[k + 1]
        BY <1>0, <2>1, <4>0, <4>1
      <4> QED
        BY <2>1, <3>1, <4>0, <4>1, <4>2, <4>3 DEF LastNotice
    <3> QED
      BY <3>1, <3>2, <3>3
  <2>3. Waits' /\ RoundDone'
    BY <1>2, <2>1 DEF HandleNotice, Set, HandOver, Waits, RoundDone
  <2> QED
    BY <2>2, <2>3 DEF HandOver
<1>3. CASE Get \/ ComputeMapping \/ ReadNodeForMig
  BY <1>3 DEF Get, ComputeMapping, ReadNodeForMig, EndRound, GetNode, nodeVars,
     HandOver, LastNotice, Waits, RoundDone
<1>4. CASE SetStateLabel
  <2>1. node' = node \/ node' = [node EXCEPT !.migState = TRUE]
    BY <1>4 DEF SetStateLabel, UpdateNode, UpdateConflicts, NodeInv, CopiesCurrent
  <2>2. node'.ann = node.ann
    BY <2>1 DEF NodeInv, NodeShape
  <2> QED
    BY <1>4, <2>2 DEF SetStateLabel, EndRound, HandOver, LastNotice, Waits, RoundDone
<1>5. CASE SetMappingAnnotation
  <2>1. \/ node' = [node EXCEPT !.mig = Mapping] /\ EndRound(TRUE)
        \/ node' = node /\ EndRound(FALSE)
    BY <1>5 DEF SetMappingAnnotation, UpdateNode, UpdateConflicts, NodeInv, CopiesCurrent
  <2>2. node'.ann = node.ann /\ (node'.mig = Mapping \/ failed')
    BY <2>1 DEF NodeInv, NodeShape, EndRound
  <2> QED
    BY <1>5, <2>1, <2>2 DEF SetMappingAnnotation, EndRound, Mapping, HandOver, LastNotice, Waits, RoundDone
<1>6. CASE MigCallFails
  BY <1>6 DEF MigCallFails, EndRound, DropCopy, HandOver, LastNotice, Waits, RoundDone
<1>7. CASE MigRestart
  BY <1>7 DEF MigRestart, EndRound, DropCopy, HandOver, LastNotice, Waits, RoundDone
<1> QED
  BY <1>1, <1>2, <1>3, <1>4, <1>5, <1>6, <1>7 DEF MigNext, MigStep

\* No step of the exporter or of the cluster around it interferes.
LEMMA HandOverNext == NodeInv /\ HandOver /\ [Next]_vars => HandOver'
<1> SUFFICES ASSUME NodeInv, HandOver, [Next]_vars PROVE HandOver'
  OBVIOUS
<1>1. CASE MigNext
  BY <1>1, HandOverMig
<1>2. CASE UNCHANGED migVars /\ (ExporterNext \/ UNCHANGED vars)
  <2>1. node'.ann = node.ann /\ node'.mig = node.mig
    BY <1>2, ExporterKeepsNode DEF vars, exporterVars, nodeVars
  <2> QED
    BY <1>2, <2>1 DEF migVars, HandOver, LastNotice, Waits, RoundDone
<1> QED
  BY <1>1, <1>2 DEF Next, ExporterRuns, MigRuns, vars, migVars

\* The loop never waits for a change that was made already: no change of the
\* annotation is lost between the informer and the loop, whatever comes between
\* Set and Get, for any configurations, conflicts, failed calls and restarts
\* (migfaker/syncconfig.go:31-48).
THEOREM ChangesNeverLost == Spec => []NoChangeLost
<1>1. AgentsInit => NodeInv /\ HandOver
  BY NodeInvInit, HandOverInit
<1>2. (NodeInv /\ HandOver) /\ [Next]_vars => (NodeInv /\ HandOver)'
  BY NodeInvNext, HandOverNext
<1>3. HandOver => NoChangeLost
  BY DEF HandOver, LastNotice, Waits, RoundDone, NoChangeLost
<1> QED
  BY <1>1, <1>2, <1>3, PTL DEF Spec

-----------------------------------------------------------------------------
\* The layout and what is built from it.

\* A non-empty set of zones has a lowest one.
LEMMA LowestZone ==
  ASSUME NEW S \in SUBSET Nat, S # {}
  PROVE  Min(S) \in S
<1>1. PICK x \in S : \A y \in S : ~(<<y, x>> \in OpToRel(<, Nat))
  BY WFMin, NatLessThanWellFounded
<1>2. \A y \in S : ~ (y < x)
  BY <1>1 DEF OpToRel
<1>3. x \in S /\ \A y \in S : x =< y
  BY <1>2
<1> QED
  BY <1>3 DEF Min

\* A layout: its GPU counts, one per zone, and an interval of ids per zone.
LayoutShape(layout) ==
  /\ layout.zones \in Nat \ {0}
  /\ layout.gpus \in Seq(Int) /\ Len(layout.gpus) = layout.zones
  /\ DOMAIN layout.ids = 1..layout.zones
  /\ \A z \in 1..layout.zones : \E a, b \in Int : layout.ids[z] = a..b

\* The numa blocks and the topologies a layout is made from.
NumaChoices == Numas \cup {NoNuma}

\* What ResolveZoneLayout returns is a layout, unless it is nil or an error.
LEMMA ResolvedLayout ==
  ASSUME NEW n \in NumaChoices, NEW t \in Topologies,
         Layout(n, t) \notin {NoLayout, BadLayout}
  PROVE  LayoutShape(Layout(n, t))
<1> DEFINE gpus == DistributeGPUs(Len(t), n.zones, n.gpus)
           cores == Cores(PerZoneCPU(n, Allocatable))
<1>1. /\ n \in Numas \ {NoNuma} /\ n.zones \in Nat \ {0} /\ gpus # BadLayout
      /\ Layout(n, t) = [zones |-> n.zones, gpus |-> gpus, cpu |-> PerZoneCPU(n, Allocatable),
                         ids |-> [z \in 1..n.zones |-> CpuIds(cores, z)]]
  BY LayoutAssumption DEF Layout, ResolveZoneLayout, NumaChoices
<1>2. gpus \in Seq(Int) /\ Len(gpus) = n.zones
  <2>1. CASE n.gpus = DefaultSplit
    <3>0. Len(t) \in Nat
      BY TopologiesAssumption
    <3>1. \A z \in 1..n.zones : Len(t) \div n.zones + (IF z <= Len(t) % n.zones THEN 1 ELSE 0) \in Int
      BY <1>1, <3>0
    <3>2. gpus = [z \in 1..n.zones |-> Len(t) \div n.zones + (IF z <= Len(t) % n.zones THEN 1 ELSE 0)]
      BY <2>1 DEF DistributeGPUs, EvenSplit
    <3>3. gpus \in [1..n.zones -> Int]
      BY <3>1, <3>2
    <3> HIDE DEF gpus
    <3> QED
      BY <1>1, <3>3
  <2>2. CASE n.gpus # DefaultSplit
    BY <1>1, <2>2, LayoutAssumption DEF DistributeGPUs
  <2> QED
    BY <2>1, <2>2
<1>3. cores \in Int
  <2>1. PerZoneCPU(n, Allocatable) \in Int
    BY <1>1, LayoutAssumption DEF PerZoneCPU
  <2> QED
    BY <2>1 DEF Cores
<1>4. ASSUME NEW z \in 1..n.zones
      PROVE  \E a, b \in Int : CpuIds(cores, z) = a..b
  <2>1. (z - 1) * cores \in Int /\ z * cores - 1 \in Int
    BY <1>1, <1>3
  <2> QED
    BY <2>1 DEF CpuIds
<1> HIDE DEF gpus, cores
<1> QED
  BY <1>1, <1>2, <1>4 DEF LayoutShape

\* The zone of a GPU is one of the zones.
LEMMA ZoneOfGpu ==
  ASSUME NEW layout, LayoutShape(layout), NEW i, i <= Sum(layout.gpus)
  PROVE  GPUIndexToZone(layout, i) \in 1..layout.zones
<1> DEFINE S == {z \in 1..layout.zones : i <= Sum(SubSeq(layout.gpus, 1, z))}
<1>1. SubSeq(layout.gpus, 1, layout.zones) = layout.gpus
  BY DEF LayoutShape
<1>2. layout.zones \in S
  <2>1. layout.zones \in 1..layout.zones
    BY DEF LayoutShape
  <2>2. Sum(SubSeq(layout.gpus, 1, layout.zones)) = Sum(layout.gpus)
    BY <1>1
  <2> HIDE DEF LayoutShape
  <2> QED
    BY <2>1, <2>2
<1>3. S \in SUBSET Nat /\ S # {}
  BY <1>2 DEF LayoutShape
<1>4. Min(S) \in S
  BY <1>3, LowestZone
<1> QED
  BY <1>4 DEF GPUIndexToZone

\* Every id of an interval is found in its cpulist.
LEMMA IdsOfInterval ==
  ASSUME NEW a \in Int, NEW b \in Int, NEW c \in a..b
  PROVE  c \in IdsIn(Cpulist(a..b))
<1>1. <<a, b>> \in Cpulist(a..b)
  BY DEF Cpulist
<1> QED
  BY <1>1 DEF IdsIn

\* The entry of a pod has ids of its zones only.
LEMMA EntryIds ==
  ASSUME NEW layout, LayoutShape(layout), NEW t, NEW p, NEW milli,
         NEW c \in PodEntry(t, layout, p, milli).cpus
  PROVE  c[1] \in 1..layout.zones /\ c[2] \in layout.ids[c[1]]
<1> DEFINE mine == {i \in DOMAIN t : t[i].by = p /\ i <= Sum(layout.gpus)}
           held == {<<GPUIndexToZone(layout, i), i>> : i \in mine}
           zones == {h[1] : h \in held}
           cores == LargestRemainder(Cores(milli),
                  [z \in zones |-> Cardinality({h \in held : h[1] = z})])
<1>1. zones \subseteq 1..layout.zones
  BY ZoneOfGpu
<1>2. PodEntry(t, layout, p, milli).cpus =
        UNION {{<<z, d>> : d \in {d \in layout.ids[z] : d - Min(layout.ids[z]) < cores[z]}} : z \in zones}
  BY DEF PodEntry
<1> HIDE DEF zones, cores
<1>3. PICK z \in zones : c \in {<<z, d>> : d \in {d \in layout.ids[z] : d - Min(layout.ids[z]) < cores[z]}}
  BY <1>2
<1>4. PICK d \in layout.ids[z] : c = <<z, d>>
  BY <1>3
<1> QED
  BY <1>1, <1>4

-----------------------------------------------------------------------------
\* The rounds of the exporters.

\* What a goroutine carries from one call of its round to the next.
Carrying == {"start", "update", "reset", "set", "write", "node", "pods", "zones"}
RoundShape(r) ==
  /\ "at" \in DOMAIN r
  /\ r.at \in Carrying => "topo" \in DOMAIN r
  /\ "topo" \in DOMAIN r => r.topo \in Topologies
  /\ r.at \in {"node", "pods", "zones"} => "numa" \in DOMAIN r
  /\ "numa" \in DOMAIN r => r.numa \in NumaChoices

Rounds == numa \in NumaChoices /\ \A e \in Exporters : RoundShape(job[e])

\* A round goes on with what it is given, or with what it has.
LEMMA RoundSet ==
  ASSUME MetricsInv, Rounds, UNCHANGED numa, NEW e, NEW r,
         job' = [job EXCEPT ![e] = r], RoundShape(r)
  PROVE  Rounds'
  BY DEF MetricsInv, MetricsShape, Rounds, RoundShape

\* A goroutine whose round ended holds nothing.
LEMMA RoundReady ==
  ASSUME MetricsInv, Rounds, UNCHANGED numa, NEW e, Ready(e)
  PROVE  Rounds'
<1>1. RoundShape(Idle)
  BY DEF RoundShape, Idle, Carrying
<1> QED
  BY <1>1, RoundSet DEF Ready

\* A goroutine that goes on to a later call has what that call needs.
LEMMA RoundGoto ==
  ASSUME MetricsInv, Rounds, UNCHANGED numa, NEW e \in Exporters, NEW l, Goto(e, l),
         l \in Carrying => job[e].at \in Carrying,
         l \in {"node", "pods", "zones"} => job[e].at \in {"node", "pods", "zones"}
  PROVE  Rounds'
<1>1. RoundShape(job[e])
  BY DEF Rounds
<1>2. RoundShape([job[e] EXCEPT !.at = l])
  BY <1>1 DEF RoundShape
<1>3. job' = [job EXCEPT ![e] = [job[e] EXCEPT !.at = l]]
  BY DEF Goto, MetricsInv, MetricsShape
<1> QED
  BY <1>2, <1>3, RoundSet

\* Initially every goroutine is idle.
LEMMA RoundsInit ==
  ASSUME Init
  PROVE  Rounds
  BY DEF Init, Rounds, RoundShape, Idle, Carrying, NumaChoices

\* No step of the exporter puts anything else into a round.
LEMMA RoundsExporter ==
  ASSUME MetricsInv, MetricsInv', Rounds, ExporterNext
  PROVE  Rounds'
<1> USE DEF channelVars, outputVars
<1>1. CASE Environment \/ Relay \/ ReceiveUpdate \/ IntervalElapses
  BY <1>1 DEF Environment, ChangeTopology, EndWatch, ChangeNode, ChangeNuma, Relay, ReceiveUpdate,
     IntervalElapses, Rounds, NumaChoices
<1>2. CASE Deliver
  <2>1. pub.topo \in Topologies
    BY <1>2 DEF Deliver, MetricsInv, Carried
  <2>2. RoundShape([at |-> "start", topo |-> pub.topo])
    BY <2>1 DEF RoundShape
  <2> QED
    BY <1>2, <2>2, RoundSet DEF Deliver
<1>3. CASE Republish \/ MetricsExport
  <2>1. UNCHANGED numa /\ \A e \in Exporters \ {"metrics"} : job'[e] = job[e]
    BY <1>3 DEF Republish, MetricsExport, StartMetrics, ResetVector, SetGauge, MetricsDone, Ready,
       MetricsInv, MetricsShape
  <2>2. RoundShape(job["metrics"])'
    BY DEF RoundShape, Idle, Carrying, MetricsInv, MetricsShape
  <2> QED
    BY <2>1, <2>2 DEF Rounds, RoundShape
<1>4. CASE Labels
  BY <1>4, RoundReady, RoundGoto DEF Labels, ReadNode, UpdateLabels, At, Carrying, Exporters
<1>5. CASE Files
  <2>1. CASE RemoveAll
    <3>1. job["fs"].topo \in Topologies
      BY <2>1 DEF RemoveAll, At, Rounds, RoundShape, Carrying, Exporters
    <3>2. RoundShape([at |-> "write", topo |-> job["fs"].topo, left |-> ProcDirs(job["fs"].topo)])
      BY <3>1 DEF RoundShape
    <3> QED
      BY <2>1, <3>2, RoundSet DEF RemoveAll
  <2>2. CASE WriteDir
    <3>1. PICK left : job' = [job EXCEPT !["fs"].left = left]
      BY <2>2 DEF WriteDir
    <3>2. job' = [job EXCEPT !["fs"] = [job["fs"] EXCEPT !.left = left]]
      BY <3>1 DEF MetricsInv, MetricsShape
    <3>3. RoundShape([job["fs"] EXCEPT !.left = left])
      BY DEF Rounds, RoundShape, Exporters
    <3> QED
      BY <2>2, <3>2, <3>3, RoundSet DEF WriteDir
  <2>3. CASE FilesDone
    BY <2>3, RoundReady DEF FilesDone
  <2> QED
    BY <1>5, <2>1, <2>2, <2>3 DEF Files
<1>6. ASSUME NEW e, ReadClusterConfig(e)
      PROVE  Rounds'
  <2>1. job[e].topo \in Topologies /\ numa \in NumaChoices
    BY <1>6 DEF ReadClusterConfig, At, Rounds, RoundShape, Carrying, Exporters
  <2>2. RoundShape([at |-> "node", topo |-> job[e].topo, numa |-> numa])
    BY <2>1 DEF RoundShape
  <2> QED
    BY <1>6, <2>2, RoundSet DEF ReadClusterConfig
<1>7. CASE NodeResourceTopology
  <2>1. CASE ReadNodeForNRT
    <3>1. RoundShape([at |-> "apply", layout |-> LayoutSeen("nrt")])
      BY DEF RoundShape, Carrying
    <3> QED
      BY <2>1, <3>1, RoundSet, RoundReady DEF ReadNodeForNRT
  <2> QED
    BY <1>6, <1>7, <2>1, RoundReady DEF NodeResourceTopology, RejectLayout, ApplyNRT
<1>8. CASE PodResources
  <2>1. CASE SubscribePodResources
    BY <2>1, RoundGoto DEF SubscribePodResources, Carrying, Exporters
  <2>2. CASE ReadNodeForPods \/ PurgeSysfs
    BY <2>2, RoundGoto, RoundReady DEF ReadNodeForPods, PurgeSysfs, At, Carrying, Exporters
  <2>3. CASE StartServer \/ RejectLayout("podres") \/ SetSnapshot
    BY <2>3, RoundReady DEF StartServer, RejectLayout, SetSnapshot
  <2>4. CASE WriteZone
    BY <2>4, RoundReady DEF WriteZone, Rounds
  <2> QED
    BY <1>6, <1>8, <2>1, <2>2, <2>3, <2>4 DEF PodResources
<1>9. CASE \E e \in Exporters : GiveUp(e)
  BY <1>9, RoundReady DEF GiveUp
<1>10. CASE Crash
  BY <1>10 DEF Crash, StartProcess, Rounds, RoundShape, Idle, Carrying
<1> QED
  BY <1>1, <1>2, <1>3, <1>4, <1>5, <1>7, <1>8, <1>9, <1>10 DEF ExporterNext

-----------------------------------------------------------------------------
\* The sysfs tree and the answer of the pod-resources server.

Resolves(n, t) == Layout(n, t) \notin {NoLayout, BadLayout}

\* The first zones of a layout are in the tree, and nothing else.
TreeOf(n, t) ==
  /\ Resolves(n, t)
  /\ Len(sysfs) <= Layout(n, t).zones
  /\ \A z \in 1..Len(sysfs) : sysfs[z] = Cpulist(Layout(n, t).ids[z])

\* An answer was built from a layout that resolves.
Answer ==
  snapshot # NoTopology =>
    /\ snapshot.numa \in NumaChoices /\ snapshot.topo \in Topologies
    /\ Resolves(snapshot.numa, snapshot.topo)

\* A tree is being rendered from the layout that was read; between two
\* renderings it is the whole tree of the answer's layout, if it is not torn.
Rendering ==
  /\ Answer
  /\ sysfs \in Seq(SUBSET (Int \X Int))
  /\ At("podres", "pods") => Resolves(job["podres"].numa, job["podres"].topo)
  /\ At("podres", "zones") => TreeOf(job["podres"].numa, job["podres"].topo)
  /\ ~ At("podres", "zones") /\ ~ torn /\ snapshot # NoTopology =>
       /\ TreeOf(snapshot.numa, snapshot.topo)
       /\ Len(sysfs) = Layout(snapshot.numa, snapshot.topo).zones

\* The server's part of the state.
podresVars == <<sysfs, torn, snapshot, job["podres"]>>

\* A step that leaves the server's part alone keeps what it says of the tree.
LEMMA RenderingUnchanged ==
  ASSUME Rendering, UNCHANGED podresVars
  PROVE  Rendering'
  BY DEF podresVars, Rendering, Answer, TreeOf, At

\* Initially there is no answer and no tree.
LEMMA RenderingInit ==
  ASSUME Init
  PROVE  Rendering
  BY DEF Init, Rendering, Answer, At, Exporters

\* The cluster, the fan-out and the other exporters leave the server alone,
\* except that a topology is sent to it while it waits.
LEMMA RenderingOthers ==
  ASSUME MetricsInv, Rendering,
         \/ Environment \/ Relay \/ ReceiveUpdate \/ IntervalElapses \/ Deliver
         \/ Republish \/ MetricsExport \/ Labels \/ Files \/ NodeResourceTopology
         \/ \E e \in Exporters : GiveUp(e)
  PROVE  Rendering'
<1> USE DEF channelVars, outputVars
<1>0. DOMAIN job = Exporters /\ "podres" \in Exporters
  BY DEF MetricsInv, MetricsShape, Exporters
<1>1. CASE Environment \/ Relay \/ ReceiveUpdate \/ IntervalElapses
  <2>1. UNCHANGED podresVars
    BY <1>1 DEF Environment, ChangeTopology, EndWatch, ChangeNode, ChangeNuma, Relay, ReceiveUpdate,
       IntervalElapses, podresVars
  <2> QED
    BY <2>1, RenderingUnchanged
<1>2. CASE Deliver
  <2>1. UNCHANGED <<sysfs, torn, snapshot>>
    BY <1>2 DEF Deliver
  <2>2. \/ job'["podres"] = job["podres"]
        \/ At("podres", "select") /\ job'["podres"] = [at |-> "start", topo |-> pub.topo]
    BY <1>0, <1>2 DEF Deliver
  <2> QED
    BY <2>1, <2>2, RenderingUnchanged DEF podresVars, Rendering, Answer, TreeOf, At
<1>3. CASE Republish \/ MetricsExport
  <2>1. UNCHANGED podresVars
    BY <1>0, <1>3 DEF Republish, MetricsExport, StartMetrics, ResetVector, SetGauge, MetricsDone, Ready,
       podresVars
  <2> QED
    BY <2>1, RenderingUnchanged
<1>4. CASE Labels \/ Files
  <2>1. UNCHANGED podresVars
    BY <1>0, <1>4 DEF Labels, ReadNode, UpdateLabels, Files, RemoveAll, WriteDir, FilesDone,
       Goto, Ready, podresVars
  <2> QED
    BY <2>1, RenderingUnchanged
<1>5. CASE NodeResourceTopology
  <2>1. UNCHANGED podresVars
    BY <1>0, <1>5 DEF NodeResourceTopology, ReadClusterConfig, RejectLayout, ReadNodeForNRT, ApplyNRT,
       Ready, podresVars
  <2> QED
    BY <2>1, RenderingUnchanged
<1>6. ASSUME NEW e \in Exporters, GiveUp(e)
      PROVE  Rendering'
  <2>1. UNCHANGED <<sysfs, torn, snapshot>> /\ job[e].at # "zones"
        /\ job' = [job EXCEPT ![e] = Idle]
    BY <1>6 DEF GiveUp, Ready
  <2>2. job'["podres"] = job["podres"] \/ (~ At("podres", "zones") /\ job'["podres"] = Idle)
    BY <1>0, <2>1 DEF At
  <2> QED
    BY <2>1, <2>2, RenderingUnchanged DEF podresVars, Rendering, Answer, TreeOf, At, Idle
<1> QED
  BY <1>1, <1>2, <1>3, <1>4, <1>5, <1>6

\* The server purges the tree and renders it zone by zone before it answers from
\* the new inputs; a failure leaves a torn tree, or the answer as it was.
LEMMA RenderingServer ==
  ASSUME MetricsInv, Rounds, Rendering, PodResources
  PROVE  Rendering'
<1> DEFINE p == job["podres"]
           layout == Layout(p.numa, p.topo)
<1>0. DOMAIN job = Exporters /\ "podres" \in Exporters
  BY DEF MetricsInv, MetricsShape, Exporters
<1>r. RoundShape(p)
  BY <1>0 DEF Rounds
<1>1. CASE SubscribePodResources \/ StartServer \/ ReadClusterConfig("podres") \/ RejectLayout("podres")
  <2>1. UNCHANGED <<sysfs, torn, snapshot>> /\ p.at \notin {"zones", "pods"}
    BY <1>1 DEF SubscribePodResources, StartServer, ReadClusterConfig, RejectLayout, At, outputVars
  <2>2. job'["podres"].at \in {"listen", "select", "node"}
    BY <1>0, <1>r, <1>1 DEF SubscribePodResources, StartServer, ReadClusterConfig, RejectLayout,
       Goto, Ready, Idle, RoundShape
  <2> QED
    BY <2>1, <2>2 DEF Rendering, Answer, TreeOf, At
<1>2. CASE ReadNodeForPods
  <2>1. UNCHANGED <<sysfs, torn>> /\ p.at = "node"
    BY <1>2 DEF ReadNodeForPods, At
  <2>2. CASE LayoutSeen("podres") = NoLayout
    <3>1. snapshot' = NoTopology /\ job'["podres"] = Idle
      BY <1>0, <1>2, <2>2 DEF ReadNodeForPods, Ready
    <3> QED
      BY <2>1, <3>1 DEF Rendering, Answer, At, Idle
  <2>3. CASE LayoutSeen("podres") # NoLayout
    <3>1. UNCHANGED snapshot /\ job'["podres"] = [p EXCEPT !.at = "pods"] /\ Resolves(p.numa, p.topo)
      BY <1>0, <1>2, <2>3 DEF ReadNodeForPods, Goto, LayoutSeen, Resolves
    <3>2. job'["podres"].at = "pods" /\ job'["podres"].numa = p.numa /\ job'["podres"].topo = p.topo
      BY <1>r, <3>1 DEF RoundShape
    <3> QED
      BY <2>1, <3>1, <3>2 DEF Rendering, Answer, TreeOf, At
  <2> QED
    BY <2>2, <2>3
<1>3. CASE PurgeSysfs
  <2>1. UNCHANGED <<torn, snapshot>> /\ sysfs' = <<>> /\ p.at = "pods"
        /\ job'["podres"] = [p EXCEPT !.at = "zones"]
    BY <1>0, <1>3 DEF PurgeSysfs, At, Goto
  <2>2. job'["podres"].at = "zones" /\ job'["podres"].numa = p.numa /\ job'["podres"].topo = p.topo
    BY <1>r, <2>1 DEF RoundShape
  <2>3. Resolves(p.numa, p.topo) /\ layout.zones \in Nat
    <3>1. Resolves(p.numa, p.topo) /\ p.numa \in NumaChoices /\ p.topo \in Topologies
      BY <1>r, <2>1 DEF Rendering, RoundShape, Carrying, At
    <3> QED
      BY <3>1, ResolvedLayout DEF Resolves, LayoutShape
  <2> HIDE DEF layout
  <2>4. sysfs' \in Seq(SUBSET (Int \X Int)) /\ Len(sysfs') = 0
    BY <2>1
  <2>5. TreeOf(p.numa, p.topo)'
    BY <2>2, <2>3, <2>4 DEF TreeOf, Resolves, layout
  <2>6. Answer'
    BY <2>1 DEF Rendering, Answer
  <2> QED
    BY <2>2, <2>4, <2>5, <2>6 DEF Rendering, At
<1>4. CASE WriteZone \/ SetSnapshot
  <2>0. p.at = "zones" /\ p.numa \in NumaChoices /\ p.topo \in Topologies
    BY <1>r, <1>4 DEF WriteZone, SetSnapshot, At, RoundShape, Carrying
  <2>1. TreeOf(p.numa, p.topo) /\ sysfs \in Seq(SUBSET (Int \X Int))
    BY <2>0 DEF Rendering, At
  <2>2. LayoutShape(layout)
    BY <2>0, <2>1, ResolvedLayout DEF TreeOf, Resolves
  <2>3. CASE WriteZone /\ UNCHANGED job
    <3>1. Len(sysfs) < layout.zones /\ UNCHANGED <<job, torn, snapshot>>
          /\ sysfs' = Append(sysfs, Cpulist(layout.ids[Len(sysfs) + 1]))
      <4>1. ~ Ready("podres")
        BY <1>0, <2>0, <2>3 DEF Ready, Idle
      <4> QED
        BY <2>3, <4>1 DEF WriteZone, LayoutUsed
    <3>2. Cpulist(layout.ids[Len(sysfs) + 1]) \in SUBSET (Int \X Int)
      <4>1. PICK a, b \in Int : layout.ids[Len(sysfs) + 1] = a..b
        <5>1. Len(sysfs) + 1 \in 1..layout.zones
          BY <2>1, <2>2, <3>1 DEF LayoutShape
        <5> QED
          BY <2>2, <5>1 DEF LayoutShape
      <4> QED
        BY <4>1 DEF Cpulist
    <3> DEFINE c == Cpulist(layout.ids[Len(sysfs) + 1])
    <3>3. c = Cpulist(layout.ids[Len(sysfs) + 1])
      OBVIOUS
    <3> HIDE DEF c
    <3>4. /\ sysfs' \in Seq(SUBSET (Int \X Int)) /\ Len(sysfs') = Len(sysfs) + 1
          /\ \A z \in 1..Len(sysfs) : sysfs'[z] = sysfs[z]
          /\ sysfs'[Len(sysfs) + 1] = c
      BY <2>1, <3>1, <3>2 DEF c
    <3>5. TreeOf(p.numa, p.topo)'
      <4>1. Len(sysfs') <= layout.zones
        BY <2>1, <2>2, <3>1, <3>4 DEF LayoutShape
      <4>2. ASSUME NEW z \in 1..Len(sysfs') PROVE sysfs'[z] = Cpulist(layout.ids[z])
        <5>1. z \in 1..Len(sysfs) \/ z = Len(sysfs) + 1
          BY <2>1, <3>4
        <5> QED
          BY <2>1, <3>3, <3>4, <5>1 DEF TreeOf
      <4> QED
        BY <2>1, <3>1, <4>1, <4>2 DEF TreeOf, Resolves
    <3> QED
      BY <2>0, <3>1, <3>4, <3>5 DEF Rendering, Answer, TreeOf, At
  <2>4. CASE WriteZone /\ ~ UNCHANGED job
    <3>1. torn' = TRUE /\ UNCHANGED <<sysfs, snapshot>> /\ job'["podres"] = Idle
      BY <1>0, <2>4 DEF WriteZone, Ready
    <3> QED
      BY <2>1, <3>1 DEF Rendering, Answer, At, Idle
  <2>5. CASE SetSnapshot
    <3>1. /\ Len(sysfs) = layout.zones /\ sysfs' = sysfs
          /\ snapshot' = [topo |-> p.topo, numa |-> p.numa] /\ job'["podres"] = Idle
      BY <1>0, <2>5 DEF SetSnapshot, LayoutUsed, Ready
    <3>2. snapshot'.topo = p.topo /\ snapshot'.numa = p.numa
      BY <3>1
    <3> QED
      BY <2>0, <2>1, <3>1, <3>2 DEF Rendering, Answer, TreeOf, Resolves, At, Idle
  <2> QED
    BY <1>4, <2>3, <2>4, <2>5
<1> QED
  BY <1>1, <1>2, <1>3, <1>4 DEF PodResources

\* A death of the process leaves the tree and takes the answer away.
LEMMA RenderingCrash ==
  ASSUME Rendering, Crash
  PROVE  Rendering'
  BY DEF Rendering, Answer, Crash, StartProcess, At, Exporters

\* The server's goroutine holds what it was given, and the tree is as it left it.
ServerInv == MetricsInv /\ Rounds /\ Rendering

\* Initially the server serves nothing and renders nothing.
LEMMA ServerInvInit == AgentsInit => ServerInv
  BY MetricsInvInit, RoundsInit, RenderingInit DEF AgentsInit, ServerInv

\* Every step of the agents keeps the server's invariant; the MIG faker's
\* steps do not touch it.
LEMMA ServerInvNext == ServerInv /\ [Next]_vars => ServerInv'
<1> SUFFICES ASSUME ServerInv, [Next]_vars PROVE ServerInv'
  OBVIOUS
<1>1. MetricsInv /\ MetricsInv' /\ Rounds /\ Rendering
  BY MetricsInvNext DEF ServerInv
<1>2. CASE ExporterNext
  <2>1. Rounds'
    BY <1>1, <1>2, RoundsExporter
  <2>2. Rendering'
    BY <1>1, <1>2, RenderingOthers, RenderingServer, RenderingCrash DEF ExporterNext
  <2> QED
    BY <1>1, <2>1, <2>2 DEF ServerInv
<1>3. CASE ~ ExporterNext
  <2>1. UNCHANGED <<exporterOwnVars>> \/ UNCHANGED vars
    BY <1>3 DEF Next, ExporterRuns, MigRuns
  <2>2. UNCHANGED <<numa, job>> /\ UNCHANGED podresVars
    BY <2>1 DEF vars, exporterVars, exporterOwnVars, outputVars, podresVars
  <2>3. Rounds'
    BY <1>1, <2>2 DEF Rounds
  <2>4. Rendering'
    BY <1>1, <2>2, RenderingUnchanged
  <2> QED
    BY <1>1, <2>3, <2>4 DEF ServerInv
<1> QED
  BY <1>2, <1>3

\* The server's invariant holds in every reachable state, through changes of
\* the topology and of the numa block, failures and deaths of the process.
THEOREM ServerInvariance == Spec => []ServerInv
BY ServerInvInit, ServerInvNext, PTL DEF Spec

\* Every CPU id the pod-resources server answers with is in the cpulist of the
\* zone it is charged to, for any numa blocks and topologies, whatever changed
\* while the tree was rendered, unless the rendering failed half way.
THEOREM ServedIdsAlwaysResolve == Spec => []ServedIdsResolve
<1>1. ServerInv => ServedIdsResolve
  <2> SUFFICES ASSUME ServerInv, At("podres", "select"), ~ torn, NEW e \in List, NEW c \in e.cpus
               PROVE  c[1] <= Len(sysfs) /\ c[2] \in IdsIn(sysfs[c[1]])
    BY DEF ServedIdsResolve
  <2> DEFINE layout == Layout(snapshot.numa, snapshot.topo)
  <2>1. snapshot # NoTopology
    BY DEF List
  <2>2. /\ snapshot.numa \in NumaChoices /\ snapshot.topo \in Topologies
        /\ TreeOf(snapshot.numa, snapshot.topo) /\ Len(sysfs) = layout.zones
    BY <2>1 DEF ServerInv, Rendering, Answer, At
  <2>3. LayoutShape(layout)
    BY <2>2, ResolvedLayout DEF TreeOf, Resolves
  <2>4. PICK p : e = PodEntry(snapshot.topo, layout, p, Requests[p])
    BY <2>1 DEF List, BuildPodResources
  <2>5. c[1] \in 1..layout.zones /\ c[2] \in layout.ids[c[1]]
    BY <2>3, <2>4, EntryIds
  <2>6. sysfs[c[1]] = Cpulist(layout.ids[c[1]]) /\ c[1] <= Len(sysfs)
    BY <2>2, <2>3, <2>5 DEF TreeOf, LayoutShape
  <2>7. PICK a, b \in Int : layout.ids[c[1]] = a..b
    BY <2>3, <2>5 DEF LayoutShape
  <2>8. c[2] \in IdsIn(Cpulist(a..b))
    BY <2>5, <2>7, IdsOfInterval
  <2> QED
    BY <2>6, <2>7, <2>8
<1> QED
  BY ServerInvariance, <1>1, PTL

-----------------------------------------------------------------------------
\* Types.

\* The numbers of configurations.
Configs == 0..Len(ConfigKind)
MigTypes ==
  /\ notices \in Seq(Configs)
  /\ node.ann \in Configs /\ current \in Configs /\ lastRead \in Configs
  /\ loop \in {"get", "waiting", "woken", "map", "readLabels", "setLabels", "readAnnotations", "setAnnotations"}

OutputTypes ==
  /\ pub.topo = NoTopology <=> pub.left = <<>>
  /\ socket \in {"none", "stale", "served"} /\ torn \in BOOLEAN

TypesInv == ServerInv /\ NodeInv /\ MigTypes /\ OutputTypes

\* Initially the agents' variables have their types.
LEMMA TypesInvInit == AgentsInit => TypesInv
<1> SUFFICES ASSUME AgentsInit PROVE TypesInv
  OBVIOUS
<1>1. MigTypes
  <2>1. 0 \in Configs
    BY ConfigAssumption DEF Configs
  <2> QED
    BY <2>1 DEF AgentsInit, Init, MigInit, MigTypes
<1>2. OutputTypes
  BY DEF AgentsInit, Init, OutputTypes
<1> QED
  BY <1>1, <1>2, ServerInvInit, NodeInvInit DEF TypesInv

\* The annotation is changed by Annotate alone, among the configurations.
LEMMA MigTypesNext ==
  ASSUME NodeInv, MigTypes, MigNext
  PROVE  MigTypes'
<1>1. CASE Annotate
  <2>1. PICK v \in {0} \cup ({next} \cap DOMAIN ConfigKind) :
          node' = [node EXCEPT !.ann = v] /\ notices' = Append(notices, v)
    BY <1>1 DEF Annotate, Store
  <2>2. v \in Configs
    BY <2>1, ConfigAssumption DEF Configs
  <2>3. node'.ann = v
    BY <2>1 DEF NodeInv, NodeShape
  <2>4. notices' \in Seq(Configs)
    BY <2>1, <2>2 DEF MigTypes
  <2> QED
    BY <1>1, <2>2, <2>3, <2>4 DEF Annotate, MigTypes
<1>2. CASE HandleNotice
  <2>1. Head(notices) \in Configs /\ Tail(notices) \in Seq(Configs)
    BY <1>2 DEF HandleNotice, MigTypes
  <2> QED
    BY <1>2, <2>1 DEF HandleNotice, Set, MigTypes, nodeVars
<1>3. CASE Get \/ ComputeMapping \/ ReadNodeForMig \/ MigCallFails
  BY <1>3 DEF Get, ComputeMapping, ReadNodeForMig, MigCallFails, EndRound, GetNode, DropCopy, nodeVars, MigTypes
<1>4. CASE SetStateLabel \/ SetMappingAnnotation
  <2>1. node' = node \/ node' = [node EXCEPT !.migState = TRUE] \/ node' = [node EXCEPT !.mig = Mapping]
    BY <1>4 DEF SetStateLabel, SetMappingAnnotation, UpdateNode, UpdateConflicts, NodeInv, CopiesCurrent
  <2>2. node'.ann = node.ann
    BY <2>1 DEF NodeInv, NodeShape
  <2> QED
    BY <1>4, <2>2 DEF SetStateLabel, SetMappingAnnotation, EndRound, MigTypes
<1>5. CASE MigRestart
  <2>1. 0 \in Configs /\ <<node.ann>> \in Seq(Configs)
    BY ConfigAssumption DEF Configs, MigTypes
  <2> QED
    BY <1>5, <2>1 DEF MigRestart, EndRound, DropCopy, MigTypes
<1> QED
  BY <1>1, <1>2, <1>3, <1>4, <1>5 DEF MigNext, MigStep

\* The exporter leaves the MIG faker's variables and its annotation alone.
LEMMA MigTypesExporter ==
  ASSUME NodeInv, MigTypes, ExporterNext, UNCHANGED migVars
  PROVE  MigTypes'
<1>1. node'.ann = node.ann
  BY ExporterKeepsNode
<1> QED
  BY <1>1 DEF migVars, MigTypes

\* Every step of the exporter keeps the types of what it publishes.
LEMMA OutputTypesNext ==
  ASSUME OutputTypes, ExporterNext
  PROVE  OutputTypes'
<1> USE DEF OutputTypes, channelVars, outputVars
<1>1. CASE Environment \/ Relay \/ ReceiveUpdate \/ IntervalElapses \/ Deliver
  <2>1. CASE Environment \/ Relay
    BY <2>1 DEF Environment, ChangeTopology, EndWatch, ChangeNode, ChangeNuma, Relay
  <2>2. CASE ReceiveUpdate
    BY <2>2 DEF ReceiveUpdate, Publish
  <2>3. CASE IntervalElapses
    BY <2>3 DEF IntervalElapses, Publish
  <2>4. CASE Deliver
    BY <2>4 DEF Deliver
  <2> QED
    BY <1>1, <2>1, <2>2, <2>3, <2>4
<1>2. CASE Republish \/ MetricsExport
  BY <1>2 DEF Republish, MetricsExport, StartMetrics, ResetVector, SetGauge, MetricsDone
<1>3. CASE Labels \/ Files \/ NodeResourceTopology
  BY <1>3 DEF Labels, ReadNode, UpdateLabels, Files, RemoveAll, WriteDir, FilesDone,
     NodeResourceTopology, ReadClusterConfig, RejectLayout, ReadNodeForNRT, ApplyNRT
<1>4. CASE PodResources
  BY <1>4 DEF PodResources, SubscribePodResources, StartServer, ReadClusterConfig, RejectLayout,
     ReadNodeForPods, PurgeSysfs, WriteZone, SetSnapshot
<1>5. CASE (\E e \in Exporters : GiveUp(e)) \/ Crash
  <2>1. CASE Crash
    <3>1. pub' = [topo |-> NoTopology, left |-> <<>>] /\ torn' = FALSE
      BY <2>1 DEF Crash, StartProcess
    <3>2. socket' \in {socket, "stale"}
      BY <2>1 DEF Crash
    <3> QED
      BY <3>1, <3>2
  <2>2. CASE \E e \in Exporters : GiveUp(e)
    BY <2>2 DEF GiveUp
  <2> QED
    BY <1>5, <2>1, <2>2
<1> QED
  BY <1>1, <1>2, <1>3, <1>4, <1>5 DEF ExporterNext

\* Every step of the agents keeps the types.
LEMMA TypesInvNext == TypesInv /\ [Next]_vars => TypesInv'
<1> SUFFICES ASSUME TypesInv, [Next]_vars PROVE TypesInv'
  OBVIOUS
<1>1. ServerInv' /\ NodeInv'
  BY ServerInvNext, NodeInvNext DEF TypesInv
<1>2. CASE UNCHANGED vars
  BY <1>1, <1>2 DEF TypesInv, MigTypes, OutputTypes, vars, exporterVars, migVars, nodeVars, channelVars, outputVars
<1>3. CASE ExporterRuns(ExporterNext)
  BY <1>1, <1>3, MigTypesExporter, OutputTypesNext DEF ExporterRuns, TypesInv
<1>4. CASE MigRuns(MigNext)
  BY <1>1, <1>4, MigTypesNext DEF MigRuns, TypesInv, OutputTypes, exporterOwnVars, channelVars, outputVars
<1> QED
  BY <1>2, <1>3, <1>4 DEF Next

\* What every goroutine and every channel holds is of its type, and a copy that
\* counts as current is the Node object, in all behaviours.
THEOREM AgentsTypes == Spec => []TypeOK
<1>1. TypesInv => TypeOK
  BY DEF TypesInv, ServerInv, NodeInv, MetricsInv, Carried, Rounds, RoundShape, CopiesCurrent,
     MigTypes, Configs, OutputTypes, TypeOK
<1>2. Spec => []TypesInv
  BY TypesInvInit, TypesInvNext, PTL DEF Spec
<1> QED
  BY <1>1, <1>2, PTL

-----------------------------------------------------------------------------
\* Induction, over numbers and over the subsets of a finite set.  The property is
\* a set, and its least counterexample is refuted.

\* A set that has 0 and, with every number, the next one has them all.
LEMMA Climb ==
  ASSUME NEW G, 0 \in G, \A n \in Nat : n \in G => n + 1 \in G
  PROVE  \A n \in Nat : n \in G
<1> SUFFICES ASSUME NEW n \in Nat, n \notin G PROVE FALSE
  OBVIOUS
<1> DEFINE T == {m \in Nat : m \notin G}
<1>1. PICK x \in T : \A y \in T : ~ (<<y, x>> \in OpToRel(<, Nat))
  BY WFMin, NatLessThanWellFounded
<1>2. \A y \in T : ~ (y < x)
  BY <1>1 DEF OpToRel
<1>3. x # 0 /\ x - 1 \in Nat
  OBVIOUS
<1>4. x - 1 \notin T
  BY <1>2, <1>3
<1>5. (x - 1) + 1 = x
  BY <1>3
<1> QED
  BY <1>3, <1>4, <1>5

\* A set has a property whenever it has it without any one element.
Peels(G, S) == \A T \in SUBSET S : (\A x \in T : T \ {x} \in G) => T \in G

\* Then every subset of a finite set has it.
LEMMA Peeling ==
  ASSUME NEW S, IsFiniteSet(S), NEW G, Peels(G, S)
  PROVE  \A T \in SUBSET S : T \in G
<1> DEFINE H == {n \in Nat : \A T \in SUBSET S : Cardinality(T) <= n => T \in G}
<1>1. ASSUME NEW T \in SUBSET S PROVE IsFiniteSet(T) /\ Cardinality(T) \in Nat
  BY FS_Subset, FS_CardinalityType
<1>2. 0 \in H
  <2> SUFFICES ASSUME NEW T \in SUBSET S, Cardinality(T) <= 0 PROVE T \in G
    OBVIOUS
  <2>1. T = {}
    BY <1>1, FS_EmptySet
  <2> QED
    BY <2>1 DEF Peels
<1>3. ASSUME NEW n \in Nat, n \in H PROVE n + 1 \in H
  <2> SUFFICES ASSUME NEW T \in SUBSET S, Cardinality(T) <= n + 1 PROVE T \in G
    OBVIOUS
  <2>1. ASSUME NEW x \in T PROVE T \ {x} \in G
    <3>1. Cardinality(T \ {x}) = Cardinality(T) - 1
      BY <1>1, FS_RemoveElement
    <3> QED
      BY <1>1, <1>3, <3>1
  <2> QED
    BY <2>1 DEF Peels
<1> HIDE DEF H
<1>4. \A n \in Nat : n \in H
  BY <1>2, <1>3, Climb
<1> QED
  BY <1>1, <1>4 DEF H

-----------------------------------------------------------------------------
\* Folds that add up a function.

\* The function that adds up w over the subsets of D, in the order of pick.
Adds(g, w, pick, D) ==
  g = [s \in D |-> IF s = {} THEN 0 ELSE w[pick[s]] + g[s \ {pick[s]}]]

Picks(pick, S) == \A s \in SUBSET S : s # {} => pick[s] \in s

\* There is such a function.
LEMMA AdderExists ==
  ASSUME NEW S, IsFiniteSet(S), NEW w, NEW pick, Picks(pick, S)
  PROVE  \E g : Adds(g, w, pick, SUBSET S)
<1> DEFINE D(n) == {s \in SUBSET S : Cardinality(s) <= n}
           G == {n \in Nat : \E g : Adds(g, w, pick, D(n))}
<1>1. ASSUME NEW s \in SUBSET S PROVE IsFiniteSet(s) /\ Cardinality(s) \in Nat /\ Cardinality(s) <= Cardinality(S)
  BY FS_Subset, FS_CardinalityType
<1>2. 0 \in G
  <2> DEFINE g == [s \in D(0) |-> 0]
  <2>1. \A s \in D(0) : s = {}
    BY <1>1, FS_EmptySet
  <2>2. Adds(g, w, pick, D(0))
    BY <2>1 DEF Adds
  <2> QED
    BY <2>2
<1>3. ASSUME NEW n \in Nat, n \in G PROVE n + 1 \in G
  <2>1. PICK f : Adds(f, w, pick, D(n))
    BY <1>3
  <2> DEFINE g == [s \in D(n + 1) |-> IF s = {} THEN 0 ELSE w[pick[s]] + f[s \ {pick[s]}]]
  <2>2. ASSUME NEW s \in D(n) PROVE s \in D(n + 1) /\ g[s] = f[s]
    <3>1. s \in D(n + 1)
      BY <1>1
    <3> QED
      BY <2>1, <3>1 DEF Adds
  <2>3. ASSUME NEW s \in D(n + 1), s # {} PROVE s \ {pick[s]} \in D(n)
    <3>1. Cardinality(s \ {pick[s]}) = Cardinality(s) - 1
      BY <1>1, <2>3, FS_RemoveElement DEF Picks
    <3> QED
      BY <1>1, <3>1
  <2>4. ASSUME NEW s \in D(n + 1)
        PROVE  g[s] = IF s = {} THEN 0 ELSE w[pick[s]] + g[s \ {pick[s]}]
    BY <2>2, <2>3
  <2>5. Adds(g, w, pick, D(n + 1))
    BY <2>4, Zenon DEF Adds
  <2> QED
    BY <2>5
<1> HIDE DEF G
<1>4. Cardinality(S) \in G
  BY <1>1, <1>2, <1>3, Climb
<1>5. D(Cardinality(S)) = SUBSET S
  BY <1>1
<1> QED
  BY <1>4, <1>5 DEF G

\* The sum of the function w over the set S.
Total(w, S) == MapThenSumSet(LAMBDA x : w[x], S)

Chosen(S) == [s \in SUBSET S |-> CHOOSE x \in s : TRUE]

\* MapThenSumSet adds up w in the order of CHOOSE.
LEMMA TotalAdds ==
  ASSUME NEW S, IsFiniteSet(S), NEW w
  PROVE  \E g : Adds(g, w, Chosen(S), SUBSET S) /\ Total(w, S) = g[S]
<1> DEFINE h == CHOOSE h : h = [s \in SUBSET S |-> IF s = {} THEN 0
                   ELSE w[CHOOSE x \in s : TRUE] + h[s \ {CHOOSE x \in s : TRUE}]]
<1>1. PICK g : Adds(g, w, Chosen(S), SUBSET S)
  BY AdderExists DEF Picks, Chosen
<1>2. \A s \in SUBSET S : Chosen(S)[s] = CHOOSE x \in s : TRUE
  BY DEF Chosen
<1>3. g = [s \in SUBSET S |-> IF s = {} THEN 0
             ELSE w[CHOOSE x \in s : TRUE] + g[s \ {CHOOSE x \in s : TRUE}]]
  BY <1>1, <1>2 DEF Adds
<1>4. h = [s \in SUBSET S |-> IF s = {} THEN 0
             ELSE w[CHOOSE x \in s : TRUE] + h[s \ {CHOOSE x \in s : TRUE}]]
  BY <1>3, Zenon
<1>5. Total(w, S) = h[S]
  BY Zenon DEF Total, MapThenSumSet, MapThenFoldSet
<1> HIDE DEF h
<1>6. Adds(h, w, Chosen(S), SUBSET S)
  BY <1>2, <1>4 DEF Adds
<1> QED
  BY <1>5, <1>6

IntValued(w, S) == \A x \in S : w[x] \in Int

\* g adds up: what it makes of a set is an element and what it makes of the rest.
Removes(g, w, S) ==
  \A T \in SUBSET S : g[T] \in Int /\ \A x \in T : g[T] = w[x] + g[T \ {x}]

\* In whatever order: a sum is that of all but one element, and that one.
LEMMA AddsRemove ==
  ASSUME NEW S, IsFiniteSet(S), NEW w, IntValued(w, S),
         NEW pick, Picks(pick, S), NEW g, Adds(g, w, pick, SUBSET S)
  PROVE  Removes(g, w, S)
<1> DEFINE G == {T \in SUBSET S : /\ g[T] \in Int
                                  /\ \A x \in T : g[T \ {x}] \in Int /\ g[T] = w[x] + g[T \ {x}]}
<1>1. ASSUME NEW T \in SUBSET S, \A x \in T : T \ {x} \in G
      PROVE  T \in G
  <2>1. CASE T = {}
    <3>1. g[{}] = 0
      BY DEF Adds
    <3> QED
      BY <2>1, <3>1
  <2>2. CASE T # {}
    <3>1. PICK p \in T : g[T] = w[p] + g[T \ {p}]
      BY <2>2 DEF Adds, Picks
    <3>2. g[T] \in Int
      <4>1. g[T \ {p}] \in Int
        BY <1>1
      <4>2. w[p] \in Int
        BY DEF IntValued
      <4> QED
        BY <3>1, <4>1, <4>2
    <3>3. ASSUME NEW x \in T, x # p PROVE g[T] = w[x] + g[T \ {x}]
      <4>1. (T \ {p}) \ {x} = (T \ {x}) \ {p}
        OBVIOUS
      <4>2. g[T \ {p}] = w[x] + g[(T \ {p}) \ {x}] /\ g[T \ {x}] = w[p] + g[(T \ {x}) \ {p}]
        BY <1>1, <3>1, <3>3
      <4>3. g[(T \ {p}) \ {x}] \in Int /\ w[x] \in Int /\ w[p] \in Int
        BY <1>1, <3>1, <3>3 DEF IntValued
      <4>4. g[T \ {x}] = w[p] + g[(T \ {p}) \ {x}]
        BY <4>1, <4>2
      <4> DEFINE a == g[T \ {p}]
                 b == g[T \ {x}]
                 c == g[(T \ {p}) \ {x}]
      <4>5. g[T] = w[p] + a /\ a = w[x] + c /\ b = w[p] + c /\ c \in Int
        BY <3>1, <4>2, <4>3, <4>4
      <4> HIDE DEF a, b, c, G
      <4>6. g[T] = w[x] + b
        BY <4>3, <4>5
      <4> QED
        BY <4>6 DEF b
    <3> QED
      BY <1>1, <3>1, <3>2, <3>3
  <2> QED
    BY <2>1, <2>2
<1> HIDE DEF G
<1>2. Peels(G, S)
  BY <1>1 DEF Peels
<1>3. \A T \in SUBSET S : T \in G
  BY <1>2, Peeling
<1> QED
  BY <1>3 DEF G, Removes

\* Whatever the order, the sum is the same.
LEMMA AddsAgree ==
  ASSUME NEW S, IsFiniteSet(S), NEW w, IntValued(w, S),
         NEW pick, Picks(pick, S), NEW g, Adds(g, w, pick, SUBSET S),
         NEW qick, Picks(qick, S), NEW f, Adds(f, w, qick, SUBSET S)
  PROVE  f[S] = g[S]
<1>1. Removes(f, w, S) /\ Removes(g, w, S)
  BY AddsRemove
<1> DEFINE G == {U \in SUBSET S : g[U] = f[U]}
<1>4. ASSUME NEW U \in SUBSET S, \A x \in U : U \ {x} \in G
      PROVE  U \in G
  <2>1. CASE U = {}
    <3>1. f[{}] = 0 /\ g[{}] = 0
      BY DEF Adds
    <3> QED
      BY <2>1, <3>1
  <2>2. CASE U # {}
    BY <1>1, <1>4, <2>2 DEF Removes
  <2> QED
    BY <2>1, <2>2
<1> HIDE DEF G
<1>5. Peels(G, S)
  BY <1>4 DEF Peels
<1>6. S \in G
  BY <1>5, Peeling
<1> QED
  BY <1>6 DEF G

\* In particular it is what MapThenSumSet adds up.
LEMMA AddsTotal ==
  ASSUME NEW S, IsFiniteSet(S), NEW w, IntValued(w, S),
         NEW pick, Picks(pick, S), NEW g, Adds(g, w, pick, SUBSET S)
  PROVE  Total(w, S) = g[S]
<1>1. Picks(Chosen(S), S)
  BY DEF Picks, Chosen
<1>2. PICK f : Adds(f, w, Chosen(S), SUBSET S) /\ Total(w, S) = f[S]
  BY TotalAdds
<1> QED
  BY <1>1, <1>2, AddsAgree

\* The same function adds up the subsets.
LEMMA AddsSubset ==
  ASSUME NEW S, IsFiniteSet(S), NEW w, IntValued(w, S),
         NEW pick, Picks(pick, S), NEW g, Adds(g, w, pick, SUBSET S),
         NEW T \in SUBSET S
  PROVE  Total(w, T) = g[T]
<1> DEFINE f == [s \in SUBSET T |-> g[s]]
<1>1. IsFiniteSet(T) /\ IntValued(w, T) /\ Picks(pick, T)
  BY FS_Subset DEF IntValued, Picks
<1>2. Adds(f, w, pick, SUBSET T)
  <2>1. ASSUME NEW s \in SUBSET T
        PROVE  f[s] = IF s = {} THEN 0 ELSE w[pick[s]] + f[s \ {pick[s]}]
    <3>1. s \ {pick[s]} \in SUBSET T /\ s \in SUBSET S
      OBVIOUS
    <3>2. g[s] = IF s = {} THEN 0 ELSE w[pick[s]] + g[s \ {pick[s]}]
      BY <3>1 DEF Adds
    <3> QED
      BY <3>1, <3>2
  <2> QED
    BY <2>1 DEF Adds
<1>3. f[T] = g[T]
  OBVIOUS
<1> HIDE DEF f
<1>4. Total(w, T) = f[T]
  BY <1>1, <1>2, AddsTotal
<1> QED
  BY <1>3, <1>4

\* The sum of integers is one, and takes in every element.
LEMMA TotalRemove ==
  ASSUME NEW S, IsFiniteSet(S), NEW w, IntValued(w, S)
  PROVE  /\ Total(w, S) \in Int
         /\ S = {} => Total(w, S) = 0
         /\ \A x \in S : Total(w, S) = w[x] + Total(w, S \ {x})
<1>1. Picks(Chosen(S), S)
  BY DEF Picks, Chosen
<1>2. PICK g : Adds(g, w, Chosen(S), SUBSET S)
  BY <1>1, AdderExists
<1>3. \A T \in SUBSET S : Total(w, T) = g[T]
  BY <1>1, <1>2, AddsSubset
<1>4. Removes(g, w, S)
  BY <1>1, <1>2, AddsRemove
<1>5. g[{}] = 0
  BY <1>2 DEF Adds
<1> QED
  BY <1>3, <1>4, <1>5 DEF Removes

\* A function of sets that takes in one element after the other ...
TakesIn(g, w, S) ==
  g[{}] = 0 /\ \A T \in SUBSET S : \A x \in T : g[T] = w[x] + g[T \ {x}]

\* ... is the sum.
LEMMA TotalIs ==
  ASSUME NEW S, IsFiniteSet(S), NEW w, IntValued(w, S),
         NEW g, TakesIn(g, w, S)
  PROVE  Total(w, S) = g[S]
<1> DEFINE G == {T \in SUBSET S : Total(w, T) = g[T]}
<1>1. ASSUME NEW T \in SUBSET S, \A x \in T : T \ {x} \in G
      PROVE  T \in G
  <2>1. /\ T = {} => Total(w, T) = 0
        /\ \A x \in T : Total(w, T) = w[x] + Total(w, T \ {x})
    <3>1. IsFiniteSet(T) /\ IntValued(w, T)
      BY FS_Subset DEF IntValued
    <3> HIDE DEF G
    <3> QED
      BY <3>1, TotalRemove
  <2> QED
    BY <1>1, <2>1 DEF TakesIn
<1> HIDE DEF G
<1>2. Peels(G, S)
  BY <1>1 DEF Peels
<1>3. S \in G
  BY <1>2, Peeling
<1> QED
  BY <1>3 DEF G

\* The sum of naturals is one.
LEMMA TotalNat ==
  ASSUME NEW S, IsFiniteSet(S), NEW w, \A x \in S : w[x] \in Nat
  PROVE  Total(w, S) \in Nat
<1> DEFINE G == {T \in SUBSET S : Total(w, T) \in Nat}
<1>1. ASSUME NEW T \in SUBSET S, \A x \in T : T \ {x} \in G
      PROVE  T \in G
  <2>1. /\ T = {} => Total(w, T) = 0
        /\ \A x \in T : Total(w, T) = w[x] + Total(w, T \ {x})
    <3>1. IsFiniteSet(T) /\ IntValued(w, T)
      BY FS_Subset DEF IntValued
    <3> HIDE DEF G
    <3> QED
      BY <3>1, TotalRemove
  <2>2. CASE T = {}
    BY <2>1, <2>2
  <2>3. ASSUME NEW x \in T PROVE Total(w, T) \in Nat
    <3>1. Total(w, T \ {x}) \in Nat /\ w[x] \in Nat
      BY <1>1
    <3> QED
      BY <2>1, <3>1
  <2> QED
    BY <2>2, <2>3
<1> HIDE DEF G
<1>2. Peels(G, S)
  BY <1>1 DEF Peels
<1>3. S \in G
  BY <1>2, Peeling
<1> QED
  BY <1>3 DEF G

\* u is a multiple of v, and w.
Combines(u, c, v, w, S) == \A x \in S : u[x] = c * v[x] + w[x]

\* Sums are linear.
LEMMA TotalLinear ==
  ASSUME NEW S, IsFiniteSet(S), NEW v, IntValued(v, S), NEW w, IntValued(w, S), NEW c \in Int,
         NEW u, Combines(u, c, v, w, S)
  PROVE  Total(u, S) = c * Total(v, S) + Total(w, S)
<1> DEFINE g == [T \in SUBSET S |-> c * Total(v, T) + Total(w, T)]
<1>1. ASSUME NEW T \in SUBSET S
      PROVE  /\ Total(w, T) \in Int
             /\ T = {} => Total(w, T) = 0
             /\ \A x \in T : Total(w, T) = w[x] + Total(w, T \ {x})
  <2>1. IsFiniteSet(T) /\ IntValued(w, T)
    BY FS_Subset DEF IntValued
  <2> QED
    BY <2>1, TotalRemove
<1>2. ASSUME NEW T \in SUBSET S
      PROVE  /\ Total(v, T) \in Int
             /\ T = {} => Total(v, T) = 0
             /\ \A x \in T : Total(v, T) = v[x] + Total(v, T \ {x})
  <2>1. IsFiniteSet(T) /\ IntValued(v, T)
    BY FS_Subset DEF IntValued
  <2> QED
    BY <2>1, TotalRemove
<1>3. g[{}] = 0
  BY <1>1, <1>2
<1>4. ASSUME NEW T \in SUBSET S, NEW x \in T
      PROVE  g[T] = u[x] + g[T \ {x}]
  <2> DEFINE R == T \ {x}
  <2>1. R \in SUBSET S
    OBVIOUS
  <2>2. g[T] = c * Total(v, T) + Total(w, T) /\ g[R] = c * Total(v, R) + Total(w, R)
    BY <2>1
  <2>3. Total(v, T) = v[x] + Total(v, R) /\ Total(w, T) = w[x] + Total(w, R)
    BY <1>1, <1>2
  <2>4. v[x] \in Int /\ w[x] \in Int /\ Total(v, R) \in Int /\ Total(w, R) \in Int
    BY <1>1, <1>2, <2>1 DEF IntValued
  <2>5. u[x] = c * v[x] + w[x]
    BY DEF Combines
  <2> HIDE DEF g, R
  <2>6. c * (v[x] + Total(v, R)) = c * v[x] + c * Total(v, R)
    BY <2>4
  <2>7. c * v[x] \in Int /\ c * Total(v, R) \in Int
    BY <2>4
  <2>8. g[T] = u[x] + g[R]
    BY <2>2, <2>3, <2>4, <2>5, <2>6, <2>7
  <2> QED
    BY <2>8 DEF R
<1>5. g[S] = c * Total(v, S) + Total(w, S)
  OBVIOUS
<1>6. IntValued(u, S)
  BY DEF Combines, IntValued
<1> HIDE DEF g
<1>7. TakesIn(g, u, S)
  BY <1>3, <1>4 DEF TakesIn
<1> QED
  BY <1>5, <1>6, <1>7, TotalIs

\* w is a constant, and tells the elements of B from the others.
Constant(w, c, S) == \A x \in S : w[x] = c
Marks(w, B, S) == \A x \in S : w[x] = IF x \in B THEN 1 ELSE 0

\* The sum of a constant.
LEMMA TotalConstant ==
  ASSUME NEW S, IsFiniteSet(S), NEW w, NEW c \in Int, Constant(w, c, S)
  PROVE  Total(w, S) = c * Cardinality(S)
<1> DEFINE g == [T \in SUBSET S |-> c * Cardinality(T)]
<1>1. g[{}] = 0
  BY FS_EmptySet
<1>2. ASSUME NEW T \in SUBSET S, NEW x \in T
      PROVE  g[T] = w[x] + g[T \ {x}]
  <2>1. Cardinality(T) \in Nat /\ Cardinality(T \ {x}) = Cardinality(T) - 1
    BY FS_Subset, FS_CardinalityType, FS_RemoveElement
  <2>2. c * (Cardinality(T) - 1) = c * Cardinality(T) - c
    BY <2>1
  <2>3. w[x] = c
    BY DEF Constant
  <2> QED
    BY <2>1, <2>2, <2>3
<1>3. g[S] = c * Cardinality(S)
  OBVIOUS
<1>4. IntValued(w, S)
  BY DEF Constant, IntValued
<1> HIDE DEF g
<1>5. TakesIn(g, w, S)
  BY <1>1, <1>2 DEF TakesIn
<1> QED
  BY <1>3, <1>4, <1>5, TotalIs

\* The sum of the marks of a part is its size.
LEMMA TotalCount ==
  ASSUME NEW S, IsFiniteSet(S), NEW w, NEW B \in SUBSET S, Marks(w, B, S)
  PROVE  Total(w, S) = Cardinality(B)
<1> DEFINE g == [T \in SUBSET S |-> Cardinality(T \cap B)]
<1>1. g[{}] = 0
  BY FS_EmptySet
<1>2. ASSUME NEW T \in SUBSET S, NEW x \in T
      PROVE  g[T] = w[x] + g[T \ {x}]
  <2>0. IsFiniteSet(T \cap B)
    BY FS_Subset
  <2>1. Cardinality(T \cap B) \in Nat
    BY <2>0, FS_CardinalityType
  <2>2. CASE x \in B
    <3>1. (T \ {x}) \cap B = (T \cap B) \ {x} /\ x \in T \cap B
      BY <2>2
    <3>2. Cardinality((T \cap B) \ {x}) = Cardinality(T \cap B) - 1
      BY <2>0, <3>1, FS_RemoveElement
    <3>3. w[x] = 1
      BY <2>2 DEF Marks
    <3>4. Cardinality((T \ {x}) \cap B) = Cardinality(T \cap B) - 1
      BY <3>1, <3>2, Zenon
    <3>5. Cardinality(T \cap B) = 1 + Cardinality((T \ {x}) \cap B)
      BY <2>1, <3>4
    <3> QED
      BY <3>3, <3>5
  <2>3. CASE x \notin B
    <3>1. (T \ {x}) \cap B = T \cap B /\ w[x] = 0
      BY <2>3 DEF Marks
    <3> QED
      BY <2>1, <3>1
  <2> QED
    BY <2>2, <2>3
<1>3. g[S] = Cardinality(B) /\ IntValued(w, S)
  <2>1. S \cap B = B
    OBVIOUS
  <2> QED
    BY <2>1 DEF IntValued, Marks
<1> HIDE DEF g
<1>4. TakesIn(g, w, S)
  BY <1>1, <1>2 DEF TakesIn
<1> QED
  BY <1>3, <1>4, TotalIs

\* A non-empty set of indexes has a last one.
LEMMA LastOne ==
  ASSUME NEW n \in Nat, NEW S \in SUBSET (1..n), S # {}
  PROVE  Max(S) \in S
<1> DEFINE R == {n - x : x \in S}
<1>1. R \in SUBSET Nat /\ R # {}
  <2>1. \A x \in S : n - x \in Nat
    OBVIOUS
  <2>2. PICK x \in S : TRUE
    OBVIOUS
  <2>3. n - x \in R
    OBVIOUS
  <2> QED
    BY <2>1, <2>3
<1>2. PICK r \in R : \A y \in R : ~(<<y, r>> \in OpToRel(<, Nat))
  BY <1>1, WFMin, NatLessThanWellFounded
<1>3. \A y \in R : ~ (y < r)
  BY <1>1, <1>2 DEF OpToRel
<1>4. PICK x \in S : r = n - x
  OBVIOUS
<1>5. \A y \in S : x >= y
  <2> SUFFICES ASSUME NEW y \in S PROVE x >= y
    OBVIOUS
  <2>1. ~ (n - y < n - x)
    BY <1>3, <1>4
  <2> QED
    BY <2>1
<1> QED
  BY <1>5 DEF Max

\* The order of FoldLeft: the last element first.
FromLast(D) == [S \in SUBSET D |-> Max(S)]

\* It is one.
LEMMA FromLastPicks ==
  ASSUME NEW n \in Nat
  PROVE  Picks(FromLast(1..n), 1..n) /\ \A S \in SUBSET (1..n) : FromLast(1..n)[S] = Max(S)
<1>1. ASSUME NEW S \in SUBSET (1..n), S # {} PROVE Max(S) \in S
  BY <1>1, LastOne
<1> QED
  BY <1>1 DEF Picks, FromLast

\* The sum of a sequence is that over its indexes.
LEMMA SumIsTotal ==
  ASSUME NEW s \in Seq(Int)
  PROVE  Sum(s) = Total(s, 1..Len(s))
<1> DEFINE D == 1..Len(s)
           h == CHOOSE h : h = [S \in SUBSET DOMAIN s |-> IF S = {} THEN 0 ELSE h[S \ {Max(S)}] + s[Max(S)]]
<1>0. Len(s) \in Nat
  OBVIOUS
<1>1. DOMAIN s = D /\ IsFiniteSet(D) /\ IntValued(s, D)
  BY FS_Interval DEF IntValued
<1>2. Picks(FromLast(D), D) /\ \A S \in SUBSET D : FromLast(D)[S] = Max(S)
  BY <1>0, FromLastPicks
<1> HIDE DEF D
<1>3. PICK g : Adds(g, s, FromLast(D), SUBSET D)
  BY <1>1, <1>2, AdderExists
<1>4. Removes(g, s, D)
  BY <1>1, <1>2, <1>3, AddsRemove
<1>5. ASSUME NEW S \in SUBSET D, S # {}
      PROVE  /\ Max(S) \in S
             /\ g[S] = g[S \ {Max(S)}] + s[Max(S)]
  <2>1. Max(S) \in S
    BY <1>2, <1>5 DEF Picks
  <2>2. g[S] = s[Max(S)] + g[S \ {Max(S)}]
    BY <1>4, <2>1 DEF Removes
  <2>3. s[Max(S)] \in Int /\ g[S \ {Max(S)}] \in Int
    BY <1>1, <1>4, <2>1 DEF IntValued, Removes
  <2> QED
    BY <2>1, <2>2, <2>3
<1>6. g[{}] = 0 /\ g = [S \in SUBSET D |-> g[S]]
  BY <1>3 DEF Adds
<1>7. g = [S \in SUBSET DOMAIN s |-> IF S = {} THEN 0 ELSE g[S \ {Max(S)}] + s[Max(S)]]
  BY <1>1, <1>5, <1>6
<1>8. h = [S \in SUBSET DOMAIN s |-> IF S = {} THEN 0 ELSE h[S \ {Max(S)}] + s[Max(S)]]
  BY <1>7, Zenon
<1>9. Sum(s) = h[DOMAIN s]
  BY Zenon DEF Sum, FoldLeft, MapThenFoldSet
<1> HIDE DEF h
<1> DEFINE G == {S \in SUBSET D : h[S] = g[S]}
<1>10. ASSUME NEW S \in SUBSET D, \A x \in S : S \ {x} \in G
       PROVE  S \in G
  <2>1. CASE S = {}
    BY <1>1, <1>6, <1>8, <2>1
  <2>2. CASE S # {}
    <3>1. h[S] = h[S \ {Max(S)}] + s[Max(S)]
      BY <1>1, <1>8, <2>2
    <3> QED
      BY <1>5, <1>10, <2>2, <3>1
  <2> QED
    BY <2>1, <2>2
<1> HIDE DEF G
<1>11. Peels(G, D)
  BY <1>10 DEF Peels
<1>12. D \in G
  BY <1>1, <1>11, Peeling
<1>13. Total(s, D) = g[D]
  BY <1>1, <1>2, <1>3, AddsTotal
<1> QED
  BY <1>1, <1>9, <1>12, <1>13 DEF G, D

\* An even split over the zones adds up to what is split.
LEMMA EvenSplitSum ==
  ASSUME NEW n \in Nat, NEW zones \in Nat \ {0}
  PROVE  EvenSplit(n, zones) \in Seq(Int) /\ Sum(EvenSplit(n, zones)) = n
<1> DEFINE Z == 1..zones
           s == EvenSplit(n, zones)
           q == n \div zones
           r == n % zones
           one == [z \in Z |-> 1]
           rest == [z \in Z |-> IF z \in 1..r THEN 1 ELSE 0]
<1>1. q \in Nat /\ r \in 0..(zones - 1) /\ n = q * zones + r
  OBVIOUS
<1>2. IsFiniteSet(Z) /\ Cardinality(Z) = zones
  BY FS_Interval
<1>3. (1..r) \in SUBSET Z /\ Cardinality(1..r) = r
  BY <1>1, FS_Interval
<1> HIDE DEF q, r
<1>4. s = [z \in Z |-> q + (IF z <= r THEN 1 ELSE 0)]
  BY DEF EvenSplit, q, r
<1>5. s \in Seq(Int) /\ Len(s) = zones
  <2>1. \A z \in Z : q + (IF z <= r THEN 1 ELSE 0) \in Int
    BY <1>1
  <2>2. s \in [1..zones -> Int]
    BY <1>4, <2>1
  <2> HIDE DEF s
  <2> QED
    BY <2>2
<1>6. Combines(s, q, one, rest, Z)
  BY <1>1, <1>4 DEF Combines
<1> HIDE DEF s
<1>7. IntValued(one, Z) /\ IntValued(rest, Z)
  BY DEF IntValued
<1>8. Total(one, Z) = 1 * Cardinality(Z)
  <2>1. Constant(one, 1, Z)
    BY DEF Constant
  <2> HIDE DEF one, Z
  <2> QED
    BY <1>2, <2>1, TotalConstant
<1>9. Total(rest, Z) = Cardinality(1..r)
  <2> DEFINE B == 1..r
  <2>2. B \in SUBSET Z
    BY <1>3
  <2>3. Marks(rest, B, Z)
    BY DEF Marks
  <2> HIDE DEF rest, Z, B
  <2>4. Total(rest, Z) = Cardinality(B)
    BY <1>2, <2>2, <2>3, TotalCount
  <2> QED
    BY <2>4 DEF B
<1> HIDE DEF one, rest, Z
<1>10. Total(s, Z) = q * Total(one, Z) + Total(rest, Z)
  BY <1>1, <1>2, <1>6, <1>7, TotalLinear
<1>11. Total(s, Z) = n
  BY <1>1, <1>2, <1>3, <1>8, <1>9, <1>10
<1> QED
  BY <1>5, <1>11, SumIsTotal DEF s, Z

-----------------------------------------------------------------------------
\* Rounding to whole units.

\* A strict order of S: B[z] is who comes before z.
StrictOrder(B, S) ==
  /\ \A z \in S : B[z] \in SUBSET S /\ z \notin B[z]
  /\ \A x, y \in S : x # y => x \in B[y] \/ y \in B[x]
  /\ \A x, y, z \in S : x \in B[y] /\ y \in B[z] => x \in B[z]

\* The first k of an order are k.
LEMMA FirstOfOrder ==
  ASSUME NEW S, IsFiniteSet(S), NEW B, StrictOrder(B, S), NEW k \in 0..Cardinality(S)
  PROVE  Cardinality({z \in S : Cardinality(B[z]) < k}) = k
<1> DEFINE n == Cardinality(S)
           Places == 0..(n - 1)
           place == [z \in S |-> Cardinality(B[z])]
           F == {z \in S : Cardinality(B[z]) < k}
           first == [z \in F |-> place[z]]
<1>1. n \in Nat
  BY FS_CardinalityType
<1>2. ASSUME NEW z \in S PROVE IsFiniteSet(B[z]) /\ Cardinality(B[z]) \in Places
  <2>1. B[z] \in SUBSET (S \ {z})
    BY DEF StrictOrder
  <2>2. IsFiniteSet(S \ {z}) /\ Cardinality(S \ {z}) = n - 1
    BY FS_RemoveElement
  <2>3. IsFiniteSet(B[z]) /\ Cardinality(B[z]) <= n - 1
    BY <2>1, <2>2, FS_Subset
  <2> QED
    BY <1>1, <2>3, FS_CardinalityType
<1>3. ASSUME NEW x \in S, NEW y \in S, x \in B[y]
      PROVE  Cardinality(B[x]) < Cardinality(B[y])
  <2>1. B[x] \cup {x} \in SUBSET B[y] /\ x \notin B[x]
    BY <1>3 DEF StrictOrder
  <2>2. Cardinality(B[x] \cup {x}) = Cardinality(B[x]) + 1
    BY <1>2, <2>1, FS_AddElement
  <2>3. Cardinality(B[x] \cup {x}) <= Cardinality(B[y])
    BY <1>2, <2>1, FS_Subset
  <2>4. Cardinality(B[x]) \in Int /\ Cardinality(B[y]) \in Int
    BY <1>2
  <2> QED
    BY <2>2, <2>3, <2>4
<1>4. ASSUME NEW x \in S, NEW y \in S, Cardinality(B[x]) = Cardinality(B[y])
      PROVE  x = y
  <2>1. Cardinality(B[x]) \in Int /\ Cardinality(B[y]) \in Int
    BY <1>2
  <2>2. x \notin B[y] /\ y \notin B[x]
    BY <1>3, <1>4, <2>1
  <2> QED
    BY <2>2 DEF StrictOrder
<1>5. place \in Injection(S, Places)
  <2>1. place \in [S -> Places]
    BY <1>2
  <2>2. IsInjective(place)
    BY <1>4 DEF IsInjective
  <2> QED
    BY <2>1, <2>2 DEF Injection
<1>6. place \in Surjection(S, Places)
  <2>1. IsFiniteSet(Places) /\ Cardinality(Places) = n
    <3>1. 0 \in Int /\ n - 1 \in Int /\ n >= 0
      BY <1>1
    <3> HIDE DEF n, place, F, first
    <3>2. IsFiniteSet(0..(n - 1)) /\ Cardinality(0..(n - 1)) = IF 0 > n - 1 THEN 0 ELSE n - 1 - 0 + 1
      BY <3>1, FS_Interval
    <3> QED
      BY <1>1, <3>2
  <2> HIDE DEF place, Places
  <2> QED
    BY <1>5, <2>1, FS_Injection
<1>7. \A i \in Places : \E z \in S : Cardinality(B[z]) = i
  BY <1>6 DEF Surjection
<1>8. IsFiniteSet(F)
  BY FS_Subset
<1>9. first \in Bijection(F, 0..(k - 1))
  <2>1. first \in [F -> 0..(k - 1)]
    BY <1>1, <1>2
  <2>2. IsInjective(first)
    BY <1>4 DEF IsInjective
  <2>3. ASSUME NEW i \in 0..(k - 1) PROVE \E z \in F : first[z] = i
    <3>1. PICK z \in S : Cardinality(B[z]) = i
      BY <1>1, <1>7
    <3>2. z \in F /\ first[z] = i
      BY <3>1
    <3> QED
      BY <3>2
  <2> HIDE DEF first, F
  <2> QED
    BY <2>1, <2>2, <2>3 DEF Bijection, Injection, Surjection
<1> HIDE DEF first, F
<1>10. Cardinality(0..(k - 1)) = Cardinality(F)
  BY <1>8, <1>9, FS_Bijection DEF ExistsBijection
<1>11. Cardinality(0..(k - 1)) = k
  BY <1>1, FS_Interval
<1> QED
  BY <1>10, <1>11 DEF F

\* The shares that are rounded down, what is cut off, and what is left over.
Floor(total, weights, sum) == [z \in DOMAIN weights |-> (total * weights[z]) \div sum]
Frac(total, weights, sum) == [z \in DOMAIN weights |-> (total * weights[z]) % sum]
\* The zones whose share is topped up before that of a zone.
Before(frac, S) ==
  [z \in S |-> {y \in S : frac[y] > frac[z] \/ (frac[y] = frac[z] /\ y < z)}]

\* LargestRemainder in terms of sums.
LEMMA RemainderForm ==
  ASSUME NEW total, NEW weights
  PROVE  LET S     == DOMAIN weights
             sum   == Total(weights, S)
             floor == Floor(total, weights, sum)
             frac  == Frac(total, weights, sum)
             left  == total - Total(floor, S)
         IN  LargestRemainder(total, weights) =
               IF sum = 0 \/ total <= 0 THEN [z \in S |-> 0]
               ELSE [z \in S |-> floor[z] +
                      (IF Cardinality({y \in S : frac[y] > frac[z] \/ (frac[y] = frac[z] /\ y < z)}) < left
                       THEN 1 ELSE 0)]
  BY Zenon DEF LargestRemainder, Total, Floor, Frac

\* Factors of the same sign, and of the same order.
LEMMA Factors ==
  ASSUME NEW s \in Nat \ {0}, NEW a \in Int, NEW b \in Int
  PROVE  /\ s * a >= 0 => a >= 0
         /\ s * a < s * b => a < b
<1>1. ASSUME a < 0 PROVE s * a < 0
  <2>1. s * (-a) > 0 /\ s * (-a) = -(s * a)
    BY <1>1
  <2> QED
    BY <2>1
<1>2. ASSUME a >= b PROVE s * a >= s * b
  <2>1. s * (a - b) >= 0 /\ s * (a - b) = s * a - s * b
    BY <1>2
  <2>2. s * a \in Int /\ s * b \in Int
    OBVIOUS
  <2> QED
    BY <2>1, <2>2
<1>3. s * a \in Int /\ s * b \in Int
  OBVIOUS
<1> QED
  BY <1>1, <1>2, <1>3

\* What is left over after rounding down is less than one unit per zone.
LEMMA LeftOver ==
  ASSUME NEW S, IsFiniteSet(S), S # {}, NEW weights, DOMAIN weights = S,
         \A z \in S : weights[z] \in Nat \ {0}, NEW total \in Nat,
         NEW sum, sum = Total(weights, S), NEW floor, floor = Floor(total, weights, sum),
         NEW frac, frac = Frac(total, weights, sum)
  PROVE  /\ sum \in Nat \ {0}
         /\ \A z \in S : floor[z] \in Nat /\ frac[z] \in Nat
         /\ Total(floor, S) \in Int
         /\ total - Total(floor, S) \in 0..(Cardinality(S) - 1)
<1> DEFINE zero == [z \in S |-> 0]
           share == [z \in S |-> total * weights[z]]
           slack == [z \in S |-> sum - 1 - frac[z]]
           n == Cardinality(S)
<1>1. IntValued(weights, S)
  BY DEF IntValued
<1>2. sum \in Nat \ {0}
  <2>1. PICK x \in S : TRUE
    OBVIOUS
  <2>2. sum = weights[x] + Total(weights, S \ {x})
    BY <1>1, TotalRemove
  <2>3. Total(weights, S \ {x}) \in Nat
    <3>1. IsFiniteSet(S \ {x}) /\ \A z \in S \ {x} : weights[z] \in Nat
      BY FS_RemoveElement
    <3> QED
      BY <3>1, TotalNat
  <2> QED
    BY <2>2, <2>3
<1>3. ASSUME NEW z \in S
      PROVE  /\ floor[z] \in Nat /\ frac[z] \in 0..(sum - 1)
             /\ total * weights[z] = sum * floor[z] + frac[z]
             /\ total * weights[z] \in Int
  <2> DEFINE p == total * weights[z]
  <2>1. p \in Nat
    OBVIOUS
  <2>2. floor[z] = p \div sum /\ frac[z] = p % sum
    BY DEF Floor, Frac
  <2> HIDE DEF p
  <2>3. floor[z] \in Nat /\ frac[z] \in 0..(sum - 1) /\ p = sum * floor[z] + frac[z]
    <3>1. p \div sum \in Nat /\ p % sum \in 0..(sum - 1) /\ p = (p \div sum) * sum + (p % sum)
      BY ONLY <1>2, <2>1
    <3>2. p = floor[z] * sum + frac[z] /\ floor[z] \in Nat /\ frac[z] \in 0..(sum - 1)
      BY <2>2, <3>1, Zenon
    <3>3. floor[z] * sum = sum * floor[z]
      BY ONLY <1>2, <3>2
    <3> QED
      BY <3>2, <3>3
  <2> QED
    BY <2>1, <2>3 DEF p
<1>4. IntValued(floor, S) /\ IntValued(frac, S) /\ IntValued(zero, S) /\ IntValued(share, S)
  BY <1>2, <1>3 DEF IntValued
<1>5. Total(share, S) = total * sum
  <2>1. Total(zero, S) = 0 * Cardinality(S)
    <3>1. Constant(zero, 0, S)
      BY DEF Constant
    <3> HIDE DEF zero
    <3> QED
      BY <3>1, TotalConstant
  <2>2. Combines(share, total, weights, zero, S)
    BY <1>3 DEF Combines
  <2> HIDE DEF share, zero
  <2>3. Total(share, S) = total * Total(weights, S) + Total(zero, S)
    BY <1>1, <1>4, <2>2, TotalLinear
  <2>4. n \in Nat
    BY FS_CardinalityType
  <2> QED
    BY <1>2, <2>1, <2>3, <2>4
<1>6. Total(share, S) = sum * Total(floor, S) + Total(frac, S)
  <2>1. Combines(share, sum, floor, frac, S)
    BY <1>3 DEF Combines
  <2> HIDE DEF share
  <2> QED
    BY <1>2, <1>4, <2>1, TotalLinear
<1>7. n \in Nat \ {0}
  BY FS_CardinalityType, FS_EmptySet
<1>8. Total(frac, S) \in Nat
  BY <1>2, <1>3, TotalNat
<1>9. Total(frac, S) <= (sum - 1) * n
  <2> DEFINE top == [z \in S |-> sum - 1]
  <2>1. \A z \in S : slack[z] \in Nat /\ top[z] = slack[z] + frac[z]
    BY <1>2, <1>3
  <2>2. IntValued(slack, S) /\ Combines(top, 1, slack, frac, S) /\ Constant(top, sum - 1, S)
    BY <1>3, <2>1 DEF IntValued, Combines, Constant
  <2> HIDE DEF slack, top
  <2>3. Total(slack, S) \in Nat
    BY <2>1, TotalNat
  <2>4. Total(top, S) = 1 * Total(slack, S) + Total(frac, S)
    BY <1>4, <2>1, <2>2, TotalLinear
  <2>5. Total(top, S) = (sum - 1) * n
    <3>1. sum - 1 \in Int
      BY <1>2
    <3> QED
      BY <2>2, <3>1, TotalConstant
  <2> QED
    BY <1>8, <2>3, <2>4, <2>5
<1>10. Total(floor, S) \in Int
  BY <1>4, TotalRemove
<1> DEFINE left == total - Total(floor, S)
<1>11. sum * left = Total(frac, S) /\ left \in Int
  <2>1. sum * left = sum * total - sum * Total(floor, S)
    BY <1>2, <1>10
  <2>2. total * sum = sum * total /\ sum * total \in Int /\ sum * Total(floor, S) \in Int
    BY <1>2, <1>10
  <2> QED
    BY <1>5, <1>6, <1>8, <1>10, <2>1, <2>2
<1>12. left >= 0 /\ left < n
  <2>1. (sum - 1) * n = sum * n - n /\ sum * n \in Int
    BY <1>2, <1>7
  <2>2. sum * left >= 0 /\ sum * left < sum * n
    BY <1>7, <1>8, <1>9, <1>11, <2>1
  <2> HIDE DEF left, n
  <2> QED
    BY <1>2, <1>7, <1>11, <2>2, Factors
<1> QED
  BY <1>2, <1>3, <1>7, <1>10, <1>11, <1>12

\* The zones are in a strict order of their fractions.
LEMMA BeforeIsOrder ==
  ASSUME NEW S \in SUBSET Int, NEW frac, \A z \in S : frac[z] \in Nat
  PROVE  StrictOrder(Before(frac, S), S)
<1> DEFINE B == Before(frac, S)
<1>1. \A x, z \in S : x \in B[z] <=> frac[x] > frac[z] \/ (frac[x] = frac[z] /\ x < z)
  BY DEF Before
<1>2. ASSUME NEW z \in S PROVE B[z] \in SUBSET S
  BY DEF Before
<1> HIDE DEF B
<1>3. ASSUME NEW z \in S PROVE z \notin B[z]
  BY <1>1
<1>4. ASSUME NEW x \in S, NEW y \in S, x # y PROVE x \in B[y] \/ y \in B[x]
  BY <1>1, <1>4
<1>5. ASSUME NEW x \in S, NEW y \in S, NEW z \in S, x \in B[y], y \in B[z] PROVE x \in B[z]
  <2>1. frac[x] \in Nat /\ frac[y] \in Nat /\ frac[z] \in Nat
    OBVIOUS
  <2>2. frac[x] > frac[y] \/ (frac[x] = frac[y] /\ x < y)
    BY <1>1, <1>5
  <2>3. frac[y] > frac[z] \/ (frac[y] = frac[z] /\ y < z)
    BY <1>1, <1>5
  <2>4. frac[x] > frac[z] \/ (frac[x] = frac[z] /\ x < z)
    BY <2>1, <2>2, <2>3
  <2> QED
    BY <1>1, <2>4
<1> QED
  BY <1>2, <1>3, <1>4, <1>5 DEF StrictOrder, B

\* Nothing is lost by rounding: the shares of the zones are naturals and add up
\* to what is shared.
THEOREM LargestRemainderAddsUp ==
  ASSUME NEW S \in SUBSET Int, IsFiniteSet(S), S # {}, NEW weights, DOMAIN weights = S,
         \A z \in S : weights[z] \in Nat \ {0}, NEW total \in Nat,
         NEW shares, shares = LargestRemainder(total, weights)
  PROVE  /\ \A z \in S : shares[z] \in Nat
         /\ Total(shares, S) = total
<1> DEFINE sum == Total(weights, S)
           floor == Floor(total, weights, sum)
           frac == Frac(total, weights, sum)
           left == total - Total(floor, S)
           B == Before(frac, S)
           F == {z \in S : Cardinality(B[z]) < left}
           more == [z \in S |-> IF z \in F THEN 1 ELSE 0]
<1>1. /\ sum \in Nat \ {0}
      /\ \A z \in S : floor[z] \in Nat /\ frac[z] \in Nat
      /\ Total(floor, S) \in Int /\ left \in 0..(Cardinality(S) - 1)
  <2> DEFINE su == sum
             fl == floor
             fr == frac
  <2>1. su = Total(weights, S) /\ fl = Floor(total, weights, su) /\ fr = Frac(total, weights, su)
    OBVIOUS
  <2> HIDE DEF su, fl, fr
  <2>2. /\ su \in Nat \ {0}
        /\ \A z \in S : fl[z] \in Nat /\ fr[z] \in Nat
        /\ Total(fl, S) \in Int /\ total - Total(fl, S) \in 0..(Cardinality(S) - 1)
    BY <2>1, LeftOver
  <2> QED
    BY <2>2 DEF su, fl, fr
<1>2. Cardinality(S) \in Nat
  BY FS_CardinalityType
<1>3. CASE total = 0
  <2>1. \A z \in S : shares[z] = 0
    BY <1>3, RemainderForm
  <2>2. Constant(shares, 0, S)
    BY <2>1 DEF Constant
  <2>3. Total(shares, S) = 0 * Cardinality(S)
    BY <2>2, TotalConstant
  <2> QED
    BY <1>2, <1>3, <2>1, <2>3
<1>4. CASE total # 0
  <2>1. \A z \in S : shares[z] = floor[z] + (IF Cardinality(B[z]) < left THEN 1 ELSE 0)
    <3>1. ~ (sum = 0 \/ total <= 0)
      BY <1>1, <1>4
    <3>2. shares = [z \in S |-> floor[z] +
                      (IF Cardinality({y \in S : frac[y] > frac[z] \/ (frac[y] = frac[z] /\ y < z)}) < left
                       THEN 1 ELSE 0)]
      BY <3>1, RemainderForm, Zenon
    <3>3. \A z \in S : B[z] = {y \in S : frac[y] > frac[z] \/ (frac[y] = frac[z] /\ y < z)}
      BY Zenon DEF Before
    <3> HIDE DEF B, left, floor, frac
    <3> QED
      BY <3>2, <3>3
  <2> HIDE DEF sum, floor, frac, left
  <2>2. StrictOrder(B, S)
    BY <1>1, BeforeIsOrder
  <2> HIDE DEF B
  <2>3. Cardinality(F) = left
    <3>1. left \in 0..Cardinality(S)
      BY <1>1, <1>2
    <3> QED
      BY <2>2, <3>1, FirstOfOrder
  <2>4. Total(more, S) = left
    <3>1. Marks(more, F, S)
      BY DEF Marks
    <3>2. F \in SUBSET S
      OBVIOUS
    <3> HIDE DEF more, F
    <3> QED
      BY <2>3, <3>1, <3>2, TotalCount
  <2>5. Combines(shares, 1, floor, more, S)
    BY <1>1, <2>1 DEF Combines
  <2>6. IntValued(floor, S) /\ IntValued(more, S)
    BY <1>1 DEF IntValued
  <2>7. ASSUME NEW z \in S PROVE shares[z] \in Nat
    <3>1. floor[z] \in Nat
      BY <1>1
    <3>2. shares[z] = floor[z] \/ shares[z] = floor[z] + 1
      BY <2>1, <3>1
    <3> QED
      BY <3>1, <3>2
  <2> HIDE DEF more, F
  <2>8. Total(shares, S) = 1 * Total(floor, S) + Total(more, S)
    BY <2>5, <2>6, TotalLinear
  <2>9. Total(shares, S) = Total(floor, S) + left
    BY <1>1, <2>4, <2>8
  <2> QED
    BY <1>1, <2>7, <2>9 DEF left
<1> QED
  BY <1>3, <1>4

-----------------------------------------------------------------------------
\* Counting ids by their zones.

\* The pairs of a key and one of its values.
Pairs(F, S) == UNION {{<<z, x>> : x \in F[z]} : z \in S}

\* A pair is told by its parts.
LEMMA InPairs ==
  ASSUME NEW F, NEW S
  PROVE  \A p : p \in Pairs(F, S) <=> \E z \in S : \E x \in F[z] : p = <<z, x>>
  BY DEF Pairs

\* The pairs of one key are as many as its values.
LEMMA PairsOfOne ==
  ASSUME NEW F, NEW z, IsFiniteSet(F[z])
  PROVE  IsFiniteSet(Pairs(F, {z})) /\ Cardinality(Pairs(F, {z})) = Cardinality(F[z])
<1> DEFINE f == [x \in F[z] |-> <<z, x>>]
<1>1. f \in Bijection(F[z], Pairs(F, {z}))
  <2>1. f \in [F[z] -> Pairs(F, {z})]
    BY InPairs
  <2>2. IsInjective(f)
    BY DEF IsInjective
  <2>3. \A p \in Pairs(F, {z}) : \E x \in F[z] : f[x] = p
    BY InPairs
  <2> HIDE DEF f
  <2> QED
    BY <2>1, <2>2, <2>3 DEF Bijection, Injection, Surjection
<1> HIDE DEF f
<1> QED
  BY <1>1, FS_Bijection DEF ExistsBijection

\* The values of every key are finitely many.
FiniteParts(F, S) == \A z \in S : IsFiniteSet(F[z])

\* Then there are finitely many pairs.
LEMMA PairsFinite ==
  ASSUME NEW S, IsFiniteSet(S), NEW F, FiniteParts(F, S)
  PROVE  IsFiniteSet(Pairs(F, S))
<1> DEFINE G == {T \in SUBSET S : IsFiniteSet(Pairs(F, T))}
<1>1. ASSUME NEW T \in SUBSET S, \A x \in T : T \ {x} \in G
      PROVE  T \in G
  <2>1. CASE T = {}
    <3>1. Pairs(F, {}) = {}
      BY DEF Pairs
    <3> QED
      BY <2>1, <3>1, FS_EmptySet
  <2>2. ASSUME NEW z \in T PROVE IsFiniteSet(Pairs(F, T))
    <3>1. Pairs(F, T) = Pairs(F, T \ {z}) \cup Pairs(F, {z})
      BY InPairs
    <3>2. IsFiniteSet(Pairs(F, T \ {z})) /\ IsFiniteSet(Pairs(F, {z}))
      BY <1>1, PairsOfOne DEF FiniteParts
    <3> QED
      BY <3>1, <3>2, FS_Union
  <2> QED
    BY <2>1, <2>2
<1> HIDE DEF G
<1>2. Peels(G, S)
  BY <1>1 DEF Peels
<1>3. S \in G
  BY <1>2, Peeling
<1> QED
  BY <1>3 DEF G

\* They are as many as the values of every key add up to.
LEMMA PairsTotal ==
  ASSUME NEW S, IsFiniteSet(S), NEW F, FiniteParts(F, S),
         NEW w, \A z \in S : w[z] = Cardinality(F[z])
  PROVE  Cardinality(Pairs(F, S)) = Total(w, S)
<1> DEFINE g == [T \in SUBSET S |-> Cardinality(Pairs(F, T))]
<1>0. ASSUME NEW T \in SUBSET S
      PROVE  IsFiniteSet(Pairs(F, T)) /\ Cardinality(Pairs(F, T)) \in Nat
  <2>1. IsFiniteSet(T) /\ FiniteParts(F, T)
    BY FS_Subset DEF FiniteParts
  <2> QED
    BY <2>1, PairsFinite, FS_CardinalityType
<1>1. g[{}] = 0
  <2>1. Pairs(F, {}) = {}
    BY DEF Pairs
  <2> QED
    BY <2>1, FS_EmptySet
<1>2. ASSUME NEW T \in SUBSET S, NEW z \in T
      PROVE  g[T] = w[z] + g[T \ {z}]
  <2> DEFINE R == Pairs(F, T \ {z})
             O == Pairs(F, {z})
  <2>1. Pairs(F, T) = R \cup O /\ R \cap O = {}
    BY InPairs
  <2>2. T \ {z} \in SUBSET S /\ z \in S
    OBVIOUS
  <2>3. IsFiniteSet(R) /\ Cardinality(R) \in Nat
    BY <1>0, <2>2
  <2>4. IsFiniteSet(O) /\ Cardinality(O) = w[z]
    BY <2>2, PairsOfOne DEF FiniteParts
  <2>5. Cardinality(O) \in Nat
    BY <2>4, FS_CardinalityType
  <2>6. g[T] = Cardinality(Pairs(F, T)) /\ g[T \ {z}] = Cardinality(R)
    BY <2>2
  <2> HIDE DEF R, O, g
  <2>7. Cardinality(R \cup O) = Cardinality(R) + Cardinality(O) - Cardinality({})
    BY <2>1, <2>3, <2>4, FS_Union
  <2> QED
    BY <2>1, <2>3, <2>4, <2>5, <2>6, <2>7, FS_EmptySet
<1>3. g[S] = Cardinality(Pairs(F, S))
  OBVIOUS
<1>4. IntValued(w, S)
  BY FS_CardinalityType DEF IntValued, FiniteParts
<1> HIDE DEF g
<1>5. TakesIn(g, w, S)
  BY <1>1, <1>2 DEF TakesIn
<1> QED
  BY <1>3, <1>4, <1>5, TotalIs

\* The ids that are less than c above the lowest one.
FirstOf(ids, c) == {d \in ids : d - Min(ids) < c}

\* In an interval they are c, or all.
LEMMA FirstOfInterval ==
  ASSUME NEW a \in Int, NEW b \in Int, NEW c \in Nat
  PROVE  /\ IsFiniteSet(FirstOf(a..b, c))
         /\ Cardinality(FirstOf(a..b, c)) <= c
         /\ Cardinality(FirstOf(a..b, c)) < c => FirstOf(a..b, c) = a..b
<1>1. CASE a > b
  <2>1. FirstOf(a..b, c) = {} /\ a..b = {}
    BY <1>1 DEF FirstOf
  <2> QED
    BY <2>1, FS_EmptySet
<1>2. CASE a <= b
  <2>1. Min(a..b) = a
    <3>1. a \in a..b /\ \A y \in a..b : a <= y
      BY <1>2
    <3>2. ASSUME NEW x \in a..b, \A y \in a..b : x <= y PROVE x = a
      BY <1>2, <3>2
    <3> QED
      BY <3>1, <3>2 DEF Min
  <2>2. CASE a + c - 1 <= b
    <3>1. FirstOf(a..b, c) = a..(a + c - 1)
      BY <2>1, <2>2 DEF FirstOf
    <3>2. IsFiniteSet(a..(a + c - 1)) /\ Cardinality(a..(a + c - 1)) = c
      BY FS_Interval
    <3> QED
      BY <3>1, <3>2
  <2>3. CASE b < a + c - 1
    <3>1. FirstOf(a..b, c) = a..b
      BY <2>1, <2>3 DEF FirstOf
    <3>2. IsFiniteSet(a..b) /\ Cardinality(a..b) = b - a + 1
      BY <1>2, FS_Interval
    <3> QED
      BY <2>3, <3>1, <3>2
  <2> QED
    BY <2>2, <2>3
<1> QED
  BY <1>1, <1>2

-----------------------------------------------------------------------------
\* The placement of the pods.

\* Shares of which each zone gives the first ids it has: all of them are given,
\* or some zone has given all it has.
LEMMA GivenOrSpent ==
  ASSUME NEW S \in SUBSET Int, IsFiniteSet(S), NEW shares, \A z \in S : shares[z] \in Nat,
         NEW ids, \A z \in S : \E a, b \in Int : ids[z] = a..b,
         NEW F, \A z \in S : F[z] = FirstOf(ids[z], shares[z])
  PROVE  /\ FiniteParts(F, S)
         /\ \/ Cardinality(Pairs(F, S)) = Total(shares, S)
            \/ Cardinality(Pairs(F, S)) < Total(shares, S) /\ \E z \in S : F[z] = ids[z]
<1> DEFINE size == [z \in S |-> Cardinality(F[z])]
           short == [z \in S |-> shares[z] - Cardinality(F[z])]
<1>1. ASSUME NEW z \in S
      PROVE  /\ IsFiniteSet(F[z]) /\ Cardinality(F[z]) \in Nat
             /\ Cardinality(F[z]) <= shares[z]
             /\ Cardinality(F[z]) < shares[z] => F[z] = ids[z]
  <2>1. PICK a, b \in Int : ids[z] = a..b
    OBVIOUS
  <2>2. F[z] = FirstOf(a..b, shares[z])
    BY <2>1
  <2>3. IsFiniteSet(F[z]) /\ Cardinality(F[z]) <= shares[z]
        /\ (Cardinality(F[z]) < shares[z] => F[z] = a..b)
    BY <2>2, FirstOfInterval
  <2> QED
    BY <2>1, <2>3, FS_CardinalityType
<1>2. FiniteParts(F, S)
  BY <1>1 DEF FiniteParts
<1>3. ASSUME NEW z \in S PROVE size[z] \in Nat /\ short[z] \in Nat
  BY <1>1
<1>4. Combines(shares, 1, size, short, S)
  BY <1>1 DEF Combines
<1>5. Cardinality(Pairs(F, S)) = Total(size, S)
  <2>1. \A z \in S : size[z] = Cardinality(F[z])
    OBVIOUS
  <2> HIDE DEF size
  <2> QED
    BY <1>2, <2>1, PairsTotal
<1>6. \A z \in S : short[z] # 0 => F[z] = ids[z]
  BY <1>1
<1> HIDE DEF size, short
<1>7. IntValued(size, S) /\ IntValued(short, S)
  BY <1>3 DEF IntValued
<1>8. Total(shares, S) = 1 * Total(size, S) + Total(short, S)
  BY <1>4, <1>7, TotalLinear
<1>9. Total(size, S) \in Nat /\ Total(short, S) \in Nat
  BY <1>3, TotalNat
<1>10. CASE Constant(short, 0, S)
  <2>1. Total(short, S) = 0 * Cardinality(S)
    BY <1>10, TotalConstant
  <2>2. Cardinality(S) \in Nat
    BY FS_CardinalityType
  <2> QED
    BY <1>2, <1>5, <1>8, <1>9, <2>1, <2>2
<1>11. CASE ~ Constant(short, 0, S)
  <2>1. PICK z \in S : short[z] # 0
    BY <1>11 DEF Constant
  <2>2. Total(short, S) = short[z] + Total(short, S \ {z})
    BY <1>7, TotalRemove
  <2>3. Total(short, S \ {z}) \in Nat
    <3>1. IsFiniteSet(S \ {z}) /\ \A y \in S \ {z} : short[y] \in Nat
      BY <1>3, FS_RemoveElement
    <3> QED
      BY <3>1, TotalNat
  <2>4. Total(size, S) < Total(shares, S)
    BY <1>3, <1>8, <1>9, <2>1, <2>2, <2>3
  <2> QED
    BY <1>2, <1>5, <1>6, <2>1, <2>4
<1> QED
  BY <1>10, <1>11

\* The ids of an interval are all that is found in its cpulist.
LEMMA CpulistOfInterval ==
  ASSUME NEW a \in Int, NEW b \in Int
  PROVE  IdsIn(Cpulist(a..b)) = a..b
<1>1. ASSUME NEW c \in IdsIn(Cpulist(a..b)) PROVE c \in a..b
  <2>1. PICK r \in Cpulist(a..b) : c \in r[1]..r[2]
    BY DEF IdsIn
  <2> QED
    BY <2>1 DEF Cpulist
<1> QED
  BY <1>1, IdsOfInterval

\* The entry of a pod that holds a GPU has as many ids as cores it asks for, or
\* all ids of the zone of one of its GPUs.
LEMMA EntryAddsUp ==
  ASSUME NEW layout, LayoutShape(layout), NEW n \in Nat, NEW t, DOMAIN t = 1..n,
         NEW p, NEW milli \in Nat, NEW i \in 1..n, t[i].by = p, i <= Sum(layout.gpus),
         NEW e, e = PodEntry(t, layout, p, milli)
  PROVE  \/ Cardinality(e.cpus) = Cores(milli)
         \/ /\ Cardinality(e.cpus) < Cores(milli)
            /\ \E g \in e.gpus :
                 {c[2] : c \in {d \in e.cpus : d[1] = g[1]}} = layout.ids[g[1]]
                 /\ g[1] \in 1..layout.zones
<1> DEFINE mine == {j \in DOMAIN t : t[j].by = p /\ j <= Sum(layout.gpus)}
           held == {<<GPUIndexToZone(layout, j), j>> : j \in mine}
           zones == {h[1] : h \in held}
           weights == [z \in zones |-> Cardinality({h \in held : h[1] = z})]
           shares == LargestRemainder(Cores(milli), weights)
           F == [z \in zones |-> FirstOf(layout.ids[z], shares[z])]
           Z == 1..layout.zones
<1>1. e.gpus = held /\ e.cpus = Pairs(F, zones)
  <2>1. e.gpus = held
    BY DEF PodEntry
  <2>2. e.cpus = UNION {{<<z, c>> : c \in {d \in layout.ids[z] : d - Min(layout.ids[z]) < shares[z]}} : z \in zones}
    BY DEF PodEntry
  <2> HIDE DEF shares, zones, held
  <2>3. \A z \in zones : F[z] = {d \in layout.ids[z] : d - Min(layout.ids[z]) < shares[z]}
    BY DEF FirstOf
  <2> HIDE DEF F
  <2> QED
    BY <2>1, <2>2, <2>3 DEF Pairs
<1>2. \A j \in mine : GPUIndexToZone(layout, j) \in Z
  BY ZoneOfGpu
<1>3. held \in SUBSET (Z \X (1..n)) /\ zones \in SUBSET Z
  BY <1>2
<1>4. IsFiniteSet(Z) /\ IsFiniteSet(1..n) /\ Z \in SUBSET Int
  <2>1. layout.zones \in Int /\ 1 \in Int /\ n \in Int
    BY DEF LayoutShape
  <2> HIDE DEF mine, held
  <2> QED
    BY <2>1, FS_Interval
<1>5. <<GPUIndexToZone(layout, i), i>> \in held
  OBVIOUS
<1>6. zones # {} /\ \A z \in zones : \E h \in held : h[1] = z
  BY <1>5
<1> HIDE DEF held
<1>7. IsFiniteSet(held)
  <2>1. IsFiniteSet(Z \X (1..n))
    BY <1>4, FS_Product
  <2> QED
    BY <1>3, <2>1, FS_Subset
<1>8. ASSUME NEW z \in zones PROVE Cardinality({h \in held : h[1] = z}) \in Nat \ {0}
  <2> DEFINE H == {h \in held : h[1] = z}
  <2>1. H \in SUBSET held /\ H # {}
    BY <1>6
  <2> HIDE DEF H
  <2>2. IsFiniteSet(H)
    BY <1>7, <2>1, FS_Subset
  <2>3. Cardinality(H) \in Nat /\ Cardinality(H) # 0
    BY <2>1, <2>2, FS_CardinalityType, FS_EmptySet
  <2> QED
    BY <2>3 DEF H
<1>9. \A z \in zones : weights[z] \in Nat \ {0}
  BY <1>8
<1>10. DOMAIN weights = zones
  OBVIOUS
<1>11. \A z \in zones : F[z] = FirstOf(layout.ids[z], shares[z])
  OBVIOUS
<1>12. IsFiniteSet(zones)
  BY <1>3, <1>4, FS_Subset
<1>13. Cores(milli) \in Nat
  BY DEF Cores
<1>14. \A z \in zones : \E a, b \in Int : layout.ids[z] = a..b
  BY <1>3 DEF LayoutShape
<1>15. \A z \in zones : \E g \in held : g[1] = z
  BY <1>6
<1>16. zones \in SUBSET Int
  BY <1>3, <1>4
<1> DEFINE asked == Cores(milli)
<1> HIDE DEF zones, weights, asked
<1>17. (\A z \in zones : shares[z] \in Nat) /\ Total(shares, zones) = asked
  <2> DEFINE s == shares
  <2>1. s = LargestRemainder(asked, weights) /\ asked \in Nat
    BY <1>13 DEF asked
  <2> HIDE DEF s
  <2>2. (\A z \in zones : s[z] \in Nat) /\ Total(s, zones) = asked
    BY <1>6, <1>9, <1>10, <1>12, <1>16, <2>1, LargestRemainderAddsUp
  <2> QED
    BY <2>2 DEF s, asked
<1> HIDE DEF shares, F
<1>18. \/ Cardinality(Pairs(F, zones)) = asked
       \/ Cardinality(Pairs(F, zones)) < asked /\ \E z \in zones : F[z] = layout.ids[z]
  <2> DEFINE ids == layout.ids
  <2>1. (\A z \in zones : \E a, b \in Int : ids[z] = a..b)
        /\ \A z \in zones : F[z] = FirstOf(ids[z], shares[z])
    BY <1>11, <1>14
  <2> HIDE DEF ids
  <2>2. \/ Cardinality(Pairs(F, zones)) = Total(shares, zones)
        \/ Cardinality(Pairs(F, zones)) < Total(shares, zones) /\ \E z \in zones : F[z] = ids[z]
    BY <1>12, <1>16, <1>17, <2>1, GivenOrSpent
  <2> QED
    BY <1>17, <2>2 DEF ids
<1>19. ASSUME NEW z \in zones
       PROVE  {c[2] : c \in {d \in Pairs(F, zones) : d[1] = z}} = F[z]
  <2>1. ASSUME NEW c \in Pairs(F, zones), c[1] = z PROVE c[2] \in F[z]
    BY <2>1, InPairs
  <2> DEFINE D == {d \in Pairs(F, zones) : d[1] = z}
             L == {c[2] : c \in D}
  <2>2. L \in SUBSET F[z]
    BY <2>1
  <2>3. ASSUME NEW x \in F[z] PROVE x \in L
    <3>1. <<z, x>> \in D /\ <<z, x>>[2] = x
      BY InPairs
    <3> HIDE DEF D
    <3> QED
      BY <3>1
  <2> QED
    BY <2>2, <2>3, Zenon
<1> QED
  <2>1. CASE Cardinality(Pairs(F, zones)) = asked
    BY <1>1, <2>1 DEF asked
  <2>2. CASE Cardinality(Pairs(F, zones)) < asked /\ \E z \in zones : F[z] = layout.ids[z]
    <3>1. PICK z \in zones : F[z] = layout.ids[z]
      BY <2>2
    <3>2. PICK g \in held : g[1] = z
      BY <1>15
    <3>3. {c[2] : c \in {d \in e.cpus : d[1] = g[1]}} = layout.ids[g[1]] /\ g[1] \in Z
      BY <1>1, <1>3, <1>19, <3>1, <3>2
    <3> QED
      BY <1>1, <2>2, <3>2, <3>3 DEF asked
  <2> QED
    BY <1>18, <2>1, <2>2

\* A layout has a place for every GPU of the topology it was made for.
LEMMA LayoutHoldsAll ==
  ASSUME NEW n \in NumaChoices, NEW t \in Topologies, Resolves(n, t)
  PROVE  Sum(Layout(n, t).gpus) = Len(t)
<1> DEFINE gpus == DistributeGPUs(Len(t), n.zones, n.gpus)
<1>1. n.zones \in Nat \ {0} /\ gpus # BadLayout /\ Layout(n, t).gpus = gpus
  BY LayoutAssumption DEF Resolves, Layout, ResolveZoneLayout, NumaChoices
<1>2. Len(t) \in Nat
  BY TopologiesAssumption
<1>3. CASE n.gpus = DefaultSplit
  <2>1. gpus = EvenSplit(Len(t), n.zones)
    BY <1>3 DEF DistributeGPUs
  <2> HIDE DEF gpus
  <2> QED
    BY <1>1, <1>2, <2>1, EvenSplitSum
<1>4. CASE n.gpus # DefaultSplit
  BY <1>1, <1>4 DEF DistributeGPUs
<1> QED
  BY <1>3, <1>4

\* The entry of a pod names it and the GPUs it holds, each with its zone.
LEMMA EntryOf ==
  ASSUME NEW t, NEW layout, NEW p, NEW milli
  PROVE  LET e == PodEntry(t, layout, p, milli)
         IN  /\ e.pod = p
             /\ e.gpus = {<<GPUIndexToZone(layout, i), i>> :
                            i \in {j \in DOMAIN t : t[j].by = p /\ j <= Sum(layout.gpus)}}
  BY DEF PodEntry

\* The answer, when there is one: an entry for each pod that holds a GPU, with
\* all the GPUs it holds.
LEMMA AnswerOf ==
  ASSUME Answer, snapshot # NoTopology,
         NEW t, t = snapshot.topo, NEW layout, layout = Layout(snapshot.numa, snapshot.topo)
  PROVE  /\ LayoutShape(layout) /\ t \in Topologies
         /\ Len(t) \in Nat /\ DOMAIN t = 1..Len(t) /\ Sum(layout.gpus) = Len(t)
         /\ \A e \in List : \E p : /\ e = PodEntry(t, layout, p, Requests[p])
                                   /\ e.pod = p /\ p # NoPod /\ \E i \in DOMAIN t : t[i].by = p
                                   /\ e.gpus = {<<GPUIndexToZone(layout, i), i>> :
                                                  i \in {j \in DOMAIN t : t[j].by = p}}
         /\ \A i \in DOMAIN t : t[i].by # NoPod =>
              \E e \in List : <<GPUIndexToZone(layout, i), i>> \in e.gpus
<1>1. snapshot.numa \in NumaChoices /\ t \in Topologies /\ Resolves(snapshot.numa, t)
  BY DEF Answer
<1>2. LayoutShape(layout)
  BY <1>1, ResolvedLayout DEF Resolves
<1>3. Len(t) \in Nat /\ DOMAIN t = 1..Len(t) /\ Sum(layout.gpus) = Len(t)
  BY <1>1, TopologiesAssumption, LayoutHoldsAll
<1>4. List = {PodEntry(t, layout, p, Requests[p]) : p \in {t[i].by : i \in DOMAIN t} \ {NoPod}}
  BY DEF List, BuildPodResources
<1>5. ASSUME NEW p
      PROVE  /\ PodEntry(t, layout, p, Requests[p]).pod = p
             /\ PodEntry(t, layout, p, Requests[p]).gpus =
                  {<<GPUIndexToZone(layout, i), i>> : i \in {j \in DOMAIN t : t[j].by = p}}
  <2>1. {j \in DOMAIN t : t[j].by = p /\ j <= Sum(layout.gpus)} = {j \in DOMAIN t : t[j].by = p}
    BY <1>3
  <2> QED
    BY <2>1, EntryOf
<1>6. ASSUME NEW e \in List
      PROVE  \E p : /\ e = PodEntry(t, layout, p, Requests[p])
                    /\ e.pod = p /\ p # NoPod /\ \E i \in DOMAIN t : t[i].by = p
                    /\ e.gpus = {<<GPUIndexToZone(layout, i), i>> :
                                   i \in {j \in DOMAIN t : t[j].by = p}}
  <2>1. PICK p \in {t[i].by : i \in DOMAIN t} \ {NoPod} : e = PodEntry(t, layout, p, Requests[p])
    BY <1>4
  <2> QED
    BY <1>5, <2>1
<1>7. ASSUME NEW i \in DOMAIN t, t[i].by # NoPod
      PROVE  \E e \in List : <<GPUIndexToZone(layout, i), i>> \in e.gpus
  <2> DEFINE e == PodEntry(t, layout, t[i].by, Requests[t[i].by])
  <2>1. e \in List
    BY <1>4, <1>7
  <2>2. <<GPUIndexToZone(layout, i), i>> \in e.gpus
    BY <1>5
  <2> QED
    BY <2>1, <2>2
<1> QED
  BY <1>1, <1>2, <1>3, <1>6, <1>7

\* The answer of the pod-resources server charges every held GPU to the pod that
\* holds it and to one zone, and every pod with the cores it asks for, unless
\* the ids of one of its zones are spent - for any topology and any numa block
\* (podresources/build.go:29-130, numazones/layout.go).
THEOREM PlacementAlwaysAddsUp == Spec => []PlacementAddsUp
<1>1. ServerInv => PlacementAddsUp
  <2> SUFFICES ASSUME ServerInv PROVE PlacementAddsUp
    OBVIOUS
  <2>1. CASE snapshot = NoTopology
    <3>1. List = {}
      BY <2>1 DEF List
    <3> QED
      BY <2>1, <3>1 DEF PlacementAddsUp
  <2>2. CASE snapshot # NoTopology
    <3> DEFINE t == snapshot.topo
               layout == Layout(snapshot.numa, snapshot.topo)
               zoneOf(i) == GPUIndexToZone(layout, i)
    <3>1. Answer
      BY DEF ServerInv, Rendering
    <3>2. /\ LayoutShape(layout) /\ t \in Topologies
          /\ Len(t) \in Nat /\ DOMAIN t = 1..Len(t) /\ Sum(layout.gpus) = Len(t)
      BY <2>2, <3>1, AnswerOf
    <3>3. ASSUME NEW e \in List
          PROVE  \E p : /\ e = PodEntry(t, layout, p, Requests[p])
                        /\ e.pod = p /\ p # NoPod /\ \E i \in DOMAIN t : t[i].by = p
                        /\ e.gpus = {<<zoneOf(i), i>> : i \in {j \in DOMAIN t : t[j].by = p}}
      BY <2>2, <3>1, AnswerOf
    <3>4. \A i \in DOMAIN t : t[i].by # NoPod => \E e \in List : <<zoneOf(i), i>> \in e.gpus
      BY <2>2, <3>1, AnswerOf
    <3> HIDE DEF zoneOf, layout, t
    <3>5. UNION {{g[2] : g \in e.gpus} : e \in List} = {i \in DOMAIN t : t[i].by # NoPod}
      <4>1. ASSUME NEW e \in List, NEW g \in e.gpus
            PROVE  g[2] \in DOMAIN t /\ t[g[2]].by # NoPod
        BY <3>3
      <4>2. ASSUME NEW i \in DOMAIN t, t[i].by # NoPod
            PROVE  \E e \in List : \E g \in e.gpus : g[2] = i
        <5>1. PICK e \in List : <<zoneOf(i), i>> \in e.gpus
          BY <3>4, <4>2
        <5>2. <<zoneOf(i), i>>[2] = i
          OBVIOUS
        <5> QED
          BY <5>1, <5>2
      <4> QED
        BY <4>1, <4>2
    <3>6. ASSUME NEW e \in List, NEW f \in List, NEW g \in e.gpus, NEW h \in f.gpus, g[2] = h[2]
          PROVE  e = f /\ g = h
      <4>1. PICK p : /\ e = PodEntry(t, layout, p, Requests[p])
                     /\ e.gpus = {<<zoneOf(i), i>> : i \in {j \in DOMAIN t : t[j].by = p}}
        BY <3>3
      <4>2. PICK q : /\ f = PodEntry(t, layout, q, Requests[q])
                     /\ f.gpus = {<<zoneOf(i), i>> : i \in {j \in DOMAIN t : t[j].by = q}}
        BY <3>3
      <4>3. PICK i \in DOMAIN t : t[i].by = p /\ g = <<zoneOf(i), i>>
        BY <4>1
      <4>4. PICK j \in DOMAIN t : t[j].by = q /\ h = <<zoneOf(j), j>>
        BY <4>2
      <4>5. i = j
        BY <3>6, <4>3, <4>4
      <4> QED
        BY <4>1, <4>2, <4>3, <4>4, <4>5
    <3>7. ASSUME At("podres", "select"), ~ torn, NEW e \in List
          PROVE  \/ Cardinality(e.cpus) = Cores(Requests[e.pod])
                 \/ /\ Cardinality(e.cpus) < Cores(Requests[e.pod])
                    /\ \E g \in e.gpus :
                         {c[2] : c \in {d \in e.cpus : d[1] = g[1]}} = IdsIn(sysfs[g[1]])
      <4>1. PICK p : /\ e = PodEntry(t, layout, p, Requests[p])
                     /\ e.pod = p /\ p # NoPod /\ \E i \in DOMAIN t : t[i].by = p
        BY <3>3
      <4>2. PICK i \in DOMAIN t : t[i].by = p
        BY <4>1
      <4>3. Requests[p] \in Nat
        BY <3>2, <4>1, <4>2, RequestsAssumption
      <4>4. \A z \in 1..layout.zones : IdsIn(sysfs[z]) = layout.ids[z]
        <5>1. \A z \in 1..layout.zones : sysfs[z] = Cpulist(layout.ids[z])
          BY <2>2, <3>7 DEF ServerInv, Rendering, TreeOf, At, layout
        <5> SUFFICES ASSUME NEW z \in 1..layout.zones PROVE IdsIn(sysfs[z]) = layout.ids[z]
          OBVIOUS
        <5>2. PICK a, b \in Int : layout.ids[z] = a..b
          BY <3>2 DEF LayoutShape
        <5> QED
          BY <5>1, <5>2, CpulistOfInterval
      <4>5. i \in 1..Len(t) /\ i <= Sum(layout.gpus)
        BY <3>2
      <4>6. \/ Cardinality(e.cpus) = Cores(Requests[p])
            \/ /\ Cardinality(e.cpus) < Cores(Requests[p])
               /\ \E g \in e.gpus :
                    {c[2] : c \in {d \in e.cpus : d[1] = g[1]}} = layout.ids[g[1]]
                    /\ g[1] \in 1..layout.zones
        <5> DEFINE milli == Requests[p]
                   n == Len(t)
        <5>1. /\ LayoutShape(layout) /\ n \in Nat /\ DOMAIN t = 1..n /\ milli \in Nat
              /\ i \in 1..n /\ t[i].by = p /\ i <= Sum(layout.gpus) /\ e = PodEntry(t, layout, p, milli)
          BY <3>2, <4>1, <4>2, <4>3, <4>5
        <5> HIDE DEF milli, n
        <5>2. \/ Cardinality(e.cpus) = Cores(milli)
              \/ /\ Cardinality(e.cpus) < Cores(milli)
                 /\ \E g \in e.gpus :
                      {c[2] : c \in {d \in e.cpus : d[1] = g[1]}} = layout.ids[g[1]]
                      /\ g[1] \in 1..layout.zones
          BY <5>1, EntryAddsUp
        <5> QED
          BY <5>2 DEF milli
      <4> QED
        BY <4>1, <4>4, <4>6
    <3> QED
      BY <3>5, <3>6, <3>7 DEF PlacementAddsUp, t
  <2> QED
    BY <2>1, <2>2
<1> QED
  BY ServerInvariance, <1>1, PTL
=============================================================================
