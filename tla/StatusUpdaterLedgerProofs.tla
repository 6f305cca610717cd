----------------------- MODULE StatusUpdaterLedgerProofs -----------------------
(***************************************************************************)
(* What the readers of the topology ConfigMap can rely on while nothing    *)
(* disturbs the status updater: the ConfigMap is an allocation ledger, and *)
(* every settled pod has all its GPUs.                                     *)
(***************************************************************************)
EXTENDS StatusUpdaterQueueProofs

USE DEF api, configMap, podController, pruner, nodeController, bounds
-----------------------------------------------------------------------------
(* The cluster, the holdings and the events between them                   *)

\* The claims of p and q cannot be allocated together.
Overlap(p, q) == p # q /\ IsDraPod(p) /\ IsDraPod(q) /\ Claim[p] \cap Claim[q] # {}

\* The objects of a cluster whose node is served by one plugin: an allocation
\* is exclusive, and a DRA pod starts with its claims allocated.
Cluster(ps, cl) ==
    /\ \A p, q \in Pods : ps[p].uid > 0 /\ ps[q].uid > 0 => (IsDraPod(p) <=> IsDraPod(q))
    /\ \A p, q \in cl : ~Overlap(p, q)
    /\ \A p \in Pods : IsDraPod(p) /\ FilterFunc(ps[p]) /\ (p \notin LateClaims \/ ps[p].phase = "Running")
                           => p \in cl

\* At no point of the queue do the live pods ask for more than the node has.
Capacity(ps, q) == \A k \in 0..Len(q) : Demand(LivePods(ps, q, k)) <= GpuCount

\* A dedicated pod holds what it requested, unless the annotation of a
\* reservation pod found its pod removed and the allocation was dropped.
Full(ps, topo, p) ==
    \/ Cardinality(Held(topo, p)) = Request[p]
    \/ IsGpuReservationPod(p) /\ ps[p].phase = "Absent" /\ Held(topo, p) = {}

\* GPUs are held by pods that are alive as far as the events handled so far go,
\* and such a pod holds all it is entitled to.
Holdings(ps, q, topo) ==
    \A p \in Pods :
        /\ Held(topo, p) # {} => p \in LivePods(ps, q, 0)
        /\ IsDedicatedGpuPod(p) /\ p \in LivePods(ps, q, 0) => Full(ps, topo, p)
        /\ IsDraPod(p) => Held(topo, p) \in {{}, Claim[p]}
        /\ IsDraPod(p) /\ ps[p].phase = "Running" /\ Later(q, p, 0) = {} => Held(topo, p) = Claim[p]

\* One of the next n events reports the removal of p.
Leaves(q, p, n) == \E j \in 1..n : q[j].pod = p /\ q[j].type = "Delete"

\* The event e will find the claims of its pod allocated.
Asks(ps, cl, e) ==
    /\ e.type # "Delete" /\ e.uid = ps[e.pod].uid /\ e.pod \in cl
    /\ e.pod \notin LateClaims \/ e.phase = "Running"

\* A DRA pod whose claims are deallocated is about to be released, and is before
\* any event that needs its devices for another pod.
Handover(ps, q, topo, cl) ==
    /\ \A p \in Pods : IsDraPod(p) /\ Held(topo, p) # {} => p \in cl \/ Leaves(q, p, Len(q))
    /\ \A i \in 1..Len(q), p \in Pods :
          Asks(ps, cl, q[i]) /\ Overlap(q[i].pod, p) /\ Held(topo, p) # {} => Leaves(q, p, i - 1)
-----------------------------------------------------------------------------
(* Changes at the API server                                               *)

\* A pod that is alive as far as the informer told was bound.
LEMMA LiveBound ==
    ASSUME NEW ps, PodsType(ps), NEW q \in Seq(PodEvent), Accurate(ps, q),
           NEW k \in 0..Len(q), NEW p \in LivePods(ps, q, k)
    PROVE  p \in Pods /\ ps[p].uid \in 1..MaxUid
<1>1. p \in Pods /\ ps[p].uid \in 0..MaxUid
    BY DEF LivePods, PodsType, PodObject
<1>2. CASE ps[p].phase \in LivePhase
    BY <1>1, <1>2 DEF PodsType, LivePhase
<1>3. ASSUME NEW i \in Later(q, p, k) PROVE ps[p].uid \in 1..MaxUid
    <2>1. i \in 1..Len(q) /\ q[i].pod = p /\ q[i] \in PodEvent
        BY DEF Later
    <2>2. q[i].uid <= ps[p].uid /\ q[i].uid \in 1..MaxUid
        BY <2>1 DEF Accurate, PodEvent
    <2>3. QED
        BY <1>1, <2>2, NodeTopologyAssumption
<1>4. QED
    BY <1>1, <1>2, <1>3 DEF LivePods

\* The removal of a pod that is gone but still counts as alive is in the queue.
LEMMA LiveThenDead ==
    ASSUME NEW ps, NEW q \in Seq(PodEvent), Accurate(ps, q),
           NEW p \in LivePods(ps, q, 0), ~FilterFunc(ps[p])
    PROVE  Leaves(q, p, Len(q))
<1>1. Later(q, p, 0) \in SUBSET Nat /\ Later(q, p, 0) # {}
    BY DEF LivePods, FilterFunc, Later
<1>2. Len(q) \in Nat /\ \A h \in Later(q, p, 0) : h <= Len(q)
    BY DEF Later
<1>3. PICK m \in Later(q, p, 0) : \A h \in Later(q, p, 0) : h <= m
    BY <1>1, <1>2, NatMaximum
<1>4. m \in 1..Len(q) /\ q[m].pod = p
    BY <1>3 DEF Later
<1>5. Later(q, p, m) = {}
    <2>1. ASSUME NEW i \in Later(q, p, m) PROVE FALSE
        <3>1. i \in Later(q, p, 0) /\ m < i /\ i \in Int
            BY <1>4 DEF Later
        <3>2. QED
            BY <1>3, <1>4, <3>1
    <2>2. QED
        BY <2>1
<1>6. q[m].type = "Delete"
    <2>1. q[m].type # "Delete" <=> p \in LivePods(ps, q, m)
        BY <1>4 DEF Accurate
    <2>2. QED
        BY <1>5, <2>1 DEF LivePods, FilterFunc
<1>7. QED
    BY <1>4, <1>6 DEF Leaves

\* A change of pod p is reported by no event of another pod.
LEMMA WatchedOthers ==
    ASSUME NEW ps, NEW new, NEW q \in Seq(PodEvent), NEW r, NEW p \in Pods, Watched(ps, q, new, r, p),
           NEW o \in Pods, o # p
    PROVE  Later(r, o, 0) = Later(q, o, 0)
<1>1. CASE r = q
    BY <1>1
<1>2. ASSUME NEW x, Extends(r, q, x), Reports(x, p, ps[p], new[p])
      PROVE  Later(r, o, 0) = Later(q, o, 0)
    <2>1. x \in PodEvent /\ x.pod = p
        BY <1>2 DEF Reports
    <2>2. 0 \in 0..Len(q)
        BY <1>2 DEF Extends
    <2>3. QED
        BY <1>2, <2>1, <2>2, LaterAppend
<1>3. QED
    BY <1>1, <1>2 DEF Watched

\* A change of pod p leaves what was to be reported, and is reported if p lives.
LEMMA WatchedLater ==
    ASSUME NEW ps, NEW new, NEW q \in Seq(PodEvent), NEW r, NEW p \in Pods, Watched(ps, q, new, r, p)
    PROVE  /\ Later(r, p, 0) = {} => ~FilterFunc(new[p])
           /\ \A o, n : Leaves(q, o, n) /\ n \in 0..Len(q) => Leaves(r, o, n)
           /\ Len(q) <= Len(r)
<1>1. CASE r = q /\ ~FilterFunc(ps[p]) /\ ~FilterFunc(new[p])
    BY <1>1
<1>2. CASE \E x : Extends(r, q, x) /\ Reports(x, p, ps[p], new[p])
    <2>1. PICK x : Extends(r, q, x) /\ Reports(x, p, ps[p], new[p])
        BY <1>2
    <2>2. x \in PodEvent /\ x.pod = p
        BY <2>1 DEF Reports
    <2>3. /\ Len(q) \in Nat /\ 0 \in 0..Len(q) /\ Len(r) = Len(q) + 1
          /\ \A i \in 1..Len(q) : r[i] = q[i]
        BY <2>1 DEF Extends
    <2>4. Later(r, p, 0) = Later(q, p, 0) \cup {Len(q) + 1}
        BY <2>1, <2>2, <2>3, LaterAppend
    <2>5. ASSUME NEW o, NEW n \in 0..Len(q), Leaves(q, o, n) PROVE Leaves(r, o, n)
        <3>1. n \in Nat /\ \A j \in 1..n : r[j] = q[j]
            BY <2>3
        <3>2. QED
            BY <2>5, <3>1 DEF Leaves
    <2>6. Later(r, p, 0) # {} /\ Len(q) <= Len(r)
        BY <2>3, <2>4
    <2>7. QED
        BY <2>4, <2>5, <2>6
<1>3. QED
    BY <1>1, <1>2 DEF Watched

\* A change that the node has room for leaves room for every pod of the queue.
LEMMA ChangeKeepsCapacity ==
    ASSUME NEW ps, NEW new, NEW q \in Seq(PodEvent), NEW r, NEW p \in Pods,
           Watched(ps, q, new, r, p), Capacity(ps, q), Demand(LiveNow(new)) <= GpuCount
    PROVE  Capacity(new, r)
<1>1. \A k \in 0..Len(q) : Demand(LivePods(new, r, k)) <= GpuCount
    BY DEF Watched, Capacity
<1>2. ASSUME NEW x, Extends(r, q, x), LivePods(new, r, Len(r)) = LiveNow(new)
      PROVE  Capacity(new, r)
    <2>1. Len(q) \in Nat /\ Len(r) = Len(q) + 1
        BY <1>2 DEF Extends
    <2>2. \A k \in 0..Len(r) : k \in 0..Len(q) \/ k = Len(r)
        BY <2>1
    <2>3. QED
        BY <1>1, <1>2, <2>2 DEF Capacity
<1>3. QED
    BY <1>1, <1>2 DEF Watched, Capacity

\* A change of a pod leaves every pod with the GPUs due to it: a reservation pod
\* is never bound twice, and a pod that starts does so after an event.
LEMMA ChangeKeepsHoldings ==
    ASSUME NEW ps, PodsType(ps), NEW new, NEW q \in Seq(PodEvent), NEW r, NEW p \in Pods, NEW topo,
           Accurate(ps, q), Watched(ps, q, new, r, p), SameBut(ps, new, p), Holdings(ps, q, topo),
           IsGpuReservationPod(p) /\ ps[p].uid > 0 /\ ps[p].phase = "Absent" => new[p].phase = "Absent"
    PROVE  Holdings(new, r, topo)
<1>1. /\ \A o \in Pods : o # p => Later(r, o, 0) = Later(q, o, 0) /\ new[o] = ps[o]
      /\ Later(r, p, 0) = {} => ~FilterFunc(new[p])
    <2>1. \A o \in Pods : o # p => Later(r, o, 0) = Later(q, o, 0)
        BY WatchedOthers
    <2>2. Later(r, p, 0) = {} => ~FilterFunc(new[p])
        BY WatchedLater
    <2>3. QED
        BY <2>1, <2>2 DEF SameBut
<1>2. LivePods(new, r, 0) = LivePods(ps, q, 0)
    BY DEF Watched
<1>3. ASSUME NEW o \in Pods, IsDedicatedGpuPod(o), o \in LivePods(ps, q, 0)
      PROVE  Full(new, topo, o)
    <2>1. Full(ps, topo, o)
        BY <1>3 DEF Holdings
    <2>2. ps[o].uid > 0
        BY <1>3, LiveBound, NodeTopologyAssumption
    <2>3. QED
        BY <1>1, <2>1, <2>2 DEF Full
<1>4. ASSUME NEW o \in Pods, IsDraPod(o), new[o].phase = "Running", Later(r, o, 0) = {}
      PROVE  Held(topo, o) = Claim[o]
    <2>1. o # p
        BY <1>1, <1>4 DEF FilterFunc, LivePhase
    <2>2. QED
        BY <1>1, <1>4, <2>1 DEF Holdings
<1>5. QED
    BY <1>2, <1>3, <1>4 DEF Holdings

\* ... and hands devices over in the order of the events: a newly bound pod was
\* given devices nobody has a claim to.
LEMMA ChangeKeepsHandover ==
    ASSUME NEW ps, PodsType(ps), NEW new, PodsType(new), NEW q \in Seq(PodEvent), NEW r,
           NEW p \in Pods, NEW topo, NEW cl \in SUBSET Pods, NEW cl2 \in {cl, cl \cup {p}},
           Accurate(ps, q), Watched(ps, q, new, r, p), SameBut(ps, new, p),
           new[p].uid = ps[p].uid \/ (new[p].uid = ps[p].uid + 1 /\ p \notin cl),
           cl2 # cl => new[p].uid = ps[p].uid + 1,
           Cluster(new, cl2), Handover(ps, q, topo, cl)
    PROVE  Handover(new, r, topo, cl2)
<1>0. Len(q) \in Nat /\ ps[p].uid \in Nat
    BY NodeTopologyAssumption DEF PodsType, PodObject
<1>1. /\ \A o, n : Leaves(q, o, n) /\ n \in 0..Len(q) => Leaves(r, o, n)
      /\ Len(q) <= Len(r)
    BY WatchedLater
<1>2. ASSUME NEW o \in Pods, IsDraPod(o), Held(topo, o) # {}
      PROVE  o \in cl2 \/ (Leaves(q, o, Len(q)) /\ Leaves(r, o, Len(q)))
    BY <1>0, <1>1, <1>2 DEF Handover
<1>3. ASSUME NEW n \in Nat, NEW o, Leaves(r, o, Len(q)), Len(q) <= n PROVE Leaves(r, o, n)
    BY <1>0, <1>3 DEF Leaves
<1>4. Len(r) \in Nat
    BY DEF Watched
<1>5. ASSUME NEW i \in 1..Len(q), NEW o \in Pods,
             Asks(new, cl2, q[i]), Overlap(q[i].pod, o), Held(topo, o) # {}
      PROVE  Leaves(r, o, i - 1)
    <2>1. q[i].uid <= ps[q[i].pod].uid /\ q[i].uid \in Nat
        <3>1. q[i] \in PodEvent
            OBVIOUS
        <3>2. q[i].uid <= ps[q[i].pod].uid
            BY DEF Accurate
        <3>3. QED
            BY <3>1, <3>2 DEF PodEvent
    <2>2. Asks(ps, cl, q[i])
        BY <1>0, <1>5, <2>1 DEF Asks, SameBut
    <2>3. Leaves(q, o, i - 1) /\ i - 1 \in 0..Len(q)
        BY <1>0, <1>5, <2>2 DEF Handover
    <2>4. QED
        BY <1>1, <2>3
<1>6. ASSUME NEW x, Extends(r, q, x), NEW o \in Pods,
             Asks(new, cl2, x), Overlap(x.pod, o), Held(topo, o) # {}
      PROVE  Leaves(r, o, Len(q))
    <2>1. o \notin cl2
        BY <1>6 DEF Asks, Cluster
    <2>2. IsDraPod(o)
        BY <1>6 DEF Overlap
    <2>3. QED
        BY <1>2, <1>6, <2>1, <2>2
<1>7. ASSUME NEW i \in 1..Len(r), NEW o \in Pods,
             Asks(new, cl2, r[i]), Overlap(r[i].pod, o), Held(topo, o) # {}
      PROVE  Leaves(r, o, i - 1)
    <2>1. CASE r = q
        BY <1>5, <1>7, <2>1
    <2>2. ASSUME NEW x, Extends(r, q, x) PROVE Leaves(r, o, i - 1)
        <3>1. /\ i \in 1..Len(q) => r[i] = q[i]
              /\ i \notin 1..Len(q) => r[i] = x /\ i - 1 = Len(q)
            BY <1>0, <2>2 DEF Extends
        <3>2. CASE i \in 1..Len(q)
            BY <1>5, <1>7, <3>1, <3>2
        <3>3. CASE i \notin 1..Len(q)
            BY <1>6, <1>7, <2>2, <3>1, <3>3
        <3>4. QED
            BY <3>2, <3>3
    <2>3. QED
        BY <2>1, <2>2 DEF Watched
<1>8. QED
    BY <1>1, <1>2, <1>3, <1>4, <1>7 DEF Handover

\* The scheduler allocates the claims of a late pod that has not started yet, or
\* the claims of a pod that ended are deallocated.
LEMMA ClaimKeepsHandover ==
    ASSUME NEW ps, NEW q \in Seq(PodEvent), NEW p \in Pods, NEW topo,
           NEW cl \in SUBSET Pods, NEW cl2, Accurate(ps, q), Cluster(ps, cl), Holdings(ps, q, topo),
           Handover(ps, q, topo, cl),
           \/ cl2 = cl \cup {p} /\ p \in LateClaims /\ IsDraPod(p) /\ FilterFunc(ps[p]) /\ p \notin cl
           \/ cl2 = cl \ {p} /\ ~FilterFunc(ps[p])
    PROVE  Handover(ps, q, topo, cl2)
<1>1. ASSUME NEW o \in Pods, IsDraPod(o), Held(topo, o) # {}
      PROVE  o \in cl2 \/ Leaves(q, o, Len(q))
    <2>1. CASE o = p /\ ~FilterFunc(ps[p])
        BY <1>1, <2>1, LiveThenDead DEF Holdings
    <2>2. CASE ~(o = p /\ ~FilterFunc(ps[p]))
        BY <1>1, <2>2 DEF Handover
    <2>3. QED
        BY <2>1, <2>2
<1>2. ASSUME NEW i \in 1..Len(q), Asks(ps, cl2, q[i]) PROVE Asks(ps, cl, q[i])
    <2>1. CASE q[i].pod = p /\ cl2 = cl \cup {p} /\ p \in LateClaims /\ IsDraPod(p)
                   /\ FilterFunc(ps[p]) /\ p \notin cl
        <3>1. q[i].uid = ps[p].uid /\ q[i].phase = "Running"
            BY <1>2, <2>1 DEF Asks
        <3>2. ps[p].phase = "Running"
            BY <2>1, <3>1 DEF Accurate, FilterFunc
        <3>3. QED
            BY <2>1, <3>2 DEF Cluster
    <2>2. QED
        BY <1>2, <2>1 DEF Asks
<1>3. QED
    BY <1>1, <1>2 DEF Handover
-----------------------------------------------------------------------------
(* Handling an event                                                       *)

\* What handling the first event of q must make of the topology topo.
Settles(ps, q, topo, new, cl) ==
    LET p == q[1].pod
    IN  /\ \A o \in Pods : o # p => Held(new, o) = Held(topo, o)
        /\ q[1].type = "Delete" => Held(new, p) = {}
        /\ q[1].type # "Delete" /\ IsDedicatedGpuPod(p) => Full(ps, new, p)
        /\ IsDraPod(p) => /\ Held(new, p) \in {{}, Claim[p]}
                          /\ Held(new, p) \in {{}, Held(topo, p)} \/ p \in cl
        /\ /\ q[1].type # "Delete" /\ IsDraPod(p)
           /\ ps[p].phase = "Running" /\ Later(q, p, 1) = {}
           => Held(new, p) = Claim[p]

\* Handling an event as it must be handled keeps the GPUs with their pods.
LEMMA SettlesKeepsHoldings ==
    ASSUME NEW ps, NEW q \in Seq(PodEvent), q # <<>>, NEW topo, NEW new, NEW cl, Accurate(ps, q),
           Holdings(ps, q, topo), Settles(ps, q, topo, new, cl)
    PROVE  Holdings(ps, Tail(q), new)
<1> DEFINE p == q[1].pod
           r == Tail(q)
<1>1. /\ LivePods(ps, r, 0) = LivePods(ps, q, 1)
      /\ \A o : Later(r, o, 0) = {} <=> Later(q, o, 1) = {}
    <2>1. 0 \in 0..(Len(q) - 1) /\ 0 + 1 = 1
        BY TailFacts
    <2>2. /\ LivePods(ps, Tail(q), 0) = LivePods(ps, q, 0 + 1)
          /\ \A o : Later(Tail(q), o, 0) = {} <=> Later(q, o, 0 + 1) = {}
        BY <2>1, LivePodsTail
    <2>3. QED
        BY <2>1, <2>2
<1>2. /\ p \in LivePods(ps, q, 0) <=> q[1].type # "Add"
      /\ \A o \in Pods : p # o =>
            /\ o \in LivePods(ps, q, 0) <=> o \in LivePods(ps, q, 1)
            /\ Later(q, o, 0) = {} <=> Later(q, o, 1) = {}
    BY LivePodsHead
<1>3. p \in Pods /\ (q[1].type # "Delete" <=> p \in LivePods(ps, q, 1))
    BY TailFacts DEF PodEvent, Accurate
<1> HIDE DEF r
<1>4. ASSUME NEW o \in Pods, o # p
      PROVE  /\ Held(new, o) # {} => o \in LivePods(ps, r, 0)
             /\ IsDedicatedGpuPod(o) /\ o \in LivePods(ps, r, 0) => Full(ps, new, o)
             /\ IsDraPod(o) => Held(new, o) \in {{}, Claim[o]}
             /\ IsDraPod(o) /\ ps[o].phase = "Running" /\ Later(r, o, 0) = {} => Held(new, o) = Claim[o]
    <2>1. Held(new, o) = Held(topo, o)
        BY <1>4 DEF Settles
    <2>2. QED
        BY <1>1, <1>2, <1>4, <2>1 DEF Holdings, Full
<1>5. /\ Held(new, p) # {} => p \in LivePods(ps, r, 0)
      /\ IsDedicatedGpuPod(p) /\ p \in LivePods(ps, r, 0) => Full(ps, new, p)
      /\ IsDraPod(p) => Held(new, p) \in {{}, Claim[p]}
      /\ IsDraPod(p) /\ ps[p].phase = "Running" /\ Later(r, p, 0) = {} => Held(new, p) = Claim[p]
    <2>1. CASE q[1].type # "Delete"
        BY <1>1, <1>3, <2>1 DEF Settles
    <2>2. CASE q[1].type = "Delete"
        <3>1. p \notin LivePods(ps, q, 1) /\ Held(new, p) = {}
            BY <1>3, <2>2 DEF Settles
        <3>2. Later(q, p, 1) = {} => ps[p].phase # "Running"
            BY <1>3, <3>1 DEF LivePods, LivePhase
        <3>3. QED
            BY <1>1, <3>1, <3>2
    <2>3. QED
        BY <2>1, <2>2
<1>6. QED
    BY <1>4, <1>5 DEF Holdings, r

\* A removal that is still in the queue is not the event handled now.
LEMMA LeavesTail ==
    ASSUME NEW q \in Seq(PodEvent), q # <<>>, NEW o, NEW n \in 0..Len(q), Leaves(q, o, n),
           ~(q[1].pod = o /\ q[1].type = "Delete")
    PROVE  Leaves(Tail(q), o, n - 1)
<1>1. PICK j \in 1..n : q[j].pod = o /\ q[j].type = "Delete"
    BY DEF Leaves
<1>2. j # 1 /\ Len(q) \in Nat /\ Len(Tail(q)) = Len(q) - 1
    BY <1>1, TailFacts
<1>3. j - 1 \in 1..(n - 1) /\ j - 1 \in 1..Len(Tail(q)) /\ (j - 1) + 1 = j
    BY <1>2
<1>4. Tail(q)[j - 1] = q[j]
    BY <1>3, TailFacts
<1>5. QED
    BY <1>1, <1>3, <1>4 DEF Leaves

\* ... and keeps the order in which devices are handed over.
LEMMA SettlesKeepsHandover ==
    ASSUME NEW ps, NEW q \in Seq(PodEvent), q # <<>>, NEW topo, NEW new, NEW cl \in SUBSET Pods,
           Cluster(ps, cl), Handover(ps, q, topo, cl), Settles(ps, q, topo, new, cl)
    PROVE  Handover(ps, Tail(q), new, cl)
<1> DEFINE r == Tail(q)
<1>0. Len(q) \in Nat /\ Len(r) = Len(q) - 1 /\ \A i \in 1..Len(r) : r[i] = q[i + 1]
    BY TailFacts
<1>1. ASSUME NEW o, NEW n \in 0..Len(q), Leaves(q, o, n),
             ~(q[1].pod = o /\ q[1].type = "Delete")
      PROVE  Leaves(r, o, n - 1)
    BY <1>1, LeavesTail
<1> HIDE DEF r
<1>2. ASSUME NEW o \in Pods, IsDraPod(o), Held(new, o) # {}
      PROVE  /\ o \in cl \/ Held(new, o) = Held(topo, o)
             /\ ~(q[1].pod = o /\ q[1].type = "Delete")
    BY <1>2 DEF Settles
<1>3. ASSUME NEW o \in Pods, IsDraPod(o), Held(new, o) # {}
      PROVE  o \in cl \/ Leaves(r, o, Len(r))
    <2>1. CASE Held(new, o) = Held(topo, o)
        <3>1. o \in cl \/ Leaves(q, o, Len(q))
            BY <1>3, <2>1 DEF Handover
        <3>2. QED
            BY <1>0, <1>1, <1>2, <1>3, <3>1
    <2>2. QED
        BY <1>2, <1>3, <2>1
<1>4. ASSUME NEW i \in 1..Len(r), NEW o \in Pods,
             Asks(ps, cl, r[i]), Overlap(r[i].pod, o), Held(new, o) # {}
      PROVE  Leaves(r, o, i - 1)
    <2>1. IsDraPod(o) /\ i + 1 \in 1..Len(q) /\ r[i] = q[i + 1] /\ (i + 1) - 1 = i /\ i \in 0..Len(q)
        BY <1>0, <1>4 DEF Overlap
    <2>2. CASE o \in cl
        BY <1>4, <2>2 DEF Cluster, Asks
    <2>3. CASE Held(new, o) = Held(topo, o)
        <3>1. Leaves(q, o, (i + 1) - 1)
            BY <1>4, <2>1, <2>3 DEF Handover
        <3>2. QED
            BY <1>1, <1>2, <1>4, <2>1, <3>1
    <2>4. QED
        BY <1>2, <1>4, <2>1, <2>2, <2>3
<1>5. QED
    BY <1>3, <1>4 DEF Handover, r

\* There is room for the pods of the events that remain.
LEMMA CapacityTail ==
    ASSUME NEW ps, NEW q \in Seq(PodEvent), q # <<>>, Capacity(ps, q)
    PROVE  Capacity(ps, Tail(q))
<1>1. ASSUME NEW k \in 0..Len(Tail(q))
      PROVE  k + 1 \in 0..Len(q) /\ LivePods(ps, Tail(q), k) = LivePods(ps, q, k + 1)
    <2>1. k \in 0..(Len(q) - 1) /\ k + 1 \in 0..Len(q)
        BY TailFacts
    <2>2. QED
        BY <2>1, LivePodsTail
<1>2. QED
    BY <1>1 DEF Capacity
-----------------------------------------------------------------------------
(* What the handlers do to the owners of the GPUs                          *)

\* A copy differs from the ConfigMap by one step of the ledger at most.
Moves(topo, new) ==
    \/ \A g \in GPU : new[g].by = topo[g].by
    \/ \E p \in Pods :
          /\ Held(topo, p) = {}
          /\ \E S \in SUBSET Free(topo) :
                /\ IF IsDraPod(p) THEN S = Claim[p] ELSE Cardinality(S) = Request[p]
                /\ \A g \in GPU : new[g].by = IF g \in S THEN p ELSE topo[g].by
    \/ \E p \in Pods : \A g \in GPU : new[g].by = IF topo[g].by = p THEN NoPod ELSE topo[g].by

\* Updates of usage leave the owners alone.
SameOwners(topo, new) == \A g \in GPU : new[g].by = topo[g].by

\* A change that keeps the owners is no step of the ledger.
LEMMA SameOwnersEffect ==
    ASSUME NEW topo, NEW new, SameOwners(topo, new)
    PROVE  Moves(topo, new) /\ \A p : Held(new, p) = Held(topo, p)
BY DEF SameOwners, Moves, Held

\* The refresh of the update handlers and the sharers' usage.
LEMMA UsageKeepsOwners ==
    ASSUME NEW topo \in Topology, NEW e, UsageEvent(e), NEW g \in GPU
    PROVE  /\ SameOwners(topo, RefreshUsage(topo, e))
           /\ SameOwners(topo, SetSharedUsage(topo, g, e))
           /\ SameOwners(topo, DropSharedUsage(topo, g, e))
<1>1. ASSUME NEW h \in GPU, NEW f, UsageEvent(f) PROVE SetUsage(topo[h], f).by = topo[h].by
    BY <1>1, SetUsageEffect DEF Topology
<1>2. ASSUME NEW f, UsageEvent(f) PROVE SameOwners(topo, SetSharedUsage(topo, g, f))
    <2>1. ASSUME NEW h \in GPU
          PROVE  SetSharedUsage(topo, g, f)[h] = IF h = g THEN SetUsage(topo[g], f) ELSE topo[h]
        BY DEF SetSharedUsage, Topology
    <2>2. QED
        BY <1>1, <1>2, <2>1 DEF SameOwners
<1>3. SameOwners(topo, RefreshUsage(topo, e))
    BY <1>1 DEF RefreshUsage, SameOwners
<1>4. SameOwners(topo, DropSharedUsage(topo, g, e))
    <2>1. UsageEvent([e EXCEPT !.phase = "none"])
        BY DEF UsageEvent
    <2>2. QED
        BY <1>2, <2>1 DEF DropSharedUsage
<1>5. QED
    BY <1>2, <1>3, <1>4

\* An addition gives the pod the GPUs S and touches nothing else.
LEMMA AllocateEffect ==
    ASSUME NEW topo \in Topology, NEW e, UsageEvent(e), NEW S \in SUBSET Free(topo),
           Held(topo, e.pod) = {}
    PROVE  /\ \A g \in GPU : Allocate(topo, S, e)[g].by = IF g \in S THEN e.pod ELSE topo[g].by
           /\ Held(Allocate(topo, S, e), e.pod) = S
           /\ \A p \in Pods : p # e.pod => Held(Allocate(topo, S, e), p) = Held(topo, p)
<1> DEFINE new == Allocate(topo, S, e)
           taken(g) == [topo[g] EXCEPT !.by = e.pod]
<1>1. ASSUME NEW g \in GPU PROVE taken(g) \in GpuStatus /\ taken(g).by = e.pod
    <2>1. topo[g] \in GpuStatus /\ e.pod \in Pods
        BY DEF Topology, UsageEvent
    <2>2. QED
        BY <2>1 DEF GpuStatus
<1>2. ASSUME NEW g \in GPU PROVE new[g].by = IF g \in S THEN e.pod ELSE topo[g].by
    <2>1. new[g] = IF g \notin S THEN topo[g]
                   ELSE IF IsGpuReservationPod(e.pod) THEN taken(g) ELSE SetUsage(taken(g), e)
        BY DEF Allocate
    <2>2. SetUsage(taken(g), e).by = e.pod
        <3> HIDE DEF taken
        <3>1. QED
            BY <1>1, SetUsageEffect
    <2>3. QED
        BY <1>1, <2>1, <2>2
<1> HIDE DEF new
<1>3. S \subseteq GPU /\ \A g \in S : topo[g].by = NoPod
    BY DEF Free
<1>4. Held(new, e.pod) = S
    BY <1>2, <1>3 DEF Held
<1>5. ASSUME NEW p \in Pods, p # e.pod PROVE Held(new, p) = Held(topo, p)
    BY <1>2, <1>3, <1>5, NodeTopologyAssumption DEF Held
<1>6. QED
    BY <1>2, <1>4, <1>5 DEF new

\* A deletion takes all GPUs of the pod and of no other.
LEMMA ReleaseEffect ==
    ASSUME NEW topo, NEW p \in Pods
    PROVE  /\ Moves(topo, Release(topo, p)) /\ Held(Release(topo, p), p) = {}
           /\ \A o \in Pods : o # p => Held(Release(topo, p), o) = Held(topo, o)
<1>1. \A g \in GPU : Release(topo, p)[g].by = IF topo[g].by = p THEN NoPod ELSE topo[g].by
    BY EmptyStatusType DEF Release
<1>2. QED
    BY <1>1, NodeTopologyAssumption DEF Moves, Held

\* Handling that changes no owner, of a pod that has what it is due already.
LEMMA SettlesSame ==
    ASSUME NEW ps, NEW q \in Seq(PodEvent), q # <<>>, NEW topo, NEW new, NEW cl,
           SameOwners(topo, new), Holdings(ps, q, topo),
           q[1].type = "Delete" => Held(topo, q[1].pod) = {},
           q[1].type = "Add" /\ IsDedicatedGpuPod(q[1].pod) => Full(ps, topo, q[1].pod),
           /\ q[1].type # "Delete" /\ IsDraPod(q[1].pod)
           /\ ps[q[1].pod].phase = "Running" /\ Later(q, q[1].pod, 1) = {}
           => Held(topo, q[1].pod) = Claim[q[1].pod]
    PROVE  Settles(ps, q, topo, new, cl) /\ Moves(topo, new)
<1> DEFINE p == q[1].pod
<1>1. p \in Pods /\ (p \in LivePods(ps, q, 0) <=> q[1].type # "Add")
    BY TailFacts, LivePodsHead DEF PodEvent
<1>2. Moves(topo, new) /\ \A o : Held(new, o) = Held(topo, o)
    BY SameOwnersEffect
<1>3. q[1].type # "Delete" /\ IsDedicatedGpuPod(p) => Full(ps, new, p)
    BY <1>1, <1>2 DEF Holdings, Full
<1>4. IsDraPod(p) => Held(new, p) \in {{}, Claim[p]}
    BY <1>1, <1>2 DEF Holdings
<1>5. QED
    BY <1>2, <1>3, <1>4 DEF Settles

\* handleDedicatedGpuPodAddition finds all the GPUs the scheduler counted on.
LEMMA AdditionSettles ==
    ASSUME NEW ps, PodsType(ps), NEW q \in Seq(PodEvent), q # <<>>, NEW topo, NEW cl,
           Sound(topo), Accurate(ps, q), Cluster(ps, cl), Capacity(ps, q), Holdings(ps, q, topo),
           q[1].type = "Add", IsDedicatedGpuPod(q[1].pod)
    PROVE  LET new == DedicatedAddition(topo, q[1])
           IN  /\ Settles(ps, q, topo, new, cl) /\ Moves(topo, new)
               /\ Cardinality(Held(new, q[1].pod)) = Request[q[1].pod]
<1> DEFINE e == q[1]
           p == e.pod
           S == LivePods(ps, q, 0)
           F == FirstFree(topo, Request[p])
           new == Allocate(topo, F, e)
<1>1. /\ 1 \in 1..Len(q) /\ Len(q) \in Nat /\ p \in Pods /\ UsageEvent(e) /\ topo \in Topology
      /\ S \subseteq Pods
    BY TailFacts DEF PodEvent, UsageEvent, Sound, LivePods
<1>2. /\ p \notin S
      /\ \A o \in Pods : p # o => (o \in S <=> o \in LivePods(ps, q, 1))
    BY LivePodsHead
<1>3. p \in LivePods(ps, q, 1)
    BY <1>1 DEF Accurate
<1>4. Held(topo, p) = {}
    BY <1>1, <1>2 DEF Holdings
<1>5. Demand(S \cup {p}) <= GpuCount
    <2>1. LivePods(ps, q, 1) = S \cup {p}
        BY <1>1, <1>2, <1>3 DEF LivePods
    <2>2. 1 \in 0..Len(q)
        BY <1>1
    <2>3. QED
        BY <2>1, <2>2 DEF Capacity
<1>6. ASSUME NEW g \in GPU, topo[g].by # NoPod
      PROVE  topo[g].by \in S /\ IsDedicatedGpuPod(topo[g].by)
    <2> DEFINE h == topo[g].by
    <2>1. h \in Pods /\ g \in Held(topo, h)
        BY <1>1, <1>6 DEF Topology, GpuStatus, Held
    <2>2. h \in S /\ ~IsSharedGpuPod(h)
        BY <1>1, <2>1 DEF Holdings, Sound, WithinRequest
    <2>3. ps[h].uid > 0 /\ ps[p].uid > 0
        <3>1. 0 \in 0..Len(q) /\ 1 \in 0..Len(q)
            BY <1>1
        <3>2. ps[h].uid \in 1..MaxUid /\ ps[p].uid \in 1..MaxUid
            BY <1>3, <2>2, <3>1, LiveBound
        <3>3. QED
            BY <3>2
    <2>4. ~IsDraPod(h)
        BY <1>1, <2>1, <2>3 DEF Cluster, IsDraPod, IsDedicatedGpuPod
    <2>5. QED
        BY <2>1, <2>2, <2>4, NodeTopologyAssumption
           DEF Kinds, IsDraPod, IsDedicatedGpuPod, IsSharedGpuPod
<1>7. Cardinality(F) = Request[p]
    <2>1. WithinRequest(topo)
        BY DEF Sound
    <2>2. QED
        BY <1>1, <1>2, <1>5, <1>6, <2>1, RequestFits
<1>8. F \subseteq Free(topo)
    BY DEF FirstFree
<1>9. /\ \A g \in GPU : new[g].by = IF g \in F THEN p ELSE topo[g].by
      /\ Held(new, p) = F
      /\ \A o \in Pods : o # p => Held(new, o) = Held(topo, o)
    BY <1>1, <1>4, <1>8, AllocateEffect
<1>10. ~IsDraPod(p)
    BY DEF IsDraPod, IsDedicatedGpuPod
<1>11. DedicatedAddition(topo, e) = new
    BY <1>4 DEF DedicatedAddition
<1> HIDE DEF F, new
<1>12. Moves(topo, new)
    BY <1>1, <1>4, <1>7, <1>8, <1>9, <1>10 DEF Moves
<1>13. Settles(ps, q, topo, new, cl)
    BY <1>7, <1>9, <1>10 DEF Settles, Full
<1>14. QED
    BY <1>7, <1>9, <1>11, <1>12, <1>13

\* The claims of a pod that may be bound before their allocation overlap no
\* claims but larger ones.
NestedClaims ==
    \A q \in LateClaims, p \in Pods :
        IsDraPod(q) /\ IsDraPod(p) /\ Claim[p] \cap Claim[q] # {} => Claim[q] \subseteq Claim[p]

\* An event of a DRA pod whose claims are allocated finds all its devices free,
\* or, when it came too early, none.
LEMMA DevicesFree ==
    ASSUME NestedClaims, NEW ps, PodsType(ps), NEW q \in Seq(PodEvent), q # <<>>, NEW topo,
           NEW cl \in SUBSET Pods, Sound(topo), Accurate(ps, q), Cluster(ps, cl), Holdings(ps, q, topo), Handover(ps, q, topo, cl),
           q[1].type # "Delete", IsDraPod(q[1].pod), q[1].uid = ps[q[1].pod].uid,
           Held(topo, q[1].pod) = {}, q[1].pod \in cl
    PROVE  /\ Claim[q[1].pod] \cap Free(topo) \in {{}, Claim[q[1].pod]}
           /\ q[1].pod \notin LateClaims \/ q[1].phase = "Running" => Claim[q[1].pod] \subseteq Free(topo)
<1> DEFINE p == q[1].pod
<1>1. /\ 1 \in 1..Len(q) /\ p \in Pods /\ topo \in Topology /\ WithinRequest(topo)
      /\ Claim[p] \subseteq GPU
    BY TailFacts, NodeTopologyAssumption DEF PodEvent, Sound
<1>2. ASSUME NEW g \in Claim[p], g \notin Free(topo)
      PROVE  LET h == topo[g].by
             IN  /\ h \in Pods /\ Overlap(p, h) /\ Held(topo, h) = Claim[h] /\ g \in Claim[h]
                 /\ Held(topo, h) # {}
    <2> DEFINE h == topo[g].by
    <2>1. h \in Pods /\ g \in Held(topo, h) /\ h # p
        BY <1>1, <1>2 DEF Topology, GpuStatus, Held, Free
    <2>2. ~IsSharedGpuPod(h) /\ h \in LivePods(ps, q, 0)
        BY <1>1, <2>1 DEF Holdings, WithinRequest
    <2>3. IsDraPod(h)
        <3>1. 0 \in 0..Len(q) /\ q[1] \in PodEvent
            BY <1>1
        <3>2. ps[h].uid \in 1..MaxUid /\ ps[p].uid \in 1..MaxUid
            BY <2>2, <3>1, LiveBound DEF PodEvent
        <3>3. ps[h].uid > 0 /\ ps[p].uid > 0
            BY <3>2
        <3>4. QED
            BY <1>1, <2>1, <3>3 DEF Cluster
    <2>4. Held(topo, h) = Claim[h]
        BY <2>1, <2>3 DEF Holdings
    <2>5. QED
        BY <1>2, <2>1, <2>3, <2>4 DEF Overlap
<1>3. CASE p \notin LateClaims \/ q[1].phase = "Running"
    <2>1. Asks(ps, cl, q[1])
        BY <1>3 DEF Asks
    <2>2. \A h \in Pods : Overlap(p, h) /\ Held(topo, h) # {} => Leaves(q, h, 1 - 1)
        BY <1>1, <2>1 DEF Handover
    <2>3. \A h : ~Leaves(q, h, 1 - 1)
        BY DEF Leaves
    <2>4. \A g \in Claim[p] : g \in Free(topo)
        BY <1>2, <2>2, <2>3
    <2>5. QED
        BY <2>4
<1>4. CASE p \in LateClaims /\ q[1].phase # "Running"
    <2>1. ASSUME NEW g \in Claim[p], g \notin Free(topo) PROVE Claim[p] \cap Free(topo) = {}
        <3> DEFINE h == topo[g].by
        <3>1. h \in Pods /\ Overlap(p, h) /\ Held(topo, h) = Claim[h]
            BY <1>2, <2>1
        <3>2. Claim[p] \subseteq Held(topo, h)
            BY <1>1, <1>4, <3>1 DEF Overlap, NestedClaims
        <3>3. QED
            BY <3>1, <3>2, NodeTopologyAssumption DEF Held, Free
    <2>2. QED
        BY <1>4, <2>1
<1>5. QED
    BY <1>3, <1>4

\* handleDraGpuPodAddition and the late allocation of handleDraGpuPodUpdate give
\* a pod all the devices of its claims, or none and another event follows.
LEMMA DraAllocationSettles ==
    ASSUME NestedClaims, NEW ps, PodsType(ps), NEW q \in Seq(PodEvent), q # <<>>, NEW topo,
           NEW cl \in SUBSET Pods, Sound(topo), Accurate(ps, q), Cluster(ps, cl), Holdings(ps, q, topo),
           Handover(ps, q, topo, cl), q[1].type # "Delete", IsDraPod(q[1].pod),
           q[1].uid = ps[q[1].pod].uid, Held(topo, q[1].pod) = {},
           NEW devices, devices = IF q[1].pod \in cl THEN Claim[q[1].pod] ELSE {}
    PROVE  LET new == DraAllocation(topo, q[1], devices)
           IN  Settles(ps, q, topo, new, cl) /\ Moves(topo, new)
<1> DEFINE e == q[1]
           p == e.pod
           S == devices \cap Free(topo)
           new == Allocate(topo, S, e)
<1>1. /\ 1 \in 1..Len(q) /\ p \in Pods /\ UsageEvent(e) /\ topo \in Topology
    BY TailFacts DEF PodEvent, UsageEvent, Sound
<1>2. S \in {{}, Claim[p]} /\ (p \notin cl => S = {})
    <2>1. p \in cl => Claim[p] \cap Free(topo) \in {{}, Claim[p]}
        BY DevicesFree
    <2>2. QED
        BY <2>1
<1>3. ps[p].phase = "Running" /\ Later(q, p, 1) = {} => S = Claim[p]
    <2>1. SUFFICES ASSUME ps[p].phase = "Running", Later(q, p, 1) = {} PROVE S = Claim[p]
        OBVIOUS
    <2>2. e.phase = "Running"
        BY <1>1, <2>1 DEF Accurate
    <2>3. p \in cl
        BY <1>1, <2>1 DEF Cluster, FilterFunc, LivePhase
    <2>4. Claim[p] \subseteq Free(topo)
        BY <2>2, <2>3, DevicesFree
    <2>5. QED
        BY <2>3, <2>4
<1> HIDE DEF S
<1>4. S \subseteq Free(topo)
    BY DEF S
<1>5. /\ \A g \in GPU : new[g].by = IF g \in S THEN p ELSE topo[g].by
      /\ Held(new, p) = S
      /\ \A o \in Pods : o # p => Held(new, o) = Held(topo, o)
    BY <1>1, <1>4, AllocateEffect
<1> HIDE DEF new
<1>6. Moves(topo, new)
    <2>1. CASE S = {}
        BY <1>5, <2>1 DEF Moves
    <2>2. CASE S = Claim[p]
        BY <1>1, <1>4, <1>5, <2>2 DEF Moves
    <2>3. QED
        BY <1>2, <2>1, <2>2
<1>7. Settles(ps, q, topo, new, cl)
    <2>1. ~IsDedicatedGpuPod(p)
        BY DEF IsDraPod, IsDedicatedGpuPod
    <2>2. QED
        BY <1>2, <1>3, <1>5, <2>1 DEF Settles
<1>8. DraAllocation(topo, e, devices) = new
    BY DEF DraAllocation, new, S
<1>9. QED
    BY <1>6, <1>7, <1>8
-----------------------------------------------------------------------------
(* The inductive invariant                                                 *)

\* The process was not restarted, nobody changed the node object and no API call
\* failed so far.
Undisturbed == restarts = 0 /\ NodeUndisturbed

\* What is assumed of the cluster: one plugin serves the node, and claims are nested.
Environment == ~MixedNode /\ NestedClaims

\* The ConfigMap as it will be once the worker has written its copy.
Promised == IF worker = "apply" THEN workerTopo ELSE cm

\* Without a ConfigMap nothing is advertised: only pods whose claims are allocated
\* later can be bound.
OnlyLatePods(ps) == \A p \in Pods : ps[p].uid > 0 => IsDraPod(p) /\ p \in LateClaims

\* The ConfigMap is created once, by the goroutine of the initial list, and the
\* prune pass found none.
Boot ==
    /\ prune \in {"list", "done"}
    /\ present => up /\ prune = "done"
    /\ ~up => queue = <<>>
    /\ ~present => cm = FreshTopology /\ worker = "idle" /\ claimed = {} /\ OnlyLatePods(pods)

LedgerInv ==
    /\ Environment /\ ServedInv /\ Boot
    /\ Cluster(pods, claimed)
    /\ Accurate(pods, queue)
    /\ Capacity(pods, queue)
    /\ Holdings(pods, queue, Promised)
    /\ Handover(pods, queue, Promised, claimed)
    /\ worker = "apply" => Moves(cm, workerTopo)

\* The part of it about pods that the type invariant already gives.
LEMMA PodsTyped == ASSUME TypeOK PROVE PodsType(pods) /\ queue \in Seq(PodEvent) /\ claimed \in SUBSET Pods
BY DEF TypeOK, PodsType

\* No GPU of a new ConfigMap is held.
LEMMA FreshHeld == \A p \in Pods : Held(FreshTopology, p) = {}
BY EmptyStatusType, NodeTopologyAssumption DEF Held, FreshTopology

\* Before there is a ConfigMap nothing is due to any pod.
LEMMA Blank ==
    ASSUME NEW ps, PodsType(ps), NEW q \in Seq(PodEvent), Accurate(ps, q), Cluster(ps, {}),
           OnlyLatePods(ps)
    PROVE  Capacity(ps, q) /\ Holdings(ps, q, FreshTopology) /\ Handover(ps, q, FreshTopology, {})
<1>1. ASSUME NEW k \in 0..Len(q), NEW p \in LivePods(ps, q, k) PROVE p \in Pods /\ IsDraPod(p)
    <2>1. p \in Pods /\ ps[p].uid \in 1..MaxUid
        BY LiveBound
    <2>2. ps[p].uid > 0
        BY <2>1
    <2>3. QED
        BY <2>1, <2>2 DEF OnlyLatePods
<1>2. ASSUME NEW k \in 0..Len(q) PROVE Demand(LivePods(ps, q, k)) <= GpuCount
    <2>1. Slots(LivePods(ps, q, k)) = {}
        BY <1>1 DEF Slots, IsDraPod, IsDedicatedGpuPod
    <2>2. QED
        BY <2>1, FS_EmptySet, NodeTopologyAssumption DEF Demand
<1>3. Holdings(ps, q, FreshTopology)
    <2>1. ASSUME NEW p \in Pods, IsDedicatedGpuPod(p) PROVE p \notin LivePods(ps, q, 0)
        <3>1. 0 \in 0..Len(q)
            OBVIOUS
        <3>2. QED
            BY <1>1, <2>1, <3>1 DEF IsDraPod, IsDedicatedGpuPod
    <2>2. ASSUME NEW p \in Pods, IsDraPod(p), ps[p].phase = "Running" PROVE FALSE
        BY <2>2 DEF Cluster, FilterFunc, LivePhase
    <2>3. QED
        BY <2>1, <2>2, FreshHeld DEF Holdings
<1>4. Handover(ps, q, FreshTopology, {})
    BY FreshHeld DEF Handover
<1>5. QED
    BY <1>2, <1>3, <1>4 DEF Capacity

\* The pods that are alive once the whole queue is handled are those of the API server.
LEMMA LiveAtEnd ==
    ASSUME NEW ps, NEW q \in Seq(PodEvent)
    PROVE  LivePods(ps, q, Len(q)) = LiveNow(ps)
<1>1. \A p : Later(q, p, Len(q)) = {}
    BY DEF Later
<1>2. QED
    BY <1>1 DEF LivePods, LiveNow, FilterFunc
-----------------------------------------------------------------------------
(* Steps of the cluster                                                    *)

\* A change of a pod object that the cluster may make keeps the invariant.
LEMMA ChangePodLedger ==
    ASSUME LedgerInv, ServedInv', Inv, Inv', NEW p \in Pods, NEW new \in PodObject, ChangePod(p, new),
           new.phase # "Absent" => new.uid \in 1..MaxUid,
           Evolves(pods[p], new), pods[p].phase = "Absent" => new.uid # pods[p].uid,
           claimed' \in {claimed, claimed \cup {p}},
           claimed' # claimed => new.uid = pods[p].uid + 1,
           new.uid # pods[p].uid => p \notin claimed /\ ~(IsGpuReservationPod(p) /\ pods[p].uid > 0),
           Cluster(pods', claimed'), Demand(LiveNow(pods')) <= GpuCount,
           ~present => claimed' = {} /\ OnlyLatePods(pods')
    PROVE  LedgerInv'
<1>1. /\ PodsType(pods) /\ queue \in Seq(PodEvent) /\ claimed \in SUBSET Pods
      /\ PodsType(pods)' /\ (queue \in Seq(PodEvent))'
    BY PodsTyped, PTL DEF Inv
<1>2. UNCHANGED <<present, cm, up, worker, workerTopo, prune>> /\ pods' = [pods EXCEPT ![p] = new]
    BY DEF ChangePod
<1>3. Promised' = Promised
    BY <1>2 DEF Promised
<1>4. SameBut(pods, pods', p) /\ pods'[p] = new
    BY <1>1, <1>2 DEF SameBut, PodsType
<1>5. Boot'
    BY <1>2 DEF LedgerInv, Boot, ChangePod, Notify
<1>6. CASE up
    <2>1. queue' = queue \o Notification(p, pods[p], new)
        BY <1>6 DEF ChangePod, Notify
    <2>2. Accurate(pods, queue) /\ Capacity(pods, queue) /\ Holdings(pods, queue, Promised)
          /\ Handover(pods, queue, Promised, claimed)
        BY DEF LedgerInv
    <2>3. Watched(pods, queue, pods', queue', p)
        BY <1>1, <1>2, <2>1, <2>2, Observed
    <2>4. Accurate(pods', queue')
        BY <2>3 DEF Watched
    <2>5. Capacity(pods', queue')
        BY <1>1, <2>2, <2>3, ChangeKeepsCapacity
    <2>6. Holdings(pods', queue', Promised)
        <3>1. IsGpuReservationPod(p) /\ pods[p].uid > 0 /\ pods[p].phase = "Absent" => new.phase = "Absent"
            OBVIOUS
        <3>2. QED
            BY <1>1, <1>4, <2>2, <2>3, <3>1, ChangeKeepsHoldings
    <2>7. Handover(pods', queue', Promised, claimed')
        <3>1. new.uid = pods[p].uid \/ (new.uid = pods[p].uid + 1 /\ p \notin claimed)
            BY DEF Evolves
        <3>2. QED
            BY <1>1, <1>4, <2>2, <2>3, <3>1, ChangeKeepsHandover
    <2>8. QED
        BY <1>2, <1>3, <1>5, <2>4, <2>5, <2>6, <2>7 DEF LedgerInv, Environment
<1>7. CASE ~up
    <2>1. ~present /\ queue = <<>> /\ worker = "idle" /\ cm = FreshTopology
        BY <1>7 DEF LedgerInv, Boot
    <2>2. queue' = <<>> /\ claimed' = {} /\ OnlyLatePods(pods') /\ Promised' = FreshTopology
        BY <1>2, <1>7, <2>1 DEF ChangePod, Notify, Promised
    <2>3. Accurate(pods', queue')
        BY <2>2 DEF Accurate
    <2>4. Capacity(pods', queue') /\ Holdings(pods', queue', FreshTopology)
          /\ Handover(pods', queue', FreshTopology, {})
        BY <1>1, <2>2, <2>3, Blank
    <2>5. QED
        BY <1>2, <1>5, <2>1, <2>2, <2>3, <2>4 DEF LedgerInv, Environment
<1>8. QED
    BY <1>6, <1>7

\* Fewer live pods need fewer GPUs.
LEMMA FewerLive ==
    ASSUME NEW ps, NEW q \in Seq(PodEvent), Capacity(ps, q), NEW T \in SUBSET LiveNow(ps)
    PROVE  Demand(T) <= GpuCount
<1>1. Len(q) \in 0..Len(q)
    OBVIOUS
<1>2. Demand(LiveNow(ps)) <= GpuCount
    BY <1>1, LiveAtEnd DEF Capacity
<1>3. LiveNow(ps) \in SUBSET Pods /\ T \in SUBSET Pods
    BY DEF LiveNow
<1>4. Demand(T) <= Demand(LiveNow(ps)) /\ Demand(T) \in Nat /\ Demand(LiveNow(ps)) \in Nat
    BY <1>3, DemandMonotone, SlotsFinite
<1>5. QED
    BY <1>2, <1>4, NodeTopologyAssumption

\* The scheduler binds a pod where the device plugin and the claims leave room.
LEMMA BindPodLedger ==
    ASSUME LedgerInv, ServedInv', Inv, Inv', NEW p \in Pods, BindPod(p)
    PROVE  LedgerInv'
<1> DEFINE new == [uid |-> pods[p].uid + 1, phase |-> "Pending", idx |-> 0]
           pods2 == [pods EXCEPT ![p] = new]
<1>1. /\ PodsType(pods) /\ queue \in Seq(PodEvent) /\ pods[p].uid \in 0..MaxUid
      /\ pods[p].uid < MaxUid /\ pods[p].phase = "Absent"
      /\ MaxUid \in Nat /\ GpuCount \in Nat
    BY PodsTyped, NodeTopologyAssumption DEF Inv, PodsType, PodObject, BindPod
<1>2. new \in PodObject /\ new.uid \in 1..MaxUid /\ new.uid = pods[p].uid + 1 /\ new.phase = "Pending"
    BY <1>1 DEF PodObject, Phase, LivePhase
<1>3. ChangePod(p, new) /\ pods' = pods2
    BY DEF BindPod, ChangePod
<1>4. pods2[p] = new /\ \A o \in Pods : o # p => pods2[o] = pods[o]
    BY <1>1 DEF PodsType
<1> HIDE DEF new, pods2
<1>5. p \notin claimed /\ claimed' = IF IsDraPod(p) /\ p \notin LateClaims THEN claimed \cup {p} ELSE claimed
    BY DEF BindPod
<1>6. Cluster(pods, claimed) /\ Capacity(pods, queue)
    BY DEF LedgerInv
<1>7. Cluster(pods2, claimed')
    <2>1. \A q \in Pods : pods[q].uid > 0 => (IsDraPod(q) <=> IsDraPod(p))
        BY DEF BindPod, LedgerInv, Environment
    <2>2. \A a, b \in Pods : pods2[a].uid > 0 /\ pods2[b].uid > 0 => (IsDraPod(a) <=> IsDraPod(b))
        BY <1>4, <2>1
    <2>3. \A a, b \in claimed' : ~Overlap(a, b)
        <3>1. CASE IsDraPod(p) /\ p \notin LateClaims
            <4>1. \A q \in claimed : Claim[p] \cap Claim[q] = {}
                BY <3>1 DEF BindPod, Allocatable
            <4>2. QED
                BY <1>5, <1>6, <3>1, <4>1 DEF Cluster, Overlap
        <3>2. QED
            BY <1>5, <1>6, <3>1 DEF Cluster
    <2>4. ASSUME NEW o \in Pods, IsDraPod(o), FilterFunc(pods2[o]),
                 o \notin LateClaims \/ pods2[o].phase = "Running"
          PROVE  o \in claimed'
        BY <1>2, <1>4, <1>5, <1>6, <2>4 DEF Cluster
    <2>5. QED
        BY <2>2, <2>3, <2>4 DEF Cluster
<1>8. Demand(LiveNow(pods2)) <= GpuCount
    <2>1. LiveNow(pods2) = LiveNow(pods) \cup {p}
        BY <1>2, <1>4 DEF LiveNow, FilterFunc, LivePhase
    <2>2. CASE IsDedicatedGpuPod(p)
        <3>1. LiveNow(pods) = {q \in Pods : Alive(q)}
            BY DEF LiveNow, FilterFunc, Alive
        <3>2. QED
            BY <2>1, <2>2, <3>1 DEF BindPod
    <2>3. CASE ~IsDedicatedGpuPod(p)
        <3>1. Slots(LiveNow(pods2)) = Slots(LiveNow(pods))
            BY <2>1, <2>3 DEF Slots
        <3>2. Demand(LiveNow(pods)) <= GpuCount
            BY <1>1, <1>6, FewerLive
        <3>3. QED
            BY <3>1, <3>2 DEF Demand
    <2>4. QED
        BY <2>2, <2>3
<1>9. ~present => claimed' = {} /\ OnlyLatePods(pods2)
    <2>1. SUFFICES ASSUME ~present PROVE claimed' = {} /\ OnlyLatePods(pods2)
        OBVIOUS
    <2>2. OnlyLatePods(pods) /\ claimed = {}
        BY <2>1 DEF LedgerInv, Boot
    <2>3. ~IsSharedGpuPod(p)
        <3>1. ASSUME NEW r \in Pods, IsGpuReservationPod(r), Alive(r) PROVE FALSE
            <4>1. pods[r].uid \in 1..MaxUid
                BY <1>1, <3>1 DEF PodsType, Alive, LivePhase
            <4>2. pods[r].uid > 0
                BY <4>1
            <4>3. QED
                BY <2>2, <3>1, <4>2 DEF OnlyLatePods, IsDraPod, IsGpuReservationPod
        <3>2. QED
            BY <3>1 DEF BindPod
    <2>4. ~IsDedicatedGpuPod(p) /\ (IsDraPod(p) => p \in LateClaims)
        BY <2>1 DEF BindPod, Allocatable
    <2>5. IsDraPod(p)
        BY <2>3, <2>4, NodeTopologyAssumption DEF Kinds, IsDraPod, IsDedicatedGpuPod, IsSharedGpuPod
    <2>6. QED
        BY <1>4, <1>5, <2>2, <2>4, <2>5 DEF OnlyLatePods
<1>10. Evolves(pods[p], new)
    BY <1>1, <1>2 DEF Evolves, FilterFunc, LivePhase
<1>11. /\ claimed' \in {claimed, claimed \cup {p}}
       /\ ~(IsGpuReservationPod(p) /\ pods[p].uid > 0)
       /\ new.uid # pods[p].uid
    BY <1>1, <1>2, <1>5 DEF BindPod
<1>12. QED
    BY <1>2, <1>3, <1>5, <1>7, <1>8, <1>9, <1>10, <1>11, ChangePodLedger

\* A pod that exists starts, ends or is removed.
LEMMA AgingLedger ==
    ASSUME LedgerInv, ServedInv', Inv, Inv', NEW p \in Pods, StartPod(p) \/ FinishPod(p) \/ RemovePod(p)
    PROVE  LedgerInv'
<1>1. /\ PodsType(pods) /\ queue \in Seq(PodEvent) /\ Cluster(pods, claimed) /\ Capacity(pods, queue)
      /\ pods[p] \in PodObject
    BY PodsTyped DEF Inv, PodsType, LedgerInv
<1>2. ASSUME NEW new \in PodObject, ChangePod(p, new), UNCHANGED claimed,
             pods[p].phase # "Absent", new.uid = pods[p].uid,
             FilterFunc(new) => FilterFunc(pods[p]) /\ new.phase = "Running" /\ (IsDraPod(p) => p \in claimed)
      PROVE  LedgerInv'
    <2> DEFINE pods2 == [pods EXCEPT ![p] = new]
    <2>1. pods' = pods2 /\ pods2[p] = new /\ \A o \in Pods : o # p => pods2[o] = pods[o]
        BY <1>1, <1>2 DEF PodsType, ChangePod
    <2> HIDE DEF pods2
    <2>2. \A o \in Pods : pods2[o].uid = pods[o].uid
        BY <1>2, <2>1
    <2>3. Cluster(pods2, claimed')
        <3>1. ASSUME NEW o \in Pods, IsDraPod(o), FilterFunc(pods2[o]),
                     o \notin LateClaims \/ pods2[o].phase = "Running"
              PROVE  o \in claimed
            BY <1>1, <1>2, <2>1, <3>1 DEF Cluster
        <3>2. QED
            BY <1>1, <1>2, <2>2, <3>1 DEF Cluster
    <2>4. LiveNow(pods2) \subseteq LiveNow(pods)
        BY <1>2, <2>1 DEF LiveNow
    <2>5. Demand(LiveNow(pods2)) <= GpuCount
        BY <1>1, <2>4, FewerLive
    <2>6. ~present => claimed' = {} /\ OnlyLatePods(pods2)
        BY <1>2, <2>2 DEF LedgerInv, Boot, OnlyLatePods
    <2>7. Evolves(pods[p], new) /\ (new.phase # "Absent" => new.uid \in 1..MaxUid)
        BY <1>1, <1>2 DEF Evolves, PodsType
    <2>8. QED
        BY <1>2, <2>1, <2>3, <2>5, <2>6, <2>7, ChangePodLedger
<1>3. CASE StartPod(p)
    <2> DEFINE new == [pods[p] EXCEPT !.phase = "Running"]
    <2>1. new \in PodObject /\ new.uid = pods[p].uid /\ new.phase = "Running"
        BY <1>1 DEF PodObject, Phase, LivePhase
    <2> HIDE DEF new
    <2>2. QED
        BY <1>2, <1>3, <2>1 DEF StartPod, FilterFunc, LivePhase, new
<1>4. CASE FinishPod(p)
    <2> DEFINE new == [pods[p] EXCEPT !.phase = "Done"]
    <2>1. new \in PodObject /\ new.uid = pods[p].uid /\ new.phase = "Done"
        BY <1>1 DEF PodObject, Phase
    <2> HIDE DEF new
    <2>2. QED
        BY <1>2, <1>4, <2>1 DEF FinishPod, Alive, FilterFunc, LivePhase, new
<1>5. CASE RemovePod(p)
    <2> DEFINE new == Removed(p)
    <2>1. new \in PodObject /\ new.uid = pods[p].uid /\ new.phase = "Absent"
        <3>1. 0 \in 0..GpuCount
            BY NodeTopologyAssumption
        <3>2. QED
            BY <1>1, <3>1 DEF PodObject, Phase, Removed
    <2> HIDE DEF new
    <2>2. QED
        BY <1>2, <1>5, <2>1 DEF RemovePod, FilterFunc, LivePhase, new
<1>6. QED
    BY <1>3, <1>4, <1>5

\* The scheduler allocates the claims of a late pod; those of a pod that ended are
\* deallocated.
LEMMA ClaimLedger ==
    ASSUME LedgerInv, ServedInv', Inv, NEW p \in Pods, AllocateClaim(p) \/ ReleaseClaim(p)
    PROVE  LedgerInv'
<1>1. /\ PodsType(pods) /\ queue \in Seq(PodEvent) /\ claimed \in SUBSET Pods
      /\ Cluster(pods, claimed) /\ Accurate(pods, queue) /\ Holdings(pods, queue, Promised)
      /\ Handover(pods, queue, Promised, claimed)
    BY PodsTyped DEF Inv, LedgerInv
<1>2. UNCHANGED <<pods, cm, present, up, prune, queue, worker, workerTopo, Promised>>
    BY DEF AllocateClaim, ReleaseClaim, Promised
<1>3. CASE AllocateClaim(p)
    <2>1. /\ claimed' = claimed \cup {p} /\ p \in LateClaims /\ IsDraPod(p) /\ FilterFunc(pods[p])
          /\ p \notin claimed /\ present /\ \A q \in claimed : Claim[p] \cap Claim[q] = {}
        BY <1>3 DEF AllocateClaim, Alive, FilterFunc, Allocatable
    <2>2. Handover(pods, queue, Promised, claimed')
        BY <1>1, <2>1, ClaimKeepsHandover
    <2>3. Cluster(pods, claimed')
        BY <1>1, <2>1 DEF Cluster, Overlap
    <2>4. QED
        BY <1>2, <2>1, <2>2, <2>3 DEF LedgerInv, Environment, Boot
<1>4. CASE ReleaseClaim(p)
    <2>1. claimed' = claimed \ {p} /\ ~FilterFunc(pods[p])
        BY <1>4 DEF ReleaseClaim, Alive, FilterFunc
    <2>2. Handover(pods, queue, Promised, claimed')
        BY <1>1, <2>1, ClaimKeepsHandover
    <2>3. Cluster(pods, claimed')
        BY <1>1, <2>1 DEF Cluster
    <2>4. claimed = {} => claimed' = {}
        BY <2>1
    <2>5. QED
        BY <1>2, <2>2, <2>3, <2>4 DEF LedgerInv, Environment, Boot
<1>5. QED
    BY <1>3, <1>4
-----------------------------------------------------------------------------
(* Steps of the pod controller                                             *)

\* What remains true of the queue and the topology once the first event is handled.
LEMMA EventSettled ==
    ASSUME LedgerInv, Inv, queue # <<>>, worker = "idle", NEW topo,
           Settles(pods, queue, cm, topo, claimed)
    PROVE  /\ Tail(queue) \in Seq(PodEvent) /\ Accurate(pods, Tail(queue))
           /\ Capacity(pods, Tail(queue)) /\ Holdings(pods, Tail(queue), topo)
           /\ Handover(pods, Tail(queue), topo, claimed)
<1>1. /\ PodsType(pods) /\ queue \in Seq(PodEvent) /\ claimed \in SUBSET Pods
    BY PodsTyped DEF Inv
<1>2. /\ Cluster(pods, claimed) /\ Accurate(pods, queue) /\ Capacity(pods, queue)
      /\ Holdings(pods, queue, cm) /\ Handover(pods, queue, cm, claimed)
    BY DEF LedgerInv, Promised
<1>3. QED
    BY <1>1, <1>2, TailFacts, AccurateTail, CapacityTail, SettlesKeepsHoldings, SettlesKeepsHandover

\* A handler that has a topology to write.
LEMMA HandlerLedger ==
    ASSUME LedgerInv, ServedInv', Inv, queue # <<>>, worker = "idle", present, up, NEW topo,
           Settles(pods, queue, cm, topo, claimed), Moves(cm, topo), WillApply(topo),
           queue' = Tail(queue), UNCHANGED pods
    PROVE  LedgerInv'
<1>1. Promised' = topo
    BY DEF WillApply, Promised
<1>2. /\ Accurate(pods, queue') /\ Capacity(pods, queue') /\ Holdings(pods, queue', topo)
      /\ Handover(pods, queue', topo, claimed)
    BY EventSettled
<1>3. QED
    BY <1>1, <1>2 DEF WillApply, LedgerInv, Environment, Boot

\* handleDedicatedGpuPodAddition, with the annotation it may patch onto the pod.
LEMMA AddDedicatedLedger ==
    ASSUME LedgerInv, ServedInv', Inv, Inv', HandleAddDedicated
    PROVE  LedgerInv'
<1> DEFINE e == queue[1]
           topo == DedicatedAddition(cm, e)
<1>1. /\ PodsType(pods) /\ queue \in Seq(PodEvent) /\ claimed \in SUBSET Pods /\ Sound(cm)
      /\ PodsType(pods') /\ queue' \in Seq(PodEvent)
    BY PodsTyped DEF Inv, TypeOK, PodsType
<1>2. queue # <<>> /\ worker = "idle" /\ present /\ up /\ Head(queue) = e
    BY <1>1, TailFacts DEF HandleAddDedicated, TakeEvent
<1>3. e.type = "Add" /\ IsDedicatedGpuPod(e.pod) /\ WillApply(topo) /\ e.pod \in Pods
    BY <1>1, <1>2, TailFacts DEF HandleAddDedicated, TakeEvent, PodEvent
<1>4. /\ Cluster(pods, claimed) /\ Accurate(pods, queue) /\ Capacity(pods, queue)
      /\ Holdings(pods, queue, cm)
    BY <1>2 DEF LedgerInv, Promised
<1>5. Settles(pods, queue, cm, topo, claimed) /\ Moves(cm, topo)
    BY <1>1, <1>2, <1>3, <1>4, AdditionSettles
<1>6. CASE queue' = Tail(queue) /\ UNCHANGED pods
    <2> HIDE DEF topo
    <2>1. QED
        BY <1>2, <1>3, <1>5, <1>6, HandlerLedger
<1>7. ASSUME NEW g, PatchGpuIdx(e.pod, g), pods[e.pod].phase # "Absent"
      PROVE  LedgerInv'
    <2> DEFINE p == e.pod
               q == Tail(queue)
               new == [pods[p] EXCEPT !.idx = g]
    <2>1. /\ q \in Seq(PodEvent) /\ Accurate(pods, q) /\ Capacity(pods, q)
          /\ Holdings(pods, q, topo) /\ Handover(pods, q, topo, claimed)
        BY <1>2, <1>5, EventSettled
    <2>2. pods' = [pods EXCEPT ![p] = new] /\ queue' = q \o Notification(p, pods[p], new)
        BY <1>2, <1>7 DEF PatchGpuIdx, Notify
    <2>3. pods'[p] = new /\ \A o \in Pods : o # p => pods'[o] = pods[o]
        BY <1>1, <1>3, <2>2 DEF PodsType
    <2>4. new \in PodObject /\ new.uid = pods[p].uid /\ new.phase = pods[p].phase
        <3>1. pods[p] \in PodObject /\ new \in PodObject
            BY <1>1, <1>3, <2>3 DEF PodsType
        <3>2. QED
            BY <3>1 DEF PodObject
    <2> HIDE DEF topo, q, new
    <2>5. Evolves(pods[p], new) /\ (new.phase # "Absent" => new.uid \in 1..MaxUid)
        BY <1>1, <1>3, <2>4 DEF Evolves, FilterFunc, PodsType
    <2>6. SameBut(pods, pods', p)
        BY <2>3 DEF SameBut
    <2>7. Watched(pods, q, pods', queue', p)
        BY <1>1, <1>3, <2>1, <2>2, <2>4, <2>5, Observed
    <2>8. Accurate(pods', queue')
        BY <2>7 DEF Watched
    <2>9. LiveNow(pods') = LiveNow(pods)
        BY <2>3, <2>4 DEF LiveNow, FilterFunc
    <2>10. Capacity(pods', queue')
        <3>1. Demand(LiveNow(pods')) <= GpuCount
            BY <1>1, <1>4, <2>9, FewerLive
        <3>2. QED
            BY <1>3, <2>1, <2>7, <3>1, ChangeKeepsCapacity
    <2>11. Holdings(pods', queue', topo)
        <3>1. IsGpuReservationPod(p) /\ pods[p].uid > 0 /\ pods[p].phase = "Absent" => pods'[p].phase = "Absent"
            BY <1>7
        <3>2. QED
            BY <1>1, <1>3, <2>1, <2>6, <2>7, <3>1, ChangeKeepsHoldings
    <2>12. Cluster(pods', claimed)
        <3>1. \A o \in Pods : pods'[o].uid = pods[o].uid /\ pods'[o].phase = pods[o].phase
            BY <2>3, <2>4
        <3>2. QED
            BY <1>4, <3>1 DEF Cluster, FilterFunc
    <2>13. Handover(pods', queue', topo, claimed)
        BY <1>1, <1>3, <2>1, <2>3, <2>4, <2>6, <2>7, <2>12, ChangeKeepsHandover
    <2>14. Promised' = topo /\ worker' = "apply" /\ workerTopo' = topo
           /\ UNCHANGED <<claimed, present, cm, up, prune>>
        BY <1>3 DEF WillApply, Promised
    <2>15. QED
        BY <1>2, <1>5, <2>8, <2>10, <2>11, <2>12, <2>13, <2>14 DEF LedgerInv, Environment, Boot
<1>8. QED
    BY <1>2, <1>6, <1>7 DEF HandleAddDedicated

\* The facts every handler starts from.
LEMMA EventFacts ==
    ASSUME LedgerInv, Inv, queue # <<>>, worker = "idle"
    PROVE  /\ PodsType(pods) /\ queue \in Seq(PodEvent) /\ claimed \in SUBSET Pods
           /\ Sound(cm) /\ cm \in Topology /\ WithinRequest(cm)
           /\ Head(queue) = queue[1] /\ queue[1].pod \in Pods /\ UsageEvent(queue[1]) /\ 1 \in 1..Len(queue)
           /\ Cluster(pods, claimed) /\ Accurate(pods, queue) /\ Holdings(pods, queue, cm)
           /\ Handover(pods, queue, cm, claimed) /\ NestedClaims
           /\ queue[1].type = "Add" => Held(cm, queue[1].pod) = {}
<1>1. /\ PodsType(pods) /\ queue \in Seq(PodEvent) /\ claimed \in SUBSET Pods
      /\ Sound(cm) /\ cm \in Topology /\ WithinRequest(cm)
    BY PodsTyped DEF Inv, Sound
<1>2. /\ Head(queue) = queue[1] /\ queue[1].pod \in Pods /\ UsageEvent(queue[1]) /\ 1 \in 1..Len(queue)
    BY <1>1, TailFacts DEF PodEvent, UsageEvent
<1>3. /\ Cluster(pods, claimed) /\ Accurate(pods, queue) /\ Holdings(pods, queue, cm)
      /\ Handover(pods, queue, cm, claimed) /\ NestedClaims
    BY DEF LedgerInv, Promised, Environment
<1>4. queue[1].type = "Add" => queue[1].pod \notin LivePods(pods, queue, 0)
    BY <1>1, LivePodsHead
<1>5. queue[1].type = "Add" => Held(cm, queue[1].pod) = {}
    BY <1>2, <1>3, <1>4 DEF Holdings
<1>6. QED
    BY <1>1, <1>2, <1>3, <1>5

\* The handlers of sharers, and the refresh of a dedicated pod, leave the owners alone.
LEMMA UsageLedger ==
    ASSUME LedgerInv, ServedInv', Inv,
           HandleUpdateDedicated \/ \E type \in {"Add", "Update", "Delete"} : HandleShared(type)
    PROVE  LedgerInv'
<1> DEFINE e == queue[1]
<1>1. queue # <<>> /\ worker = "idle" /\ present /\ up
    BY DEF HandleUpdateDedicated, HandleShared, TakeEvent
<1>2. CASE HandleUpdateDedicated
    <2> DEFINE topo == RefreshUsage(cm, e)
    <2>1. e.type = "Update" /\ IsDedicatedGpuPod(e.pod) /\ ~IsDraPod(e.pod) /\ WillApply(topo)
          /\ queue' = Tail(queue) /\ UNCHANGED pods
        BY <1>1, <1>2, EventFacts DEF HandleUpdateDedicated, TakeEvent, IsDedicatedGpuPod, IsDraPod
    <2>2. SameOwners(cm, topo)
        <3>1. \A g \in GPU : SameOwners(cm, topo)
            BY <1>1, EventFacts, UsageKeepsOwners
        <3>2. CASE GPU = {}
            BY <3>2 DEF SameOwners
        <3>3. QED
            BY <3>1, <3>2
    <2> HIDE DEF topo
    <2>3. Settles(pods, queue, cm, topo, claimed) /\ Moves(cm, topo)
        BY <1>1, <2>1, <2>2, EventFacts, SettlesSame
    <2>4. QED
        BY <1>1, <2>1, <2>3, HandlerLedger
<1>3. ASSUME NEW type \in {"Add", "Update", "Delete"}, HandleShared(type) PROVE LedgerInv'
    <2>1. PICK g \in GPU :
              /\ IsSharedGpuPod(e.pod)
              /\ WillApply(IF type = "Delete" THEN DropSharedUsage(cm, g, e) ELSE SetSharedUsage(cm, g, e))
        BY <1>1, <1>3, EventFacts DEF HandleShared
    <2> DEFINE topo == IF type = "Delete" THEN DropSharedUsage(cm, g, e) ELSE SetSharedUsage(cm, g, e)
    <2>2. SameOwners(cm, topo)
        BY <1>1, EventFacts, UsageKeepsOwners
    <2>3. Held(cm, e.pod) = {} /\ ~IsDedicatedGpuPod(e.pod) /\ ~IsDraPod(e.pod)
        BY <1>1, <2>1, EventFacts DEF WithinRequest, IsSharedGpuPod, IsDedicatedGpuPod, IsDraPod
    <2>4. WillApply(topo) /\ queue' = Tail(queue) /\ UNCHANGED pods
        BY <1>3, <2>1 DEF HandleShared
    <2> HIDE DEF topo
    <2>5. Settles(pods, queue, cm, topo, claimed) /\ Moves(cm, topo)
        BY <1>1, <2>2, <2>3, EventFacts, SettlesSame
    <2>6. QED
        BY <1>1, <2>4, <2>5, HandlerLedger
<1>4. QED
    BY <1>2, <1>3

\* The handlers of DRA pods.
LEMMA DraLedger ==
    ASSUME LedgerInv, ServedInv', Inv, HandleAddDra \/ HandleUpdateDra
    PROVE  LedgerInv'
<1> DEFINE e == queue[1]
           devices == ClaimDevices(e.pod)
<1>1. queue # <<>> /\ worker = "idle" /\ present /\ up
    BY DEF HandleAddDra, HandleUpdateDra, TakeEvent
<1>2. /\ e.type # "Delete" /\ IsDraPod(e.pod) /\ ~IsDedicatedGpuPod(e.pod)
      /\ e.uid = pods[e.pod].uid \/ Held(cm, e.pod) # {}
      /\ queue' = Tail(queue) /\ UNCHANGED pods
    BY <1>1, EventFacts DEF HandleAddDra, HandleUpdateDra, TakeEvent, ClaimsRead, IsDraPod, IsDedicatedGpuPod
<1>3. WillApply(IF Held(cm, e.pod) = {} THEN DraAllocation(cm, e, devices) ELSE RefreshUsage(cm, e))
    <2>1. CASE HandleAddDra
        BY <1>1, <2>1, EventFacts DEF HandleAddDra, TakeEvent, DraAddition
    <2>2. CASE HandleUpdateDra
        BY <1>1, <2>2, EventFacts DEF HandleUpdateDra, DraUpdate
    <2>3. QED
        BY <2>1, <2>2
<1>4. CASE Held(cm, e.pod) = {}
    <2> DEFINE topo == DraAllocation(cm, e, devices)
    <2>1. devices = IF e.pod \in claimed THEN Claim[e.pod] ELSE {}
        BY DEF ClaimDevices
    <2>2. Settles(pods, queue, cm, topo, claimed) /\ Moves(cm, topo)
        BY <1>1, <1>2, <1>4, <2>1, EventFacts, DraAllocationSettles
    <2> HIDE DEF topo
    <2>3. WillApply(topo)
        BY <1>3, <1>4 DEF topo
    <2>4. QED
        BY <1>1, <1>2, <2>2, <2>3, HandlerLedger
<1>5. CASE Held(cm, e.pod) # {}
    <2> DEFINE topo == RefreshUsage(cm, e)
    <2>1. SameOwners(cm, topo)
        <3>1. PICK g \in GPU : TRUE
            BY <1>5 DEF Held
        <3>2. QED
            BY <1>1, EventFacts, UsageKeepsOwners
    <2>2. Held(cm, e.pod) = Claim[e.pod]
        BY <1>1, <1>2, <1>5, EventFacts DEF Holdings
    <2>3. WillApply(topo)
        BY <1>3, <1>5
    <2> HIDE DEF topo
    <2>4. Settles(pods, queue, cm, topo, claimed) /\ Moves(cm, topo)
        BY <1>1, <1>2, <2>1, <2>2, EventFacts, SettlesSame
    <2>5. QED
        BY <1>1, <1>2, <2>3, <2>4, HandlerLedger
<1>6. QED
    BY <1>4, <1>5

\* handleDedicatedGpuPodDeletion and handleDraGpuPodDeletion.
LEMMA DeleteLedger ==
    ASSUME LedgerInv, ServedInv', Inv, HandleDeleteOwner
    PROVE  LedgerInv'
<1> DEFINE p == queue[1].pod
           topo == Release(cm, p)
<1>1. queue # <<>> /\ worker = "idle" /\ present /\ up
    BY DEF HandleDeleteOwner, TakeEvent
<1>2. /\ queue[1].type = "Delete" /\ p \in Pods /\ WillApply(topo)
      /\ queue' = Tail(queue) /\ UNCHANGED pods
    BY <1>1, EventFacts DEF HandleDeleteOwner, TakeEvent
<1>3. /\ Moves(cm, topo) /\ Held(topo, p) = {}
      /\ \A o \in Pods : o # p => Held(topo, o) = Held(cm, o)
    BY <1>2, ReleaseEffect
<1> HIDE DEF topo
<1>4. Settles(pods, queue, cm, topo, claimed)
    BY <1>2, <1>3 DEF Settles
<1>5. QED
    BY <1>1, <1>2, <1>3, <1>4, HandlerLedger

\* The errors of the handlers: an event that is dropped had nothing left to do, or
\* its pod is gone by now.
LEMMA DropLedger ==
    ASSUME LedgerInv, ServedInv', Inv, DropEvent
    PROVE  LedgerInv'
<1> DEFINE e == queue[1]
           p == e.pod
<1>1. /\ queue # <<>> /\ worker = "idle" /\ queue' = Tail(queue)
      /\ UNCHANGED <<pods, claimed, present, cm, up, worker, workerTopo, prune>>
    BY DEF DropEvent
<1>2. p \in Pods /\ pods[p].uid > 0
    <2>1. queue[1] \in PodEvent /\ queue[1].uid <= pods[p].uid /\ p \in Pods /\ pods[p].uid \in 0..MaxUid
        BY <1>1, EventFacts DEF Accurate, PodsType, PodObject
    <2>2. queue[1].uid >= 1 /\ queue[1].uid \in Int
        BY <2>1 DEF PodEvent
    <2>3. QED
        BY <2>1, <2>2, NodeTopologyAssumption
<1>3. IsDraPod(p) /\ e.type # "Delete" /\ pods[p].phase = "Running" /\ Later(queue, p, 1) = {} =>
          p \in claimed /\ e.uid = pods[p].uid
    BY <1>1, <1>2, EventFacts DEF Accurate, Cluster, FilterFunc, LivePhase
<1>4. HandlerFails(e)
    BY <1>1, EventFacts DEF DropEvent
<1>5. CASE ~present
    <2>1. cm = FreshTopology /\ claimed = {} /\ IsDraPod(p)
        BY <1>2, <1>5 DEF LedgerInv, Boot, OnlyLatePods
    <2>2. Held(cm, p) = {} /\ ~IsDedicatedGpuPod(p)
        BY <1>2, <2>1, FreshHeld DEF IsDraPod, IsDedicatedGpuPod
    <2>3. SameOwners(cm, cm)
        BY DEF SameOwners
    <2>4. Settles(pods, queue, cm, cm, claimed)
        BY <1>1, <1>3, <2>1, <2>2, <2>3, EventFacts, SettlesSame
    <2>5. QED
        BY <1>1, <2>4, EventSettled DEF LedgerInv, Environment, Boot, Promised
<1>6. CASE present
    <2>1. e.type = "Delete" => Held(cm, p) = {}
        BY <1>1, <1>2, <1>4, <1>6, EventFacts DEF HandlerFails, WithinRequest
    <2>2. /\ e.type # "Delete" /\ IsDraPod(p) /\ pods[p].phase = "Running" /\ Later(queue, p, 1) = {}
          => Held(cm, p) = Claim[p]
        BY <1>3, <1>4, <1>6 DEF HandlerFails, ClaimsMissing, NeedsGpuIdx,
           IsDraPod, IsSharedGpuPod, IsGpuReservationPod
    <2>3. e.type = "Add" /\ IsDedicatedGpuPod(p) => Full(pods, cm, p)
        <3>1. SUFFICES ASSUME e.type = "Add", IsDedicatedGpuPod(p) PROVE Full(pods, cm, p)
            OBVIOUS
        <3>2. Held(cm, p) = {}
            BY <1>1, <3>1, EventFacts
        <3>3. /\ IsGpuReservationPod(p)
              /\ pods[p].phase = "Absent" \/ HeldByName(DedicatedAddition(cm, e), NameOf[p]) = {}
            BY <1>4, <1>6, <3>1 DEF HandlerFails, NeedsGpuIdx, IsDedicatedGpuPod, IsSharedGpuPod, IsDraPod
        <3>4. CASE pods[p].phase = "Absent"
            BY <3>2, <3>3, <3>4 DEF Full
        <3>5. CASE HeldByName(DedicatedAddition(cm, e), NameOf[p]) = {}
            <4> DEFINE new == DedicatedAddition(cm, e)
            <4>1. Cardinality(Held(new, p)) = Request[p]
                <5>1. Capacity(pods, queue)
                    BY DEF LedgerInv
                <5>2. QED
                    BY <1>1, <3>1, <5>1, EventFacts, AdditionSettles
            <4>2. Held(new, p) \subseteq HeldByName(new, NameOf[p])
                BY <1>2 DEF Held, HeldByName
            <4>3. Held(new, p) = {}
                BY <3>5, <4>2
            <4>4. QED
                BY <3>2, <4>1, <4>3 DEF Full
        <3>6. QED
            BY <3>3, <3>4, <3>5
    <2>4. SameOwners(cm, cm)
        BY DEF SameOwners
    <2>5. Settles(pods, queue, cm, cm, claimed)
        BY <1>1, <2>1, <2>2, <2>3, <2>4, EventFacts, SettlesSame
    <2>6. QED
        BY <1>1, <1>6, <2>5, EventSettled DEF LedgerInv, Environment, Boot, Promised
<1>7. QED
    BY <1>5, <1>6

\* The Apply of the worker's copy.
LEMMA ApplyLedger ==
    ASSUME LedgerInv, ServedInv', PodApply
    PROVE  LedgerInv'
<1>1. present /\ Promised' = Promised /\ worker' = "idle" /\ present'
    BY DEF PodApply, Promised, LedgerInv, ServedInv
<1>2. QED
    BY <1>1 DEF PodApply, LedgerInv, Environment, Boot
-----------------------------------------------------------------------------
(* The other steps                                                         *)

\* The goroutine of the initial list creates the ConfigMap, if anything.
LEMMA NodeTaskLedger ==
    ASSUME LedgerInv, ServedInv', Inv, NodeTaskStep
    PROVE  LedgerInv'
<1>1. PICK t \in tasks :
          TaskGet(t) \/ TaskCreate(t) \/ TaskLabel(t) \/ TaskDelete(t) \/ TaskUnlabel(t)
    BY DEF NodeTaskStep
<1>2. UNCHANGED <<pods, claimed, up, queue, worker, workerTopo, prune>>
    BY DEF NodeTaskStep
<1>3. t.pc \in {"get", "create", "label"} /\ up /\ prune = "done"
    BY <1>1 DEF LedgerInv, ServedInv
<1>4. /\ cm' = cm
      /\ present' = present \/ present'
    BY <1>1, <1>3 DEF TaskGet, TaskCreate, TaskLabel, TaskDelete, TaskUnlabel, LedgerInv, Boot
<1>5. Promised' = Promised
    BY <1>2, <1>4 DEF Promised
<1>6. present => present'
    BY <1>4
<1>7. QED
    BY <1>2, <1>3, <1>4, <1>5, <1>6 DEF LedgerInv, Environment, Boot

\* The prune pass of the first start finds no ConfigMap.
LEMMA PruneLedger ==
    ASSUME LedgerInv, ServedInv', Prune
    PROVE  LedgerInv'
<1>1. PruneList /\ ~present /\ EndPrune
    BY DEF Prune, PruneList, PruneDelete, PruneCheck, PruneApply, LedgerInv, Boot
<1>2. /\ prune' = "done"
      /\ UNCHANGED <<pods, claimed, present, cm, up, queue, worker, workerTopo>>
    BY <1>1 DEF PruneList, EndPrune
<1>3. QED
    BY <1>1, <1>2 DEF LedgerInv, Environment, Boot, Promised

\* The initial list of the pod informer reports every live pod once.
LEMMA StartAccurate ==
    ASSUME PodsType(pods), Start, queue' \in Seq(PodEvent)
    PROVE  Accurate(pods, queue')
<1> DEFINE S == {p \in Pods : FilterFunc(pods[p])}
           q == queue'
<1>1. PICK order \in SetToSeqs(S) :
          q = [i \in DOMAIN order |-> Event("Add", order[i], pods[order[i]])]
    BY DEF Start
<1>2. PICK n \in Nat : order \in [1..n -> S] /\ \A i, j \in 1..n : i # j => order[i] # order[j]
    <2>1. Cardinality(S) \in Nat
        BY NodeTopologyAssumption, FS_Subset, FS_CardinalityType
    <2>2. QED
        BY <1>1, <2>1 DEF SetToSeqs
<1>3. /\ Len(q) = n
      /\ \A i \in 1..n : q[i] = Event("Add", order[i], pods[order[i]])
    <2>1. DOMAIN order = 1..n
        BY <1>2
    <2>2. DOMAIN q = 1..n /\ DOMAIN q = 1..Len(q) /\ Len(q) \in Nat
        BY <1>1, <2>1
    <2>3. QED
        BY <1>1, <2>1, <2>2
<1>4. ASSUME NEW i \in 1..n
      PROVE  /\ order[i] \in S /\ q[i].pod = order[i] /\ q[i].type = "Add"
             /\ q[i].uid = pods[order[i]].uid /\ q[i].phase = pods[order[i]].phase
             /\ Later(q, order[i], i) = {}
    <2>1. \A j \in 1..n : q[j].pod = order[j]
        BY <1>3 DEF Event
    <2>2. Later(q, order[i], i) = {}
        <3>1. ASSUME NEW j \in Later(q, order[i], i) PROVE FALSE
            <4>1. j \in 1..n /\ j # i /\ q[j].pod = order[i]
                BY <1>3 DEF Later
            <4>2. QED
                BY <1>2, <2>1, <4>1
        <3>2. QED
            BY <3>1
    <2>3. QED
        BY <1>2, <1>3, <2>2 DEF Event
<1> HIDE DEF q
<1>5. ASSUME NEW i \in 1..n
      PROVE  LET e == q[i]
             IN  /\ e.uid <= pods[e.pod].uid
                 /\ e.type # "Delete" <=> e.pod \in LivePods(pods, q, i)
                 /\ Later(q, e.pod, i) = {} /\ e.type # "Delete" =>
                        e.uid = pods[e.pod].uid /\ e.phase = pods[e.pod].phase
                 /\ e.uid = pods[e.pod].uid /\ pods[e.pod].phase \in LivePhase
                        /\ e.phase = "Running" => pods[e.pod].phase = "Running"
    <2>1. pods[order[i]].phase \in LivePhase /\ order[i] \in Pods /\ pods[order[i]].uid \in 1..MaxUid
        BY <1>4 DEF FilterFunc, PodsType, LivePhase
    <2>2. order[i] \in LivePods(pods, q, i)
        BY <1>4, <2>1 DEF LivePods
    <2>3. QED
        BY <1>4, <2>1, <2>2
<1>6. QED
    BY <1>3, <1>5 DEF Accurate, q

\* The first start finds no ConfigMap, and lists pods that wait for their claims.
LEMMA StartLedger ==
    ASSUME LedgerInv, ServedInv', Inv, Inv', Start
    PROVE  LedgerInv'
<1>1. PodsType(pods) /\ queue' \in Seq(PodEvent)
    BY PodsTyped DEF Inv, TypeOK
<1>2. ~present /\ cm = FreshTopology /\ worker = "idle" /\ claimed = {} /\ OnlyLatePods(pods)
    BY DEF Start, LedgerInv, Boot
<1>3. UNCHANGED <<pods, claimed, present, cm, worker, workerTopo>> /\ prune' = "list" /\ up'
    BY DEF Start
<1>4. Accurate(pods, queue')
    BY <1>1, StartAccurate
<1>5. Cluster(pods, {})
    BY <1>2 DEF LedgerInv
<1>6. Capacity(pods, queue') /\ Holdings(pods, queue', FreshTopology)
      /\ Handover(pods, queue', FreshTopology, {})
    BY <1>1, <1>2, <1>4, <1>5, Blank
<1>7. QED
    BY <1>2, <1>3, <1>4, <1>5, <1>6 DEF LedgerInv, Environment, Boot, Promised

\* The initial state: a labelled node without pods.
LEMMA InitLedger == Init /\ Environment => LedgerInv
<1> SUFFICES ASSUME Init, Environment PROVE LedgerInv
    OBVIOUS
<1>1. PodsType(pods) /\ queue \in Seq(PodEvent) /\ queue = <<>>
    BY InitInv, PodsTyped DEF Inv, Init
<1>2. pods = [p \in Pods |-> [uid |-> 0, phase |-> "Absent", idx |-> 0]] /\ claimed = {}
    BY DEF Init
<1>3. OnlyLatePods(pods) /\ Cluster(pods, {})
    BY <1>2 DEF OnlyLatePods, Cluster, FilterFunc, LivePhase
<1>4. Accurate(pods, queue)
    BY <1>1 DEF Accurate
<1>5. Capacity(pods, queue) /\ Holdings(pods, queue, FreshTopology)
      /\ Handover(pods, queue, FreshTopology, {})
    BY <1>1, <1>3, <1>4, Blank
<1>6. ServedInv
    BY DEF Init, ServedInv
<1>7. QED
    BY <1>1, <1>2, <1>3, <1>4, <1>5, <1>6 DEF Init, LedgerInv, Boot, Promised

\* Every undisturbed step keeps the invariant.
LEMMA LedgerStep == LedgerInv /\ Inv /\ Undisturbed' /\ [Next]_vars => LedgerInv'
<1> SUFFICES ASSUME LedgerInv, Inv, Undisturbed', [Next]_vars PROVE LedgerInv'
    OBVIOUS
<1>1. Inv' /\ ServedInv'
    BY NextInv, ServedStep DEF LedgerInv, Undisturbed
<1>2. restarts \in Nat /\ nodeEvents \in Nat /\ faults \in Nat
    BY DEF Inv, TypeOK
<1>3. ASSUME NEW p \in Pods,
             \/ BindPod(p) \/ AllocateClaim(p) \/ StartPod(p)
             \/ FinishPod(p) \/ RemovePod(p) \/ ReleaseClaim(p)
      PROVE  LedgerInv'
    BY <1>1, <1>3, BindPodLedger, AgingLedger, ClaimLedger
<1>4. ASSUME NEW p \in Pods, RemovePodUnseen(p) PROVE FALSE
    BY <1>2, <1>4 DEF RemovePodUnseen, Undisturbed, NodeUndisturbed
<1>5. ASSUME NEW new, ChangeNode(new) PROVE FALSE
    BY <1>2, <1>5 DEF ChangeNode, Undisturbed, NodeUndisturbed
<1>6. CASE PodWorker
    BY <1>1, <1>6, AddDedicatedLedger, DraLedger, UsageLedger, DeleteLedger, DropLedger, ApplyLedger
       DEF PodWorker
<1>7. CASE PodCallFails \/ NodeCallFails \/ PruneCallFails
    BY <1>2, <1>7 DEF PodCallFails, NodeCallFails, PruneCallFails, Undisturbed, NodeUndisturbed
<1>8. CASE Crash
    BY <1>2, <1>8 DEF Crash, Undisturbed
<1>9. CASE NodeTaskStep \/ Prune \/ Start
    BY <1>1, <1>9, NodeTaskLedger, PruneLedger, StartLedger
<1>10. CASE UNCHANGED vars
    BY <1>1, <1>10 DEF vars, LedgerInv, Environment, Boot, Promised
<1>11. QED
    BY <1>3, <1>4, <1>5, <1>6, <1>7, <1>8, <1>9, <1>10 DEF Next

\* The invariant holds as long as nothing disturbs the status updater.
LEMMA LedgerHolds == Environment /\ Spec /\ []Undisturbed => []LedgerInv
BY InitLedger, LedgerStep, Invariance, PTL DEF Spec
-----------------------------------------------------------------------------
(* What it means for the readers                                           *)

\* While nothing disturbs it, every settled pod has all its GPUs: the allocation on
\* the addition of a pod never falls short, because deletions come before the
\* additions they make room for.
THEOREM AllocationAlwaysComplete ==
    Environment /\ Spec /\ []Undisturbed => []AllocationComplete
<1>1. LedgerInv /\ Inv => AllocationComplete
    <2> SUFFICES ASSUME LedgerInv, Inv, Quiescent, NEW p \in Pods, Alive(p)
                 PROVE  Entitled(p, Held(cm, p))
        BY DEF AllocationComplete
    <2>1. Holdings(pods, queue, cm) /\ queue = <<>>
        BY DEF LedgerInv, Quiescent, Promised
    <2>2. Later(queue, p, 0) = {} /\ p \in LivePods(pods, queue, 0)
        BY <2>1 DEF Later, LivePods, Alive
    <2>3. IsDedicatedGpuPod(p) => Cardinality(Held(cm, p)) = Request[p]
        BY <2>1, <2>2 DEF Holdings, Full, Alive, LivePhase
    <2>4. IsDraPod(p) /\ pods[p].phase = "Running" => Held(cm, p) = Claim[p]
        BY <2>1, <2>2 DEF Holdings
    <2>5. IsSharedGpuPod(p) => Held(cm, p) = {}
        BY DEF Inv, Sound, WithinRequest
    <2>6. Kind[p] \in Kinds
        BY NodeTopologyAssumption
    <2>7. QED
        BY <2>3, <2>4, <2>5, <2>6 DEF Entitled, Kinds, IsDedicatedGpuPod, IsDraPod, IsSharedGpuPod
<1>2. QED
    BY LedgerHolds, <1>1, Invariance, PTL

\* An undisturbed step writes the worker's copy or leaves the ConfigMap's content alone.
LEMMA WritesMove ==
    ASSUME LedgerInv, Inv, Undisturbed', [Next]_vars
    PROVE  cm' = cm \/ Moves(cm, cm')
<1>1. restarts \in Nat /\ nodeEvents \in Nat /\ faults \in Nat
    BY DEF Inv, TypeOK
<1>2. ASSUME NEW p \in Pods,
             \/ BindPod(p) \/ AllocateClaim(p) \/ StartPod(p)
             \/ FinishPod(p) \/ RemovePod(p) \/ RemovePodUnseen(p) \/ ReleaseClaim(p)
      PROVE  cm' = cm
    BY <1>2 DEF BindPod, AllocateClaim, StartPod, FinishPod, RemovePod, RemovePodUnseen, ReleaseClaim,
                ChangePod
<1>3. ASSUME NEW new, ChangeNode(new) PROVE cm' = cm
    BY <1>3 DEF ChangeNode
<1>4. CASE PodWorker
    <2>1. CASE PodApply
        BY <2>1 DEF PodApply, LedgerInv
    <2>2. CASE DropEvent
        BY <2>2 DEF DropEvent
    <2>3. CASE ~PodApply /\ ~DropEvent
        BY <1>4, <2>3 DEF PodWorker, HandleAddDedicated, HandleShared, HandleAddDra,
               HandleUpdateDedicated, HandleUpdateDra, HandleDeleteOwner, WillApply
    <2>4. QED
        BY <2>1, <2>2, <2>3
<1>5. CASE PodCallFails \/ NodeCallFails \/ PruneCallFails \/ Crash
    BY <1>1, <1>5 DEF PodCallFails, NodeCallFails, PruneCallFails, Crash, Undisturbed, NodeUndisturbed
<1>6. CASE NodeTaskStep
    <2>1. PICK t \in tasks :
              TaskGet(t) \/ TaskCreate(t) \/ TaskLabel(t) \/ TaskDelete(t) \/ TaskUnlabel(t)
        BY <1>6 DEF NodeTaskStep
    <2>2. t.pc \in {"get", "create", "label"}
        BY DEF LedgerInv, ServedInv
    <2>3. QED
        BY <2>1, <2>2 DEF TaskGet, TaskCreate, TaskLabel, TaskDelete, TaskUnlabel, LedgerInv, Boot
<1>7. CASE Prune
    BY <1>7 DEF Prune, PruneList, PruneDelete, PruneCheck, PruneApply, LedgerInv, Boot
<1>8. CASE Start
    BY <1>8 DEF Start
<1>9. CASE UNCHANGED vars
    BY <1>9 DEF vars
<1>10. QED
    BY <1>2, <1>3, <1>4, <1>5, <1>6, <1>7, <1>8, <1>9 DEF Next

\* While nothing disturbs it the ConfigMap is an allocation ledger: whole grants,
\* whole releases, and no GPU changes hands without being free in between.
THEOREM LedgerImplemented ==
    Environment /\ Spec /\ []Undisturbed => ImplementsLedger
<1> DEFINE owner == [g \in GPU |-> cm[g].by]
           owner2 == [g \in GPU |-> cm'[g].by]
<1>1. Init => Ledger!LedgerInit
    BY EmptyStatusType DEF Init, FreshTopology, Ledger!LedgerInit
<1>2. LedgerInv /\ Inv /\ Undisturbed' /\ [Next]_vars => [Ledger!LedgerNext]_owner
    <2> SUFFICES ASSUME LedgerInv, Inv, Undisturbed', [Next]_vars
                 PROVE  Ledger!LedgerNext \/ owner2 = owner
        OBVIOUS
    <2>1. CASE \A g \in GPU : cm'[g].by = cm[g].by
        BY <2>1
    <2>2. ASSUME NEW p \in Pods, \A g \in GPU : cm'[g].by = IF cm[g].by = p THEN NoPod ELSE cm[g].by
          PROVE  Ledger!LedgerNext
        <3>1. owner2 = [g \in GPU |-> IF owner[g] = p THEN NoPod ELSE owner[g]]
            BY <2>2
        <3>2. Ledger!GiveBack(p)
            BY <3>1 DEF Ledger!GiveBack
        <3>3. QED
            BY <3>2 DEF Ledger!LedgerNext
    <2>3. ASSUME NEW p \in Pods, Held(cm, p) = {}, NEW S \in SUBSET Free(cm),
                 IF IsDraPod(p) THEN S = Claim[p] ELSE Cardinality(S) = Request[p],
                 \A g \in GPU : cm'[g].by = IF g \in S THEN p ELSE cm[g].by
          PROVE  Ledger!LedgerNext
        <3>1. owner2 = [g \in GPU |-> IF g \in S THEN p ELSE owner[g]]
            BY <2>3
        <3>2. {g \in GPU : owner[g] = p} = {} /\ S \subseteq {g \in GPU : owner[g] = NoPod}
              /\ S \in SUBSET GPU
            BY <2>3 DEF Held, Free
        <3>3. Ledger!Acquire(p)
            BY <2>3, <3>1, <3>2 DEF Ledger!Acquire, Ledger!OwnedBy
        <3>4. QED
            BY <3>3 DEF Ledger!LedgerNext
    <2>4. cm' = cm \/ Moves(cm, cm')
        BY WritesMove
    <2>5. QED
        BY <2>1, <2>2, <2>3, <2>4 DEF Moves
<1>3. QED
    BY LedgerHolds, Invariance, <1>1, <1>2, PTL DEF Spec, ImplementsLedger, Ledger!LedgerSpec
=============================================================================
