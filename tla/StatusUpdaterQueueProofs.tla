------------------------ MODULE StatusUpdaterQueueProofs ------------------------
(***************************************************************************)
(* Groundwork for what the status updater owes its readers while nothing   *)
(* disturbs it: counting GPUs, what the informer's queue still has to      *)
(* report, and the life of the ConfigMap of a labelled node.               *)
(***************************************************************************)
EXTENDS StatusUpdaterProofs

USE DEF api, configMap, podController, pruner, nodeController, bounds
-----------------------------------------------------------------------------
(* Counting GPUs                                                           *)

\* An interval that starts at 1.
LEMMA IntervalSize ==
    ASSUME NEW n \in Nat
    PROVE  IsFiniteSet(1..n) /\ Cardinality(1..n) = n
<1>1. IsFiniteSet(1..n) /\ Cardinality(1..n) = IF 1 > n THEN 0 ELSE n - 1 + 1
    BY FS_Interval
<1>2. QED
    BY <1>1

\* The slots of finitely many pods can be counted, and fewer pods have fewer.
LEMMA SlotsFinite ==
    ASSUME NEW S \in SUBSET Pods
    PROVE  IsFiniteSet(Slots(S)) /\ Demand(S) \in Nat
<1> DEFINE D == {q \in S : IsDedicatedGpuPod(q)}
           f == [p \in D |-> {p} \X (1..Request[p])]
           R == {{p} \X (1..Request[p]) : p \in D}
<1>1. IsFiniteSet(D)
    BY NodeTopologyAssumption, FS_Subset
<1>2. f \in Surjection(D, R)
    BY DEF Surjection
<1>3. IsFiniteSet(R)
    <2> HIDE DEF D, R, f
    <2>1. QED
        BY <1>1, <1>2, FS_Surjection
<1>4. ASSUME NEW p \in D PROVE IsFiniteSet({p} \X (1..Request[p]))
    <2>0. Request[p] \in Nat
        BY NodeTopologyAssumption
    <2>1. IsFiniteSet({p}) /\ IsFiniteSet(1..Request[p])
        BY <2>0, FS_Singleton, IntervalSize
    <2>2. QED
        BY <2>1, FS_Product
<1>5. \A T \in R : IsFiniteSet(T)
    BY <1>4
<1>6. IsFiniteSet(UNION R)
    <2> HIDE DEF R
    <2>1. QED
        BY <1>3, <1>5, FS_UNION
<1>7. QED
    BY <1>6, FS_CardinalityType DEF Slots, Demand

\* Fewer pods request no more.
LEMMA DemandMonotone ==
    ASSUME NEW S \in SUBSET Pods, NEW T \in SUBSET S
    PROVE  Demand(T) <= Demand(S)
<1>1. Slots(T) \subseteq Slots(S)
    BY DEF Slots
<1>2. QED
    BY <1>1, SlotsFinite, FS_Subset DEF Demand

\* One more pod of the device plugin adds what it requests.
LEMMA DemandGrows ==
    ASSUME NEW S \in SUBSET Pods, NEW p \in Pods, p \notin S, IsDedicatedGpuPod(p)
    PROVE  Demand(S \cup {p}) = Demand(S) + Request[p]
<1> DEFINE P == {p} \X (1..Request[p])
<1>1. Slots(S \cup {p}) = Slots(S) \cup P
    BY DEF Slots
<1>2. Slots(S) \cap P = {}
    BY DEF Slots
<1>3. IsFiniteSet(P) /\ Cardinality(P) = Request[p]
    <2>0. Request[p] \in Nat
        BY NodeTopologyAssumption
    <2>1. /\ IsFiniteSet({p}) /\ Cardinality({p}) = 1
          /\ IsFiniteSet(1..Request[p]) /\ Cardinality(1..Request[p]) = Request[p]
        BY <2>0, FS_Singleton, IntervalSize
    <2>2. IsFiniteSet(P) /\ Cardinality(P) = 1 * Request[p]
        BY <2>1, FS_Product
    <2>3. QED
        BY <2>0, <2>2
<1>4. IsFiniteSet(Slots(S)) /\ Cardinality(Slots(S)) \in Nat
    BY SlotsFinite DEF Demand
<1>5. Cardinality(Slots(S) \cup P) = Cardinality(Slots(S)) + Cardinality(P)
    <2> HIDE DEF P
    <2>1. Cardinality(Slots(S) \cap P) = 0
        BY <1>2, FS_EmptySet
    <2>2. Cardinality(P) \in Nat
        BY <1>3, NodeTopologyAssumption
    <2>3. Cardinality(Slots(S) \cup P) =
              Cardinality(Slots(S)) + Cardinality(P) - Cardinality(Slots(S) \cap P)
        BY <1>3, <1>4, FS_Union
    <2>4. QED
        BY <1>4, <2>1, <2>2, <2>3
<1>6. QED
    BY <1>1, <1>3, <1>5 DEF Demand

\* A set within n elements maps one to one into 1..n.
LEMMA Numbered ==
    ASSUME NEW S \in SUBSET GPU, NEW n \in Nat, Cardinality(S) <= n
    PROVE  Injection(S, 1..n) # {}
<1> DEFINE c == Cardinality(S)
<1>1. IsFiniteSet(S) /\ c \in Nat
    BY GpuFinite
<1>2. IsFiniteSet(1..c) /\ Cardinality(1..c) = c
    BY <1>1, FS_Interval
<1>3. ExistsBijection(S, 1..c)
    BY <1>1, <1>2, FS_SameCardinalityBij
<1>4. PICK f : f \in Injection(S, 1..c)
    BY <1>3 DEF ExistsBijection, Bijection
<1>5. 1..c \subseteq 1..n
    BY <1>1
<1>6. f \in Injection(S, 1..n)
    <2> HIDE DEF c
    <2>1. QED
        BY <1>4, <1>5 DEF Injection
<1>7. QED
    BY <1>6

\* Pods that hold no more than they request hold no more than they demand.
LEMMA UsedWithinDemand ==
    ASSUME NEW topo \in Topology, WithinRequest(topo), NEW S \in SUBSET Pods,
           \A g \in GPU : topo[g].by # NoPod =>
                              topo[g].by \in S /\ IsDedicatedGpuPod(topo[g].by)
    PROVE  Cardinality(GPU \ Free(topo)) <= Demand(S)
<1> DEFINE used == GPU \ Free(topo)
           number(p) == CHOOSE f : f \in Injection(Held(topo, p), 1..Request[p])
           slot == [g \in used |-> <<topo[g].by, number(topo[g].by)[g]>>]
<1>1. ASSUME NEW g \in used
      PROVE  /\ topo[g].by \in S /\ IsDedicatedGpuPod(topo[g].by)
             /\ g \in Held(topo, topo[g].by)
    BY DEF Free, Held
<1>2. ASSUME NEW p \in Pods, IsDedicatedGpuPod(p)
      PROVE  number(p) \in Injection(Held(topo, p), 1..Request[p])
    <2>1. Held(topo, p) \in SUBSET GPU /\ Request[p] \in Nat
        BY NodeTopologyAssumption DEF Held
    <2>2. Cardinality(Held(topo, p)) <= Request[p]
        BY <1>2 DEF WithinRequest
    <2>3. QED
        BY <2>1, <2>2, Numbered
<1>3. slot \in Injection(used, Slots(S))
    <2> HIDE DEF number
    <2>1. ASSUME NEW g \in used PROVE slot[g] \in Slots(S)
        <3>1. number(topo[g].by)[g] \in 1..Request[topo[g].by]
            BY <1>1, <1>2 DEF Injection
        <3>2. QED
            BY <1>1, <3>1 DEF Slots
    <2>2. ASSUME NEW g \in used, NEW h \in used, slot[g] = slot[h] PROVE g = h
        <3>1. topo[g].by = topo[h].by /\ number(topo[g].by)[g] = number(topo[g].by)[h]
            BY <2>2
        <3>2. number(topo[g].by) \in Injection(Held(topo, topo[g].by), 1..Request[topo[g].by])
            BY <1>1, <1>2
        <3>3. g \in Held(topo, topo[g].by) /\ h \in Held(topo, topo[g].by)
            BY <1>1, <3>1
        <3>4. QED
            BY <3>1, <3>2, <3>3 DEF Injection, IsInjective
    <2>3. QED
        BY <2>1, <2>2 DEF Injection, IsInjective
<1>4. QED
    <2> HIDE DEF slot, used
    <2>1. QED
        BY <1>3, SlotsFinite, FS_Injection DEF Demand, used

\* The allocation loop of handleDedicatedGpuPodAddition finds all the GPUs of a
\* request that the free GPUs suffice for.
LEMMA FirstFreeExact ==
    ASSUME NEW topo, NEW n \in Nat, n <= Cardinality(Free(topo))
    PROVE  Cardinality(FirstFree(topo, n)) = n
<1> DEFINE F == FirstFree(topo, n)
           Upto(g) == {h \in Free(topo) : h <= g}
<1>1. F \subseteq Free(topo) /\ Free(topo) \subseteq GPU
    BY DEF FirstFree, Free
<1>2. Cardinality(F) <= n /\ Cardinality(F) \in Nat
    BY <1>1, FirstFreeBound, GpuFinite
<1>3. CASE F = Free(topo)
    BY <1>2, <1>3
<1>4. CASE F # Free(topo)
    <2>1. Free(topo) \ F \in SUBSET Nat /\ Free(topo) \ F # {}
        BY <1>1, <1>4, NodeTopologyAssumption DEF GPU
    <2>2. PICK m \in Free(topo) \ F : \A h \in Free(topo) \ F : m <= h
        <3> HIDE DEF F
        <3>1. QED
            BY <2>1, NatMinimum
    <2>3. /\ Upto(m) \in SUBSET GPU /\ m \in Upto(m)
          /\ IsFiniteSet(Upto(m)) /\ Cardinality(Upto(m)) \in Nat
        <3>1. m \in GPU /\ m <= m
            BY <1>1, NodeTopologyAssumption DEF GPU
        <3>2. QED
            BY <1>1, <3>1, GpuFinite
    <2>4. ~(Cardinality(Upto(m)) <= n)
        BY <2>2 DEF FirstFree
    <2>5. Upto(m) \ {m} \subseteq F
        <3>1. ASSUME NEW h \in Upto(m) \ {m}, h \notin F PROVE FALSE
            <4>1. m <= h /\ h <= m /\ h \in GPU /\ m \in GPU
                BY <1>1, <2>2, <3>1
            <4>2. QED
                BY <3>1, <4>1, NodeTopologyAssumption DEF GPU
        <3>2. QED
            BY <3>1
    <2>6. Cardinality(Upto(m) \ {m}) = Cardinality(Upto(m)) - 1
        BY <2>3, FS_RemoveElement
    <2>7. Cardinality(Upto(m) \ {m}) <= Cardinality(F)
        <3>1. IsFiniteSet(F)
            BY <1>1, GpuFinite
        <3>2. QED
            BY <2>5, <3>1, FS_Subset
    <2>8. QED
        BY <1>2, <2>3, <2>4, <2>6, <2>7
<1>5. QED
    BY <1>3, <1>4

\* A request the scheduler counts within the capacity of the node finds free GPUs.
LEMMA RequestFits ==
    ASSUME NEW topo \in Topology, WithinRequest(topo), NEW S \in SUBSET Pods,
           \A g \in GPU : topo[g].by # NoPod =>
                              topo[g].by \in S /\ IsDedicatedGpuPod(topo[g].by),
           NEW p \in Pods, p \notin S, IsDedicatedGpuPod(p), Demand(S \cup {p}) <= GpuCount
    PROVE  Cardinality(FirstFree(topo, Request[p])) = Request[p]
<1>1. IsFiniteSet(GPU) /\ Cardinality(GPU) = GpuCount /\ GpuCount \in Nat /\ Request[p] \in Nat
    BY NodeTopologyAssumption, FS_Interval DEF GPU
<1>2. Free(topo) \subseteq GPU
    BY DEF Free
<1>3. Cardinality(GPU \ Free(topo)) = GpuCount - Cardinality(Free(topo))
    <2>1. GPU \cap Free(topo) = Free(topo)
        BY <1>2
    <2>2. QED
        BY <1>1, <2>1, FS_Difference
<1>4. Cardinality(Free(topo)) \in Nat
    BY <1>2, GpuFinite
<1>5. Demand(S) + Request[p] <= GpuCount /\ Demand(S) \in Nat
    BY DemandGrows, SlotsFinite
<1>6. Request[p] <= Cardinality(Free(topo))
    BY <1>1, <1>3, <1>4, <1>5, UsedWithinDemand
<1>7. QED
    BY <1>1, <1>6, FirstFreeExact
-----------------------------------------------------------------------------
(* What the informer still has to report                                   *)

\* The events of pod p after the first k events of the queue q.
Later(q, p, k) == {i \in (k + 1)..Len(q) : q[i].pod = p}

\* The pods that are alive once the first k events of q are handled: a pod with
\* a later event was alive unless that event reports its addition, and a pod
\* without one is as the API server has it.
LivePods(ps, q, k) ==
    {p \in Pods :
        \/ Later(q, p, k) = {} /\ ps[p].phase \in LivePhase
        \/ \E i \in Later(q, p, k) :
              (\A j \in Later(q, p, k) : i <= j) /\ q[i].type # "Add"}

\* The queue q tells the truth about the pods ps: an event is about the pod's
\* present incarnation or an earlier one, additions and deletions alternate, the
\* last event of a live pod has its present phase, and a pod never goes back.
Accurate(ps, q) ==
    \A i \in 1..Len(q) :
        LET e == q[i]
        IN  /\ e.uid <= ps[e.pod].uid
            /\ e.type # "Delete" <=> e.pod \in LivePods(ps, q, i)
            /\ Later(q, e.pod, i) = {} /\ e.type # "Delete" =>
                   e.uid = ps[e.pod].uid /\ e.phase = ps[e.pod].phase
            /\ e.uid = ps[e.pod].uid /\ ps[e.pod].phase \in LivePhase /\ e.phase = "Running" =>
                   ps[e.pod].phase = "Running"

\* How an object of the API server may change while the informer watches.
Evolves(old, new) ==
    \/ new.uid = old.uid + 1 /\ ~FilterFunc(old) /\ new.phase = "Pending"
    \/ /\ new.uid = old.uid
       /\ FilterFunc(new) => FilterFunc(old) /\ (old.phase = "Running" => new.phase = "Running")

PodsType(ps) ==
    /\ ps \in [Pods -> PodObject]
    /\ \A p \in Pods : ps[p].phase # "Absent" => ps[p].uid \in 1..MaxUid

\* The objects ps and new differ in pod p at most.
SameBut(ps, new, p) == \A o \in Pods : o # p => new[o] = ps[o]

\* The pods that are alive.
LiveNow(ps) == {p \in Pods : FilterFunc(ps[p])}

\* The head and the tail of a queue.
LEMMA TailFacts ==
    ASSUME NEW q \in Seq(PodEvent), q # <<>>
    PROVE  /\ Len(q) \in Nat /\ 1 \in 1..Len(q)
           /\ Head(q) = q[1] /\ Head(q) \in PodEvent
           /\ Tail(q) \in Seq(PodEvent) /\ Len(Tail(q)) = Len(q) - 1
           /\ \A i \in 1..Len(Tail(q)) : Tail(q)[i] = q[i + 1]
OBVIOUS

\* Handling an event shifts the later ones.
LEMMA LaterTail ==
    ASSUME NEW q \in Seq(PodEvent), q # <<>>, NEW p, NEW k \in 0..(Len(q) - 1)
    PROVE  \A i \in Int : i \in Later(Tail(q), p, k) <=> i + 1 \in Later(q, p, k + 1)
<1>1. ASSUME NEW i \in (k + 1)..(Len(q) - 1) PROVE Tail(q)[i] = q[i + 1]
    BY TailFacts
<1>2. Len(Tail(q)) = Len(q) - 1 /\ Len(q) \in Nat
    BY TailFacts
<1>3. QED
    BY <1>1, <1>2 DEF Later

\* What is alive before an event of the queue stays so when the events before
\* it are handled.
LEMMA LivePodsTail ==
    ASSUME NEW ps, NEW q \in Seq(PodEvent), q # <<>>, NEW k \in 0..(Len(q) - 1)
    PROVE  /\ LivePods(ps, Tail(q), k) = LivePods(ps, q, k + 1)
           /\ \A p : Later(Tail(q), p, k) = {} <=> Later(q, p, k + 1) = {}
<1>0. ASSUME NEW p, NEW j \in Later(q, p, k + 1) PROVE j \in Int /\ j - 1 \in Int /\ (j - 1) + 1 = j
    BY DEF Later
<1>1. ASSUME NEW p
      PROVE  /\ \A i \in Int : i \in Later(Tail(q), p, k) <=> i + 1 \in Later(q, p, k + 1)
             /\ \A i \in Later(Tail(q), p, k) : i \in Int /\ Tail(q)[i] = q[i + 1]
    <2>1. \A i \in Int : i \in Later(Tail(q), p, k) <=> i + 1 \in Later(q, p, k + 1)
        BY LaterTail
    <2>2. ASSUME NEW i \in Later(Tail(q), p, k) PROVE i \in Int /\ i \in 1..Len(Tail(q))
        BY TailFacts DEF Later
    <2>3. QED
        BY <2>1, <2>2, TailFacts
<1>2. ASSUME NEW p PROVE Later(Tail(q), p, k) = {} <=> Later(q, p, k + 1) = {}
    <2>1. ASSUME NEW j \in Later(q, p, k + 1) PROVE j - 1 \in Later(Tail(q), p, k)
        <3>1. j \in Int /\ j - 1 \in Int /\ (j - 1) + 1 = j
            BY <1>0
        <3>2. QED
            BY <1>1, <3>1
    <2>2. QED
        BY <1>1, <2>1
<1>3. ASSUME NEW p \in Pods
      PROVE  (\E i \in Later(Tail(q), p, k) :
                 (\A j \in Later(Tail(q), p, k) : i <= j) /\ Tail(q)[i].type # "Add")
             <=> (\E i \in Later(q, p, k + 1) :
                     (\A j \in Later(q, p, k + 1) : i <= j) /\ q[i].type # "Add")
    <2>1. ASSUME NEW i \in Later(Tail(q), p, k),
                 \A j \in Later(Tail(q), p, k) : i <= j, Tail(q)[i].type # "Add"
          PROVE  \E m \in Later(q, p, k + 1) :
                     (\A j \in Later(q, p, k + 1) : m <= j) /\ q[m].type # "Add"
        <3>1. i \in Int /\ i + 1 \in Later(q, p, k + 1) /\ q[i + 1].type # "Add"
            BY <1>1, <2>1
        <3>2. ASSUME NEW j \in Later(q, p, k + 1) PROVE i + 1 <= j
            <4>1. j \in Int /\ j - 1 \in Int /\ (j - 1) + 1 = j
                BY <1>0
            <4>2. j - 1 \in Later(Tail(q), p, k)
                BY <1>1, <4>1
            <4>3. i <= j - 1
                BY <2>1, <4>2
            <4>4. QED
                BY <3>1, <4>1, <4>3
        <3>3. QED
            BY <3>1, <3>2
    <2>2. ASSUME NEW m \in Later(q, p, k + 1),
                 \A j \in Later(q, p, k + 1) : m <= j, q[m].type # "Add"
          PROVE  \E i \in Later(Tail(q), p, k) :
                     (\A j \in Later(Tail(q), p, k) : i <= j) /\ Tail(q)[i].type # "Add"
        <3>1. m \in Int /\ m - 1 \in Int /\ (m - 1) + 1 = m
            BY <1>0
        <3>2. m - 1 \in Later(Tail(q), p, k)
            BY <1>1, <3>1
        <3>3. Tail(q)[m - 1].type # "Add"
            BY <1>1, <2>2, <3>1, <3>2
        <3>4. ASSUME NEW j \in Later(Tail(q), p, k) PROVE m - 1 <= j
            <4>1. j \in Int /\ j + 1 \in Later(q, p, k + 1)
                BY <1>1
            <4>2. QED
                BY <2>2, <3>1, <4>1
        <3>5. QED
            BY <3>2, <3>3, <3>4
    <2>3. QED
        BY <2>1, <2>2
<1>4. QED
    BY <1>2, <1>3 DEF LivePods

\* What the next event says about its pod, and that it says nothing of others.
LEMMA LivePodsHead ==
    ASSUME NEW ps, NEW q \in Seq(PodEvent), q # <<>>
    PROVE  /\ q[1].pod \in LivePods(ps, q, 0) <=> q[1].type # "Add"
           /\ \A p \in Pods : p # q[1].pod =>
                 /\ p \in LivePods(ps, q, 0) <=> p \in LivePods(ps, q, 1)
                 /\ Later(q, p, 0) = {} <=> Later(q, p, 1) = {}
<1>1. Len(q) \in Nat /\ 1 \in 1..Len(q) /\ q[1].pod \in Pods
    BY TailFacts DEF PodEvent
<1>2. 1 \in Later(q, q[1].pod, 0) /\ \A j \in Later(q, q[1].pod, 0) : 1 <= j /\ j \in Int
    BY <1>1 DEF Later
<1>3. ASSUME NEW i \in Later(q, q[1].pod, 0), \A j \in Later(q, q[1].pod, 0) : i <= j
      PROVE  i = 1
    BY <1>2, <1>3
<1>4. q[1].pod \in LivePods(ps, q, 0) <=> q[1].type # "Add"
    BY <1>1, <1>2, <1>3 DEF LivePods
<1>5. ASSUME NEW p \in Pods, p # q[1].pod PROVE Later(q, p, 0) = Later(q, p, 1)
    <2>1. ASSUME NEW i PROVE i \in Later(q, p, 0) <=> i \in Later(q, p, 1)
        BY <1>1, <1>5 DEF Later
    <2>2. QED
        BY <2>1
<1>6. QED
    BY <1>4, <1>5 DEF LivePods

\* Handling an event leaves the queue accurate.
LEMMA AccurateTail ==
    ASSUME NEW ps, NEW q \in Seq(PodEvent), q # <<>>, Accurate(ps, q)
    PROVE  Accurate(ps, Tail(q))
<1>1. ASSUME NEW i \in 1..Len(Tail(q))
      PROVE  /\ i + 1 \in 1..Len(q) /\ Tail(q)[i] = q[i + 1]
             /\ LivePods(ps, Tail(q), i) = LivePods(ps, q, i + 1)
             /\ \A p : Later(Tail(q), p, i) = {} <=> Later(q, p, i + 1) = {}
    <2>1. i \in 0..(Len(q) - 1) /\ i + 1 \in 1..Len(q) /\ Tail(q)[i] = q[i + 1]
        BY TailFacts
    <2>2. QED
        BY <2>1, LivePodsTail
<1>2. QED
    BY <1>1 DEF Accurate

\* The queue r is the queue q and one more event, x.
Extends(r, q, x) ==
    Len(r) = Len(q) + 1 /\ r[Len(q) + 1] = x /\ \A i \in 1..Len(q) : r[i] = q[i]

\* A new event is later than all others.
LEMMA LaterAppend ==
    ASSUME NEW q \in Seq(PodEvent), NEW x \in PodEvent, NEW k \in 0..Len(q),
           NEW r, Extends(r, q, x)
    PROVE  /\ Later(r, x.pod, k) = Later(q, x.pod, k) \cup {Len(q) + 1}
           /\ \A p : p # x.pod => Later(r, p, k) = Later(q, p, k)
<1>1. Len(q) \in Nat /\ Len(r) = Len(q) + 1 /\ r[Len(q) + 1] = x /\ \A i \in 1..Len(q) : r[i] = q[i]
    BY DEF Extends
<1>2. ASSUME NEW p, NEW i
      PROVE  i \in Later(r, p, k) <=> i \in Later(q, p, k) \/ (i = Len(q) + 1 /\ p = x.pod)
    BY <1>1 DEF Later
<1>3. Later(r, x.pod, k) = Later(q, x.pod, k) \cup {Len(q) + 1}
    BY <1>2
<1>4. ASSUME NEW p, p # x.pod PROVE Later(r, p, k) = Later(q, p, k)
    <2>1. \A i : i \in Later(r, p, k) <=> i \in Later(q, p, k)
        BY <1>2, <1>4
    <2>2. QED
        BY <2>1
<1>5. QED
    BY <1>3, <1>4

\* The informer reports a change of pod x.pod: what was alive before each earlier
\* event does not change, and after the new one it is what the API server has.
LEMMA LivePodsAppend ==
    ASSUME NEW ps, NEW new, NEW q \in Seq(PodEvent), NEW x \in PodEvent, NEW r, Extends(r, q, x),
           SameBut(ps, new, x.pod), x.type = "Add" <=> ~FilterFunc(ps[x.pod])
    PROVE  /\ \A k \in 0..Len(q) : LivePods(new, r, k) = LivePods(ps, q, k)
           /\ LivePods(new, r, Len(q) + 1) = LiveNow(new)
<1>1. /\ Len(q) \in Nat /\ Len(r) = Len(q) + 1 /\ r[Len(q) + 1] = x
      /\ \A i \in 1..Len(q) : r[i] = q[i]
    BY DEF Extends
<1>2. ASSUME NEW k \in 0..Len(q)
      PROVE  /\ Later(r, x.pod, k) = Later(q, x.pod, k) \cup {Len(q) + 1}
             /\ \A p : p # x.pod => Later(r, p, k) = Later(q, p, k)
    BY LaterAppend
<1>3. ASSUME NEW k \in 0..Len(q), NEW p, NEW i \in Later(q, p, k)
      PROVE  i \in 1..Len(q) /\ i \in Int /\ r[i] = q[i]
    BY <1>1 DEF Later
<1>4. ASSUME NEW k \in 0..Len(q), NEW p \in Pods, p # x.pod
      PROVE  p \in LivePods(new, r, k) <=> p \in LivePods(ps, q, k)
    <2>1. Later(r, p, k) = Later(q, p, k) /\ new[p] = ps[p]
        BY <1>2, <1>4 DEF SameBut
    <2>2. QED
        BY <1>3, <2>1 DEF LivePods
<1>5. ASSUME NEW k \in 0..Len(q)
      PROVE  x.pod \in LivePods(new, r, k) <=> x.pod \in LivePods(ps, q, k)
    <2>0. x.pod \in Pods
        BY DEF PodEvent
    <2>1. CASE Later(q, x.pod, k) = {}
        <3>1. Later(r, x.pod, k) = {Len(q) + 1}
            BY <1>2, <2>1
        <3>2. x.pod \in LivePods(new, r, k) <=> x.type # "Add"
            <4> DEFINE n == Len(q) + 1
            <4>1. Later(r, x.pod, k) = {n} /\ n <= n /\ r[n] = x
                BY <1>1, <3>1
            <4> HIDE DEF n
            <4>2. QED
                BY <2>0, <4>1 DEF LivePods
        <3>3. QED
            BY <2>0, <2>1, <3>2 DEF LivePods, FilterFunc
    <2>2. CASE Later(q, x.pod, k) # {}
        <3>1. ASSUME NEW i \in Later(q, x.pod, k), \A j \in Later(q, x.pod, k) : i <= j
              PROVE  i \in Later(r, x.pod, k) /\ \A j \in Later(r, x.pod, k) : i <= j
            BY <1>1, <1>2, <1>3, <3>1
        <3>2. ASSUME NEW i \in Later(r, x.pod, k), \A j \in Later(r, x.pod, k) : i <= j
              PROVE  i \in Later(q, x.pod, k) /\ \A j \in Later(q, x.pod, k) : i <= j
            <4>1. PICK h \in Later(q, x.pod, k) : TRUE
                BY <2>2
            <4>2. h \in Later(r, x.pod, k) /\ h <= Len(q) /\ h \in Int
                BY <1>2, <1>3
            <4>3. i # Len(q) + 1
                BY <1>1, <3>2, <4>2
            <4>4. QED
                BY <1>2, <3>2, <4>3
        <3>3. QED
            BY <1>2, <1>3, <2>0, <2>2, <3>1, <3>2 DEF LivePods
    <2>3. QED
        BY <2>1, <2>2
<1>6. ASSUME NEW k \in 0..Len(q) PROVE LivePods(new, r, k) = LivePods(ps, q, k)
    <2>1. LivePods(new, r, k) \subseteq Pods /\ LivePods(ps, q, k) \subseteq Pods
        BY DEF LivePods
    <2>2. ASSUME NEW p \in Pods PROVE p \in LivePods(new, r, k) <=> p \in LivePods(ps, q, k)
        BY <1>4, <1>5
    <2>3. QED
        BY <2>1, <2>2
<1>7. LivePods(new, r, Len(q) + 1) = LiveNow(new)
    <2>1. ASSUME NEW p PROVE Later(r, p, Len(q) + 1) = {}
        BY <1>1 DEF Later
    <2>2. QED
        BY <2>1 DEF LivePods, FilterFunc, LiveNow
<1>8. QED
    BY <1>6, <1>7

\* The queue stays accurate when a change is reported.
LEMMA AccurateAppend ==
    ASSUME NEW ps, PodsType(ps), NEW new, PodsType(new), NEW q \in Seq(PodEvent), NEW x \in PodEvent,
           NEW r, Extends(r, q, x), SameBut(ps, new, x.pod), x.type = "Add" <=> ~FilterFunc(ps[x.pod]),
           x.type = "Delete" <=> ~FilterFunc(new[x.pod]),
           x.uid <= new[x.pod].uid,
           x.type # "Delete" => x.uid = new[x.pod].uid /\ x.phase = new[x.pod].phase,
           Evolves(ps[x.pod], new[x.pod]), Accurate(ps, q)
    PROVE  Accurate(new, r)
<1>1. /\ Len(q) \in Nat /\ Len(r) = Len(q) + 1 /\ r[Len(q) + 1] = x
      /\ \A i \in 1..Len(q) : r[i] = q[i] /\ q[i] \in PodEvent
    BY DEF Extends
<1>2. ASSUME NEW k \in 0..Len(q)
      PROVE  /\ Later(r, x.pod, k) = Later(q, x.pod, k) \cup {Len(q) + 1}
             /\ \A p : p # x.pod => Later(r, p, k) = Later(q, p, k)
    BY LaterAppend
<1>3. /\ \A k \in 0..Len(q) : LivePods(new, r, k) = LivePods(ps, q, k)
      /\ LivePods(new, r, Len(q) + 1) = LiveNow(new)
    BY LivePodsAppend
<1>4. ASSUME NEW p \in Pods PROVE ps[p].uid \in Nat /\ new[p].uid \in Nat
    BY NodeTopologyAssumption DEF PodsType, PodObject
<1> DEFINE Fits(i) == LET e == r[i]
                      IN  /\ e.uid <= new[e.pod].uid
                          /\ e.type # "Delete" <=> e.pod \in LivePods(new, r, i)
                          /\ Later(r, e.pod, i) = {} /\ e.type # "Delete" =>
                                 e.uid = new[e.pod].uid /\ e.phase = new[e.pod].phase
                          /\ e.uid = new[e.pod].uid /\ new[e.pod].phase \in LivePhase
                                 /\ e.phase = "Running" => new[e.pod].phase = "Running"
<1>5. ASSUME NEW i \in 1..Len(q) PROVE Fits(i)
    <2> DEFINE e == q[i]
    <2>1. /\ r[i] = e /\ e.pod \in Pods /\ e.uid \in Nat
          /\ LivePods(new, r, i) = LivePods(ps, q, i)
        BY <1>1, <1>3 DEF PodEvent
    <2>2. /\ e.uid <= ps[e.pod].uid
          /\ e.type # "Delete" <=> e.pod \in LivePods(ps, q, i)
          /\ Later(q, e.pod, i) = {} /\ e.type # "Delete" =>
                 e.uid = ps[e.pod].uid /\ e.phase = ps[e.pod].phase
          /\ e.uid = ps[e.pod].uid /\ ps[e.pod].phase \in LivePhase /\ e.phase = "Running" =>
                 ps[e.pod].phase = "Running"
        BY DEF Accurate
    <2> HIDE DEF e
    <2>3. CASE e.pod # x.pod
        <3>1. new[e.pod] = ps[e.pod]
            BY <2>1, <2>3 DEF SameBut
        <3>2. QED
            BY <1>1, <1>2, <2>1, <2>2, <2>3, <3>1
    <2>4. CASE e.pod = x.pod
        <3>1. Later(r, e.pod, i) # {}
            <4>1. i \in 0..Len(q)
                BY <1>1
            <4>2. Later(r, x.pod, i) = Later(q, x.pod, i) \cup {Len(q) + 1}
                BY <1>2, <4>1
            <4>3. QED
                BY <2>4, <4>2
        <3>2. \/ new[e.pod].uid = ps[e.pod].uid + 1
              \/ /\ new[e.pod].uid = ps[e.pod].uid
                 /\ new[e.pod].phase \in LivePhase =>
                        ps[e.pod].phase \in LivePhase /\
                        (ps[e.pod].phase = "Running" => new[e.pod].phase = "Running")
            BY <2>4 DEF Evolves, FilterFunc
        <3>3. ps[e.pod].uid \in Nat /\ new[e.pod].uid \in Nat
            BY <1>4, <2>1
        <3>4. QED
            BY <2>1, <2>2, <3>1, <3>2, <3>3
    <2>5. QED
        BY <2>3, <2>4
<1>6. Fits(Len(q) + 1)
    <2>1. x.pod \in Pods
        BY DEF PodEvent
    <2>2. QED
        BY <1>1, <1>3, <2>1 DEF FilterFunc, LiveNow
<1>7. ASSUME NEW i \in 1..Len(r) PROVE Fits(i)
    BY <1>1, <1>5, <1>6
<1>8. QED
    BY <1>7 DEF Accurate

\* A change between two objects the filter rejects is reported by nothing and
\* changes nothing of this.
LEMMA Unreported ==
    ASSUME NEW ps, NEW q \in Seq(PodEvent), NEW new, NEW p \in Pods,
           SameBut(ps, new, p), new[p].uid = ps[p].uid, ~FilterFunc(ps[p]), ~FilterFunc(new[p]), Accurate(ps, q)
    PROVE  /\ \A k \in 0..Len(q) : LivePods(new, q, k) = LivePods(ps, q, k)
           /\ Accurate(new, q)
<1>1. \A o \in Pods : FilterFunc(new[o]) <=> FilterFunc(ps[o])
    BY DEF SameBut
<1>2. \A k \in 0..Len(q) : LivePods(new, q, k) = LivePods(ps, q, k)
    BY <1>1 DEF LivePods, FilterFunc
<1>3. ASSUME NEW i \in 1..Len(q)
      PROVE  LET e == q[i]
             IN  /\ e.uid <= new[e.pod].uid
                 /\ e.type # "Delete" <=> e.pod \in LivePods(new, q, i)
                 /\ Later(q, e.pod, i) = {} /\ e.type # "Delete" =>
                        e.uid = new[e.pod].uid /\ e.phase = new[e.pod].phase
                 /\ e.uid = new[e.pod].uid /\ new[e.pod].phase \in LivePhase
                        /\ e.phase = "Running" => new[e.pod].phase = "Running"
    <2> DEFINE e == q[i]
    <2>0. Len(q) \in Nat /\ e \in PodEvent
        OBVIOUS
    <2>1. e.pod \in Pods /\ i \in 0..Len(q)
        BY <2>0 DEF PodEvent
    <2>2. /\ e.uid <= ps[e.pod].uid
          /\ e.type # "Delete" <=> e.pod \in LivePods(ps, q, i)
          /\ Later(q, e.pod, i) = {} /\ e.type # "Delete" =>
                 e.uid = ps[e.pod].uid /\ e.phase = ps[e.pod].phase
          /\ e.uid = ps[e.pod].uid /\ ps[e.pod].phase \in LivePhase /\ e.phase = "Running" =>
                 ps[e.pod].phase = "Running"
        BY DEF Accurate
    <2>3. LivePods(new, q, i) = LivePods(ps, q, i)
        BY <1>2, <2>1
    <2>4. CASE e.pod # p
        BY <2>1, <2>2, <2>3, <2>4 DEF SameBut
    <2>5. CASE e.pod = p
        <3>1. ~(Later(q, e.pod, i) = {} /\ e.type # "Delete")
            BY <2>2, <2>5 DEF LivePods, FilterFunc
        <3>2. QED
            BY <2>2, <2>3, <2>5, <3>1 DEF FilterFunc
    <2>6. QED
        BY <2>4, <2>5
<1>4. QED
    BY <1>2, <1>3 DEF Accurate

\* What the informer reports of a change of pod p from old to new.
Reports(x, p, old, new) ==
    /\ x \in PodEvent /\ x.pod = p
    /\ x.type = "Add" <=> ~FilterFunc(old)
    /\ x.type = "Delete" <=> ~FilterFunc(new)
    /\ IF x.type = "Delete" THEN x.uid = old.uid
       ELSE x.uid = new.uid /\ x.phase = new.phase /\ x.idx = new.idx

\* Whatever happens to a pod while the informer watches, the queue r that q
\* becomes is accurate for the objects new that ps become, what was alive before
\* each event of q stays so, and after the last event it is what the API server has.
Watched(ps, q, new, r, p) ==
    /\ PodsType(new) /\ r \in Seq(PodEvent) /\ Accurate(new, r)
    /\ \A k \in 0..Len(q) : LivePods(new, r, k) = LivePods(ps, q, k)
    /\ \/ r = q /\ ~FilterFunc(ps[p]) /\ ~FilterFunc(new[p])
       \/ /\ \E x : Extends(r, q, x) /\ Reports(x, p, ps[p], new[p])
          /\ LivePods(new, r, Len(r)) = LiveNow(new)

\* A change that the informer reports by one event keeps the queue accurate.
LEMMA WatchedReport ==
    ASSUME NEW ps, PodsType(ps), NEW new, PodsType(new), NEW q \in Seq(PodEvent), Accurate(ps, q),
           NEW p \in Pods, SameBut(ps, new, p), Evolves(ps[p], new[p]),
           NEW r \in Seq(PodEvent), NEW x, Extends(r, q, x), Reports(x, p, ps[p], new[p])
    PROVE  Watched(ps, q, new, r, p)
<1>1. /\ x \in PodEvent /\ SameBut(ps, new, x.pod) /\ Evolves(ps[x.pod], new[x.pod])
      /\ x.type = "Add" <=> ~FilterFunc(ps[x.pod])
      /\ x.type = "Delete" <=> ~FilterFunc(new[x.pod])
      /\ x.type # "Delete" => x.uid = new[x.pod].uid /\ x.phase = new[x.pod].phase
    BY DEF Reports
<1>2. x.uid <= new[x.pod].uid
    <2>1. ps[p].uid \in Nat /\ new[p].uid \in Nat /\ x.uid \in {ps[p].uid, new[p].uid}
        BY NodeTopologyAssumption DEF PodsType, PodObject, Reports
    <2>2. QED
        BY <2>1 DEF Reports, Evolves
<1>3. Accurate(new, r)
    BY <1>1, <1>2, AccurateAppend
<1>4. /\ \A k \in 0..Len(q) : LivePods(new, r, k) = LivePods(ps, q, k)
      /\ LivePods(new, r, Len(q) + 1) = LiveNow(new)
    BY <1>1, LivePodsAppend
<1>5. Len(r) = Len(q) + 1
    BY DEF Extends
<1>6. QED
    BY <1>3, <1>4, <1>5 DEF Watched

\* Whatever becomes of a pod, the queue the informer makes of it is accurate.
LEMMA Observed ==
    ASSUME NEW ps, PodsType(ps), NEW q \in Seq(PodEvent), Accurate(ps, q),
           NEW p \in Pods, NEW obj \in PodObject, Evolves(ps[p], obj),
           obj.phase # "Absent" => obj.uid \in 1..MaxUid
    PROVE  Watched(ps, q, [ps EXCEPT ![p] = obj], q \o Notification(p, ps[p], obj), p)
<1> DEFINE new == [ps EXCEPT ![p] = obj]
           old == ps[p]
           r == q \o Notification(p, old, obj)
<1>1. PodsType(new) /\ new[p] = obj /\ SameBut(ps, new, p)
    BY DEF PodsType, SameBut
<1>2. /\ old \in PodObject /\ (FilterFunc(old) => old.uid \in 1..MaxUid)
      /\ (FilterFunc(obj) => obj.uid \in 1..MaxUid)
    BY DEF PodsType, FilterFunc, LivePhase
<1>3. ASSUME NEW x, Notification(p, old, obj) = <<x>>, Reports(x, p, old, obj)
      PROVE  Watched(ps, q, new, r, p)
    <2>1. x \in PodEvent
        BY <1>3 DEF Reports
    <2>2. r = Append(q, x)
        BY <1>3, <2>1
    <2> HIDE DEF r, new, old
    <2>3. r \in Seq(PodEvent) /\ Extends(r, q, x)
        BY <2>1, <2>2 DEF Extends
    <2>4. Reports(x, p, ps[p], new[p]) /\ Evolves(ps[p], new[p])
        BY <1>1, <1>3 DEF old
    <2>5. QED
        BY <1>1, <2>3, <2>4, WatchedReport
<1>4. CASE FilterFunc(old) /\ FilterFunc(obj)
    <2> DEFINE x == Event("Update", p, obj)
    <2>1. Notification(p, old, obj) = <<x>>
        BY <1>4 DEF Notification
    <2>2. Reports(x, p, old, obj)
        BY <1>2, <1>4 DEF Event, PodEvent, PodObject, FilterFunc, Reports
    <2>3. QED
        BY <1>3, <2>1, <2>2
<1>5. CASE ~FilterFunc(old) /\ FilterFunc(obj)
    <2> DEFINE x == Event("Add", p, obj)
    <2>1. Notification(p, old, obj) = <<x>>
        BY <1>5 DEF Notification
    <2>2. Reports(x, p, old, obj)
        BY <1>2, <1>5 DEF Event, PodEvent, PodObject, FilterFunc, Reports
    <2>3. QED
        BY <1>3, <2>1, <2>2
<1>6. CASE FilterFunc(old) /\ ~FilterFunc(obj)
    <2> DEFINE x == Event("Delete", p, old)
    <2>1. Notification(p, old, obj) = <<x>>
        BY <1>6 DEF Notification
    <2>2. Reports(x, p, old, obj)
        BY <1>2, <1>6 DEF Event, PodEvent, PodObject, FilterFunc, Reports
    <2>3. QED
        BY <1>3, <2>1, <2>2
<1>7. CASE ~FilterFunc(old) /\ ~FilterFunc(obj)
    <2>1. r = q
        BY <1>7 DEF Notification
    <2>2. obj.uid = old.uid
        BY <1>7 DEF Evolves, FilterFunc, LivePhase
    <2>3. new[p].uid = ps[p].uid /\ ~FilterFunc(new[p]) /\ ~FilterFunc(ps[p])
        BY <1>1, <1>7, <2>2
    <2> HIDE DEF r, new, old
    <2>4. (\A k \in 0..Len(q) : LivePods(new, q, k) = LivePods(ps, q, k)) /\ Accurate(new, q)
        BY <1>1, <2>3, Unreported
    <2>5. Watched(ps, q, new, r, p)
        BY <1>1, <2>1, <2>3, <2>4 DEF Watched
    <2>6. QED
        BY <2>5 DEF new, r, old
<1>8. QED
    BY <1>4, <1>5, <1>6, <1>7
-----------------------------------------------------------------------------
(* A labelled node is served                                               *)

\* Nobody changed the node object and no API call failed so far.
NodeUndisturbed == nodeEvents = 0 /\ faults = 0

\* One goroutine at most handles the node, it finds the ConfigMap or is the only
\* one to create it, and it labels the node only once the ConfigMap exists.
ServedInv ==
    /\ node = "fake"
    /\ prune \in {"list", "check", "done"}
    /\ prune # "done" => tasks = {}
    /\ ~up => prune = "list"
    /\ prune = "check" => present
    /\ worker = "apply" => present
    /\ \A t, s \in tasks : t = s
    /\ \A t \in tasks : /\ t.op = "add" /\ t.pc \in {"get", "create", "label"}
                        /\ t.pc = "create" => ~present
                        /\ t.pc = "label" => present
    /\ prune = "done" /\ tasks = {} => present /\ (deployed \/ DisableNodeLabeling)

\* The prune pass of a labelled node ends with one goroutine.
LEMMA EndPruneServed ==
    ASSUME ServedInv, EndPrune, prune # "done"
    PROVE  prune' = "done" /\ tasks' = {Task(spawned + 1, "add")}
BY DEF EndPrune, Spawn, ServedInv

\* An undisturbed step keeps it.
LEMMA ServedStep == ServedInv /\ Inv /\ NodeUndisturbed' /\ [Next]_vars => ServedInv'
<1> SUFFICES ASSUME ServedInv, Inv, NodeUndisturbed', [Next]_vars PROVE ServedInv'
    OBVIOUS
<1>0. nodeEvents \in Nat /\ faults \in Nat
    BY DEF Inv, TypeOK
<1>1. ASSUME NEW p \in Pods,
             BindPod(p) \/ AllocateClaim(p) \/ StartPod(p) \/ FinishPod(p) \/ RemovePod(p) \/ ReleaseClaim(p)
      PROVE  ServedInv'
    BY <1>1 DEF BindPod, AllocateClaim, StartPod, FinishPod, RemovePod, ReleaseClaim, ChangePod,
                ServedInv
<1>2. ASSUME NEW p \in Pods, RemovePodUnseen(p) PROVE FALSE
    BY <1>0, <1>2 DEF RemovePodUnseen, NodeUndisturbed
<1>3. ASSUME NEW new, ChangeNode(new) PROVE FALSE
    BY <1>0, <1>3 DEF ChangeNode, NodeUndisturbed
<1>4. CASE PodWorker
    <2>1. CASE PodApply
        BY <2>1 DEF PodApply, ServedInv
    <2>2. CASE DropEvent
        BY <2>2 DEF DropEvent, ServedInv
    <2>3. CASE ~PodApply /\ ~DropEvent
        <3>1. present /\ UNCHANGED <<node, deployed, present, up, prune, tasks>>
            BY <1>4, <2>3 DEF PodWorker, HandleAddDedicated, HandleShared, HandleAddDra,
                   HandleUpdateDedicated, HandleUpdateDra, HandleDeleteOwner, TakeEvent, WillApply
        <3>2. QED
            BY <3>1 DEF ServedInv
    <2>4. QED
        BY <2>1, <2>2, <2>3
<1>5. CASE PodCallFails \/ NodeCallFails \/ PruneCallFails
    BY <1>0, <1>5 DEF PodCallFails, NodeCallFails, PruneCallFails, NodeUndisturbed
<1>6. CASE NodeTaskStep
    <2>1. PICK t \in tasks :
              TaskGet(t) \/ TaskCreate(t) \/ TaskLabel(t) \/ TaskDelete(t) \/ TaskUnlabel(t)
        BY <1>6 DEF NodeTaskStep
    <2>2. t \in NodeTask /\ t.op = "add" /\ t.pc \in {"get", "create", "label"} /\ tasks = {t}
        BY <2>1 DEF ServedInv, Inv, TypeOK
    <2>3. UNCHANGED <<node, up, prune, worker>>
        BY <1>6 DEF NodeTaskStep
    <2>4. prune = "done" /\ up
        BY <2>1 DEF ServedInv
    <2>5. ASSUME NEW pc \in {"create", "label"}, Advance(t, pc)
          PROVE  \E s : tasks' = {s} /\ s.op = "add" /\ s.pc = pc
        <3> DEFINE s == [t EXCEPT !.pc = pc]
        <3>1. tasks' = {s}
            BY <2>2, <2>5 DEF Advance
        <3>2. s.op = "add" /\ s.pc = pc
            BY <2>2 DEF NodeTask
        <3>3. QED
            BY <3>1, <3>2
    <2>6. CASE TaskGet(t)
        BY <2>2, <2>3, <2>4, <2>5, <2>6 DEF TaskGet, ServedInv
    <2>7. CASE TaskCreate(t)
        <3>1. ~present /\ t.pc = "create"
            BY <2>1, <2>7 DEF TaskCreate, ServedInv
        <3>2. present' /\ Advance(t, "label")
            BY <2>7, <3>1 DEF TaskCreate
        <3>3. QED
            BY <2>2, <2>3, <2>4, <2>5, <3>2 DEF ServedInv
    <2>8. CASE TaskLabel(t)
        BY <2>2, <2>3, <2>4, <2>8 DEF TaskLabel, EndTask, ServedInv
    <2>9. QED
        BY <2>1, <2>2, <2>6, <2>7, <2>8 DEF TaskDelete, TaskUnlabel
<1>7. CASE Prune
    <2>1. ASSUME EndPrune, prune # "done",
                 UNCHANGED <<node, up, worker>>, worker' = "apply" => present', up
          PROVE  ServedInv'
        <3> DEFINE t == Task(spawned + 1, "add")
        <3>1. prune' = "done" /\ tasks' = {t}
            BY <2>1, EndPruneServed
        <3>2. t.op = "add" /\ t.pc = "get"
            BY DEF Task
        <3> HIDE DEF t
        <3>3. QED
            BY <2>1, <3>1, <3>2 DEF ServedInv
    <2>2. CASE PruneList
        BY <2>1, <2>2 DEF PruneList, ServedInv
    <2>3. CASE PruneCheck
        BY <2>1, <2>3 DEF PruneCheck, ServedInv
    <2>4. CASE PruneApply
        BY <2>1, <2>4 DEF PruneApply, ServedInv
    <2>5. QED
        BY <1>7, <2>2, <2>3, <2>4 DEF Prune, PruneDelete, ServedInv
<1>8. CASE Start \/ Crash
    BY <1>8 DEF Start, Crash, ServedInv
<1>9. CASE UNCHANGED vars
    BY <1>9 DEF vars, ServedInv
<1>10. QED
    BY <1>1, <1>2, <1>3, <1>4, <1>5, <1>6, <1>7, <1>8, <1>9 DEF Next

\* The invariant holds as long as the node is undisturbed.
LEMMA Served == Spec /\ []NodeUndisturbed => []ServedInv
<1>1. Init => ServedInv
    BY DEF Init, ServedInv
<1>2. QED
    BY <1>1, ServedStep, Invariance, PTL DEF Spec

\* A labelled node gets its ConfigMap and its deploy labels, whatever crash
\* separates createNodeTopologyCM from labelNode, unless the node object changes
\* under the handler or an API call fails.
THEOREM LabelledNodeServed == Spec /\ []NodeUndisturbed => []FakeNodeServed
<1>1. ServedInv => FakeNodeServed
    BY DEF ServedInv, FakeNodeServed, Quiescent
<1>2. QED
    BY Served, <1>1, PTL
=============================================================================
