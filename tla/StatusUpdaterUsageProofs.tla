------------------------ MODULE StatusUpdaterUsageProofs ------------------------
(***************************************************************************)
(* What the exporters and the scheduler read besides the owners: the usage *)
(* entries are those of the live incarnations, with their present phase,   *)
(* and the index annotation of a reservation pod names its GPU.            *)
(***************************************************************************)
EXTENDS StatusUpdaterLedgerProofs

USE DEF api, configMap, podController, pruner, nodeController, bounds
-----------------------------------------------------------------------------
(* Incarnations                                                            *)

\* From event k on, until its removal is reported, pod p is incarnation n.
Incarnation(ps, q, p, k, n) ==
    /\ \A i \in Later(q, p, k) : (\A j \in Later(q, p, k) : q[j].type = "Delete" => i <= j) => q[i].uid = n
    /\ (\A j \in Later(q, p, k) : q[j].type # "Delete") => ps[p].uid = n

\* The events of a pod between its addition and its removal are about one incarnation.
Faithful(ps, q) ==
    \A i \in 1..Len(q) : q[i].type # "Delete" => Incarnation(ps, q, q[i].pod, i, q[i].uid)

\* A pod that is alive at some point of the queue, and whose removal is not
\* reported after it, is alive.
LEMMA LiveStays ==
    ASSUME NEW ps, NEW q \in Seq(PodEvent), Accurate(ps, q), NEW k \in 0..Len(q),
           NEW p \in LivePods(ps, q, k), \A j \in Later(q, p, k) : q[j].type # "Delete"
    PROVE  FilterFunc(ps[p])
<1>1. CASE Later(q, p, k) = {}
    BY <1>1 DEF LivePods, FilterFunc
<1>2. CASE Later(q, p, k) # {}
    <2>1. Len(q) \in Nat /\ Later(q, p, k) \in SUBSET Nat /\ \A h \in Later(q, p, k) : h <= Len(q)
        BY DEF Later
    <2>2. PICK m \in Later(q, p, k) : \A h \in Later(q, p, k) : h <= m
        BY <1>2, <2>1, NatMaximum
    <2>3. m \in 1..Len(q) /\ q[m].pod = p /\ q[m].type # "Delete" /\ k + 1 <= m
        BY <2>2 DEF Later
    <2>4. Later(q, p, m) = {}
        <3>1. ASSUME NEW i \in Later(q, p, m) PROVE FALSE
            <4>1. i \in Later(q, p, k) /\ m < i /\ i \in Int
                BY <2>3 DEF Later
            <4>2. QED
                BY <2>2, <2>3, <4>1
        <3>2. QED
            BY <3>1
    <2>5. p \in LivePods(ps, q, m)
        BY <2>3 DEF Accurate
    <2>6. QED
        BY <2>4, <2>5 DEF LivePods, FilterFunc
<1>3. QED
    BY <1>1, <1>2

\* Handling an event leaves the later ones to tell the same.
LEMMA IncarnationTail ==
    ASSUME NEW ps, NEW q \in Seq(PodEvent), q # <<>>, NEW p, NEW k \in 0..(Len(q) - 1), NEW n,
           Incarnation(ps, q, p, k + 1, n)
    PROVE  Incarnation(ps, Tail(q), p, k, n)
<1> DEFINE r == Tail(q)
<1>1. \A i \in Int : i \in Later(r, p, k) <=> i + 1 \in Later(q, p, k + 1)
    BY LaterTail
<1>2. \A i \in Later(r, p, k) : i \in Int /\ r[i] = q[i + 1]
    <2>1. ASSUME NEW i \in Later(r, p, k) PROVE i \in 1..Len(r)
        BY <2>1 DEF Later
    <2>2. QED
        BY <2>1, TailFacts
<1>3. \A j \in Later(q, p, k + 1) : j \in Int /\ j - 1 \in Int /\ (j - 1) + 1 = j
    BY DEF Later
<1> HIDE DEF r
<1>4. ASSUME NEW j \in Later(q, p, k + 1) PROVE j - 1 \in Later(r, p, k) /\ r[j - 1] = q[j]
    BY <1>1, <1>2, <1>3
<1>5. ASSUME NEW i \in Later(r, p, k), \A j \in Later(r, p, k) : r[j].type = "Delete" => i <= j
      PROVE  r[i].uid = n
    <2>1. i + 1 \in Later(q, p, k + 1) /\ r[i] = q[i + 1] /\ i \in Int
        BY <1>1, <1>2
    <2>2. ASSUME NEW j \in Later(q, p, k + 1), q[j].type = "Delete" PROVE i + 1 <= j
        <3>1. i <= j - 1
            BY <1>4, <1>5, <2>2
        <3>2. QED
            BY <1>3, <2>1, <3>1
    <2>3. QED
        BY <2>1, <2>2 DEF Incarnation
<1>6. ASSUME \A j \in Later(r, p, k) : r[j].type # "Delete" PROVE ps[p].uid = n
    <2>1. \A j \in Later(q, p, k + 1) : q[j].type # "Delete"
        BY <1>4, <1>6
    <2>2. QED
        BY <2>1 DEF Incarnation
<1>7. QED
    BY <1>5, <1>6 DEF Incarnation, r

\* What happened before an event that does not end it goes on after it.
LEMMA IncarnationNext ==
    ASSUME NEW ps, NEW q \in Seq(PodEvent), q # <<>>, NEW p, NEW n, Incarnation(ps, q, p, 0, n)
    PROVE  /\ q[1].pod = p => q[1].uid = n
           /\ ~(q[1].pod = p /\ q[1].type = "Delete") => Incarnation(ps, q, p, 1, n)
<1>1. Len(q) \in Nat /\ 1 \in 1..Len(q)
    BY TailFacts
<1>2. \A i \in Later(q, p, 0) : i \in Int /\ 1 <= i
    BY DEF Later
<1>3. ASSUME q[1].pod = p PROVE q[1].uid = n
    <2>1. 1 \in Later(q, p, 0)
        BY <1>1, <1>3 DEF Later
    <2>2. QED
        BY <1>2, <2>1 DEF Incarnation
<1>4. ASSUME ~(q[1].pod = p /\ q[1].type = "Delete") PROVE Incarnation(ps, q, p, 1, n)
    <2>1. \A i : i \in Later(q, p, 1) <=> i \in Later(q, p, 0) /\ i # 1
        BY <1>1 DEF Later
    <2>2. \A j \in Later(q, p, 0) : q[j].type = "Delete" => j \in Later(q, p, 1)
        <3>1. 1 \in Later(q, p, 0) => q[1].pod = p
            BY DEF Later
        <3>2. QED
            BY <1>4, <2>1, <3>1
    <2>3. QED
        BY <2>1, <2>2 DEF Incarnation
<1>5. QED
    BY <1>3, <1>4

\* A change of a pod object does not change what the queue tells.
LEMMA IncarnationWatched ==
    ASSUME NEW ps, PodsType(ps), NEW new, NEW q \in Seq(PodEvent), Accurate(ps, q), NEW r,
           NEW o \in Pods, Watched(ps, q, new, r, o), SameBut(ps, new, o), Evolves(ps[o], new[o]),
           NEW k \in 0..Len(q), NEW p \in LivePods(ps, q, k), NEW n, Incarnation(ps, q, p, k, n)
    PROVE  Incarnation(new, r, p, k, n)
<1>0. p \in Pods
    BY DEF LivePods
<1>1. ASSUME \A j \in Later(q, p, k) : q[j].type # "Delete"
      PROVE  FilterFunc(ps[p]) /\ ps[p].uid = n /\ new[p].uid = n
    <2>1. FilterFunc(ps[p]) /\ ps[p].uid = n
        BY <1>1, LiveStays DEF Incarnation
    <2>2. p = o => new[p].uid = ps[p].uid
        BY <2>1 DEF Evolves
    <2>3. p # o => new[p] = ps[p]
        BY <1>0 DEF SameBut
    <2>4. QED
        BY <2>1, <2>2, <2>3
<1>2. CASE r = q
    BY <1>1, <1>2 DEF Incarnation
<1>3. ASSUME NEW x, Extends(r, q, x), Reports(x, o, ps[o], new[o])
      PROVE  Incarnation(new, r, p, k, n)
    <2>1. x \in PodEvent /\ x.pod = o
        BY <1>3 DEF Reports
    <2>2. /\ Len(q) \in Nat /\ r[Len(q) + 1] = x /\ \A i \in 1..Len(q) : r[i] = q[i]
        BY <1>3 DEF Extends
    <2>3. /\ Later(r, o, k) = Later(q, o, k) \cup {Len(q) + 1}
          /\ p # o => Later(r, p, k) = Later(q, p, k)
        BY <1>3, <2>1, LaterAppend
    <2>4. \A i \in Later(q, p, k) : i \in 1..Len(q) /\ i \in Int /\ i <= Len(q) /\ r[i] = q[i]
        BY <2>2 DEF Later
    <2>5. CASE p # o
        BY <1>1, <2>3, <2>4, <2>5 DEF Incarnation
    <2>6. CASE p = o /\ \E j \in Later(q, p, k) : q[j].type = "Delete"
        <3>1. PICK d \in Later(q, p, k) : q[d].type = "Delete"
            BY <2>6
        <3>2. d \in Later(r, p, k) /\ r[d].type = "Delete" /\ ~(Len(q) + 1 <= d)
            BY <2>2, <2>3, <2>4, <2>6, <3>1
        <3>3. ASSUME NEW i \in Later(r, p, k), \A j \in Later(r, p, k) : r[j].type = "Delete" => i <= j
              PROVE  r[i].uid = n
            <4>1. i \in Later(q, p, k)
                BY <2>3, <2>6, <3>2, <3>3
            <4>2. \A j \in Later(q, p, k) : q[j].type = "Delete" => i <= j
                BY <2>3, <2>4, <2>6, <3>3
            <4>3. QED
                BY <2>4, <4>1, <4>2 DEF Incarnation
        <3>4. QED
            BY <3>2, <3>3 DEF Incarnation
    <2>7. CASE p = o /\ \A j \in Later(q, p, k) : q[j].type # "Delete"
        <3>1. FilterFunc(ps[p]) /\ ps[p].uid = n /\ new[p].uid = n
            BY <1>1, <2>7
        <3>2. x.uid = n
            BY <1>3, <2>7, <3>1 DEF Reports
        <3>3. ASSUME NEW i \in Later(r, p, k) PROVE r[i].uid = n
            <4>1. CASE i \in Later(q, p, k)
                <5>1. \A j \in Later(q, p, k) : q[j].type = "Delete" => i <= j
                    BY <2>7
                <5>2. QED
                    BY <2>4, <4>1, <5>1 DEF Incarnation
            <4>2. CASE i = Len(q) + 1
                BY <2>2, <3>2, <4>2
            <4>3. QED
                BY <2>3, <2>7, <4>1, <4>2
        <3>4. QED
            BY <3>1, <3>3 DEF Incarnation
    <2>8. QED
        BY <2>5, <2>6, <2>7
<1>4. QED
    BY <1>2, <1>3 DEF Watched
-----------------------------------------------------------------------------
(* What the entries and the annotations must be                            *)

\* The sharer s gets its GPU from the reservation pod r.
Reserves(r, s) == IsGpuReservationPod(r) /\ IsSharedGpuPod(s) /\ Group[r] = Group[s]

\* A group of sharers has one reservation pod, which reserves one GPU.
SingleReservation ==
    /\ \A r, o, s \in Pods : Reserves(r, s) /\ Reserves(o, s) => r = o
    /\ \A r \in Pods : IsGpuReservationPod(r) => Request[r] = 1

\* The entry of a sharer whose reservation pod was removed waits for the release
\* of the GPU: the handlers look the reservation pod up at the API server.
Excused(ps, p, by) == IsSharedGpuPod(p) /\ by \in Pods /\ ps[by].phase = "Absent"

\* A sharer is bound after its reservation pod and reported after it.
ReservedFirst(ps) == \A r, s \in Pods : Reserves(r, s) /\ ps[s].uid > 0 => ps[r].uid > 0
Ordered(ps, q) ==
    \A k \in 0..Len(q), r, s \in Pods :
        Reserves(r, s) /\ s \in LivePods(ps, q, k) =>
            \A i \in (k + 1)..Len(q) : q[i].type = "Add" => q[i].pod # r

\* A reservation pod has no index annotation when it is bound, and only then is
\* its addition reported.
Unindexed(q) ==
    \A i \in 1..Len(q) : q[i].type = "Add" /\ IsGpuReservationPod(q[i].pod) => q[i].idx = 0

\* The usage entries are those of incarnations that are alive as far as the events
\* handled so far go.
Entries(ps, q, topo) ==
    \A g \in GPU, u \in Uid :
        topo[g].usage[u] # "none" =>
            \/ u[1] \in LivePods(ps, q, 0) /\ Incarnation(ps, q, u[1], 0, u[2])
            \/ Excused(ps, u[1], topo[g].by)

\* A live pod without further events has its entry, with its present phase.
Current(ps, q, topo) ==
    \A g \in GPU, p \in Pods :
        MayUse(p, topo[g].by) /\ FilterFunc(ps[p]) /\ Later(q, p, 0) = {} =>
            \/ topo[g].usage[<<p, ps[p].uid>>] = ps[p].phase
            \/ Excused(ps, p, topo[g].by)

UsageState(ps, q, topo) ==
    /\ Faithful(ps, q) /\ Ordered(ps, q) /\ ReservedFirst(ps) /\ Unindexed(q)
    /\ Entries(ps, q, topo) /\ Current(ps, q, topo)

\* The annotation of a live reservation pod that holds a GPU names that GPU.
Indexed(ps, topo) ==
    \A r \in Pods :
        IsGpuReservationPod(r) /\ FilterFunc(ps[r]) /\ Held(topo, r) # {} =>
            Held(topo, r) = {ps[r].idx}

\* A sharer uses the GPU of its reservation pod only.
LEMMA SharerUses ==
    ASSUME NEW topo, Sound(topo), NEW p \in Pods, IsSharedGpuPod(p), NEW g \in GPU, MayUse(p, topo[g].by)
    PROVE  topo[g].by \in Pods /\ Reserves(topo[g].by, p) /\ g \in Held(topo, topo[g].by)
<1>1. g \in Held(topo, topo[g].by)
    BY DEF Held
<1>2. topo[g].by = p /\ p \in Pods => FALSE
    BY <1>1 DEF Sound, WithinRequest
<1>3. topo[g].by \in Pods \cup {NoPod}
    BY DEF Sound, Topology, GpuStatus
<1>4. QED
    BY <1>1, <1>2, <1>3 DEF MayUse, Reserves
-----------------------------------------------------------------------------
(* Changes of a pod object                                                 *)

\* The queue goes on to tell of one incarnation at a time.
LEMMA ChangeKeepsFaithful ==
    ASSUME NEW ps, PodsType(ps), NEW new, NEW q \in Seq(PodEvent), Accurate(ps, q), NEW r,
           NEW p \in Pods, Watched(ps, q, new, r, p), SameBut(ps, new, p), Evolves(ps[p], new[p]),
           Faithful(ps, q)
    PROVE  Faithful(new, r)
<1>1. ASSUME NEW i \in 1..Len(q), q[i].type # "Delete"
      PROVE  Incarnation(new, r, q[i].pod, i, q[i].uid)
    <2>1. q[i].pod \in LivePods(ps, q, i) /\ i \in 0..Len(q)
        BY <1>1 DEF Accurate
    <2>2. Incarnation(ps, q, q[i].pod, i, q[i].uid)
        BY <1>1 DEF Faithful
    <2>3. QED
        BY <2>1, <2>2, IncarnationWatched
<1>2. CASE r = q
    BY <1>1, <1>2 DEF Faithful
<1>3. ASSUME NEW x, Extends(r, q, x), Reports(x, p, ps[p], new[p])
      PROVE  Faithful(new, r)
    <2>1. Len(q) \in Nat /\ Len(r) = Len(q) + 1 /\ r[Len(q) + 1] = x /\ \A i \in 1..Len(q) : r[i] = q[i]
        BY <1>3 DEF Extends
    <2>2. x.type # "Delete" => Incarnation(new, r, x.pod, Len(q) + 1, x.uid)
        <3>1. Later(r, x.pod, Len(q) + 1) = {}
            BY <2>1 DEF Later
        <3>2. x.type # "Delete" => new[x.pod].uid = x.uid
            BY <1>3 DEF Reports
        <3>3. QED
            BY <3>1, <3>2 DEF Incarnation
    <2>3. \A i \in 1..Len(r) : i \in 1..Len(q) \/ i = Len(q) + 1
        BY <2>1
    <2>4. QED
        BY <1>1, <2>1, <2>2, <2>3 DEF Faithful
<1>4. QED
    BY <1>2, <1>3 DEF Watched

\* A reservation pod is added before the pods that share its GPU.
LEMMA ChangeKeepsOrdered ==
    ASSUME NEW ps, PodsType(ps), NEW new, NEW q \in Seq(PodEvent), Accurate(ps, q), NEW r,
           NEW p \in Pods, Watched(ps, q, new, r, p), Ordered(ps, q), ReservedFirst(ps), Unindexed(q),
           IsGpuReservationPod(p) /\ ~FilterFunc(ps[p]) /\ FilterFunc(new[p]) =>
               ps[p].uid = 0 /\ new[p].idx = 0
    PROVE  Ordered(new, r) /\ Unindexed(r)
<1>1. Len(q) \in Nat /\ \A k \in 0..Len(q) : LivePods(new, r, k) = LivePods(ps, q, k)
    BY DEF Watched
<1>2. CASE r = q
    BY <1>1, <1>2 DEF Ordered
<1>3. ASSUME NEW x, Extends(r, q, x), Reports(x, p, ps[p], new[p])
      PROVE  Ordered(new, r) /\ Unindexed(r)
    <2>1. Len(r) = Len(q) + 1 /\ r[Len(q) + 1] = x /\ \A i \in 1..Len(q) : r[i] = q[i]
        BY <1>3 DEF Extends
    <2>2. x.type = "Add" /\ IsGpuReservationPod(x.pod) => x.pod = p /\ ps[p].uid = 0 /\ x.idx = 0
        BY <1>3 DEF Reports
    <2>3. ASSUME NEW k \in 0..Len(r), NEW o \in Pods, NEW s \in Pods, Reserves(o, s),
                 s \in LivePods(new, r, k), NEW i \in (k + 1)..Len(r), r[i].type = "Add", r[i].pod = o
          PROVE  FALSE
        <3>1. k \in 0..Len(q) /\ s \in LivePods(ps, q, k)
            BY <1>1, <2>1, <2>3
        <3>2. CASE i \in 1..Len(q)
            <4>1. i \in (k + 1)..Len(q)
                BY <3>1, <3>2
            <4>2. QED
                BY <2>1, <2>3, <3>1, <3>2, <4>1 DEF Ordered
        <3>3. CASE i = Len(q) + 1
            <4>1. ps[o].uid = 0
                BY <2>1, <2>2, <2>3, <3>3 DEF Reserves
            <4>2. ps[s].uid > 0
                <5>1. ps[s].uid \in 1..MaxUid
                    BY <3>1, LiveBound
                <5>2. QED
                    BY <5>1
            <4>3. ps[o].uid > 0
                BY <2>3, <4>2 DEF ReservedFirst
            <4>4. QED
                BY <4>1, <4>3
        <3>4. QED
            BY <1>1, <2>1, <3>2, <3>3
    <2>4. Unindexed(r)
        <3>1. \A i \in 1..Len(r) : i \in 1..Len(q) \/ i = Len(q) + 1
            BY <1>1, <2>1
        <3>2. QED
            BY <2>1, <2>2, <3>1 DEF Unindexed
    <2>5. QED
        BY <2>3, <2>4 DEF Ordered
<1>4. QED
    BY <1>2, <1>3 DEF Watched

\* A change of a pod keeps the entries those of the live incarnations, and only
\* touches the phase of a pod of which another event follows.
LEMMA ChangeKeepsEntries ==
    ASSUME NEW ps, PodsType(ps), NEW new, NEW q \in Seq(PodEvent), Accurate(ps, q), NEW r,
           NEW p \in Pods, Watched(ps, q, new, r, p), SameBut(ps, new, p), Evolves(ps[p], new[p]),
           NEW topo, Sound(topo), Holdings(ps, q, topo),
           Entries(ps, q, topo), Current(ps, q, topo),
           IsGpuReservationPod(p) /\ ps[p].uid > 0 /\ ps[p].phase = "Absent" => new[p].phase = "Absent"
    PROVE  Entries(new, r, topo) /\ Current(new, r, topo)
<1>1. ASSUME NEW o \in Pods, NEW g \in GPU, MayUse(o, topo[g].by), Excused(ps, o, topo[g].by)
      PROVE  Excused(new, o, topo[g].by)
    <2> DEFINE h == topo[g].by
    <2>1. h \in Pods /\ IsGpuReservationPod(h) /\ Held(topo, h) # {} /\ ps[h].phase = "Absent"
        BY <1>1, SharerUses DEF Excused, Held, Reserves
    <2>2. ps[h].uid > 0
        <3>1. h \in LivePods(ps, q, 0) /\ 0 \in 0..Len(q)
            BY <2>1 DEF Holdings
        <3>2. ps[h].uid \in 1..MaxUid
            BY <3>1, LiveBound
        <3>3. QED
            BY <3>2
    <2>3. new[h].phase = "Absent"
        BY <2>1, <2>2 DEF SameBut
    <2>4. QED
        BY <1>1, <2>3 DEF Excused
<1>2. Entries(new, r, topo)
    <2> SUFFICES ASSUME NEW g \in GPU, NEW u \in Uid, topo[g].usage[u] # "none",
                        ~Excused(new, u[1], topo[g].by)
                 PROVE  u[1] \in LivePods(new, r, 0) /\ Incarnation(new, r, u[1], 0, u[2])
        BY DEF Entries
    <2>1. MayUse(u[1], topo[g].by) /\ u[1] \in Pods
        BY DEF Sound, UsageOwned, Uid
    <2>2. u[1] \in LivePods(ps, q, 0) /\ Incarnation(ps, q, u[1], 0, u[2])
        BY <1>1, <2>1 DEF Entries
    <2>3. 0 \in 0..Len(q) /\ LivePods(new, r, 0) = LivePods(ps, q, 0)
        BY DEF Watched
    <2>4. Incarnation(new, r, u[1], 0, u[2])
        BY <2>2, <2>3, IncarnationWatched
    <2>5. QED
        BY <2>2, <2>3, <2>4
<1>3. Current(new, r, topo)
    <2> SUFFICES ASSUME NEW g \in GPU, NEW o \in Pods, MayUse(o, topo[g].by),
                        FilterFunc(new[o]), Later(r, o, 0) = {}, ~Excused(new, o, topo[g].by)
                 PROVE  topo[g].usage[<<o, new[o].uid>>] = new[o].phase
        BY DEF Current
    <2>1. o # p
        BY WatchedLater
    <2>2. Later(q, o, 0) = {} /\ new[o] = ps[o]
        BY <2>1, WatchedOthers DEF SameBut
    <2>3. QED
        BY <1>1, <2>2 DEF Current
<1>4. QED
    BY <1>2, <1>3
-----------------------------------------------------------------------------
(* Handling an event                                                       *)

\* What handling the first event of q may do to the entries of topo: set that of
\* the event's incarnation, or drop it when the event reports its removal, and
\* free or take GPUs together with their entries.
Accounted(ps, q, topo, new) ==
    LET e == q[1]
    IN  /\ \A g \in GPU, u \in Uid :
              new[g].usage[u] # "none" =>
                  \/ u = <<e.pod, e.uid>> /\ e.type # "Delete"
                  \/ /\ new[g].by = topo[g].by /\ topo[g].usage[u] # "none"
                     /\ \/ e.type # "Delete" \/ u # <<e.pod, e.uid>>
                        \/ Excused(ps, u[1], topo[g].by)
        /\ \A g \in GPU, p \in Pods :
              MayUse(p, new[g].by) =>
                  \/ /\ p = e.pod
                     /\ \/ e.type = "Delete" \/ new[g].usage[<<p, e.uid>>] = e.phase
                        \/ Excused(ps, p, new[g].by)
                  \/ p # e.pod /\ e.type = "Add" /\ Reserves(e.pod, p)
                  \/ /\ p # e.pod /\ new[g].by = topo[g].by
                     /\ \A n \in 1..MaxUid : new[g].usage[<<p, n>>] = topo[g].usage[<<p, n>>]

\* What the queue tells goes on to hold for its tail.
LEMMA TailKeepsQueue ==
    ASSUME NEW ps, NEW q \in Seq(PodEvent), q # <<>>, Faithful(ps, q), Ordered(ps, q), Unindexed(q)
    PROVE  Faithful(ps, Tail(q)) /\ Ordered(ps, Tail(q)) /\ Unindexed(Tail(q))
<1> DEFINE r == Tail(q)
<1>1. Len(q) \in Nat /\ Len(r) = Len(q) - 1 /\ \A i \in 1..Len(r) : i + 1 \in 1..Len(q) /\ r[i] = q[i + 1]
    BY TailFacts
<1>2. \A k \in 0..Len(r) : k + 1 \in 0..Len(q) /\ LivePods(ps, r, k) = LivePods(ps, q, k + 1)
    <2>1. ASSUME NEW k \in 0..Len(r) PROVE k \in 0..(Len(q) - 1) /\ k + 1 \in 0..Len(q)
        BY <1>1
    <2>2. QED
        BY <2>1, LivePodsTail
<1>3. ASSUME NEW i \in 1..Len(r), r[i].type # "Delete"
      PROVE  Incarnation(ps, r, r[i].pod, i, r[i].uid)
    <2>1. i \in 0..(Len(q) - 1) /\ Incarnation(ps, q, r[i].pod, i + 1, r[i].uid)
        BY <1>1, <1>3 DEF Faithful
    <2>2. QED
        BY <2>1, IncarnationTail
<1> HIDE DEF r
<1>4. ASSUME NEW k \in 0..Len(r), NEW o \in Pods, NEW s \in Pods, Reserves(o, s),
             s \in LivePods(ps, r, k), NEW i \in (k + 1)..Len(r), r[i].type = "Add"
      PROVE  r[i].pod # o
    <2>1. i + 1 \in ((k + 1) + 1)..Len(q) /\ r[i] = q[i + 1]
        BY <1>1, <1>4
    <2>2. QED
        BY <1>2, <1>4, <2>1 DEF Ordered
<1>5. Unindexed(r)
    BY <1>1 DEF Unindexed
<1>6. QED
    BY <1>3, <1>4, <1>5 DEF Faithful, Ordered, r

\* Handling an event as it must be handled keeps the entries those of the live
\* incarnations, with their present phase.
LEMMA EventKeepsUsage ==
    ASSUME NEW ps, PodsType(ps), NEW q \in Seq(PodEvent), q # <<>>, Accurate(ps, q),
           NEW topo, NEW new, UsageState(ps, q, topo), Accounted(ps, q, topo, new)
    PROVE  UsageState(ps, Tail(q), new)
<1> DEFINE e == q[1]
           r == Tail(q)
<1>1. /\ LivePods(ps, r, 0) = LivePods(ps, q, 1)
      /\ \A o : Later(r, o, 0) = {} <=> Later(q, o, 1) = {}
      /\ \A o, n : Incarnation(ps, q, o, 1, n) => Incarnation(ps, r, o, 0, n)
    <2>1. 0 \in 0..(Len(q) - 1) /\ 0 + 1 = 1
        BY TailFacts
    <2>2. /\ LivePods(ps, Tail(q), 0) = LivePods(ps, q, 0 + 1)
          /\ \A o : Later(Tail(q), o, 0) = {} <=> Later(q, o, 0 + 1) = {}
        BY <2>1, LivePodsTail
    <2>3. \A o, n : Incarnation(ps, q, o, 0 + 1, n) => Incarnation(ps, Tail(q), o, 0, n)
        BY <2>1, IncarnationTail
    <2>4. QED
        BY <2>1, <2>2, <2>3
<1>2. \A o \in Pods : o # e.pod =>
         /\ o \in LivePods(ps, q, 0) <=> o \in LivePods(ps, q, 1)
         /\ Later(q, o, 0) = {} <=> Later(q, o, 1) = {}
    BY LivePodsHead
<1>3. /\ e \in PodEvent /\ e.pod \in Pods /\ 1 \in 1..Len(q) /\ Len(q) \in Nat
      /\ e.type # "Delete" <=> e.pod \in LivePods(ps, q, 1)
      /\ Later(q, e.pod, 1) = {} /\ e.type # "Delete" => e.uid = ps[e.pod].uid /\ e.phase = ps[e.pod].phase
    BY TailFacts DEF PodEvent, Accurate
<1>4. Faithful(ps, q) /\ Ordered(ps, q) /\ ReservedFirst(ps) /\ Unindexed(q)
      /\ Entries(ps, q, topo) /\ Current(ps, q, topo)
    BY DEF UsageState
<1>5. Faithful(ps, r) /\ Ordered(ps, r) /\ Unindexed(r)
    BY <1>4, TailKeepsQueue
<1> HIDE DEF r
<1>6. Entries(ps, r, new)
    <2> SUFFICES ASSUME NEW g \in GPU, NEW u \in Uid, new[g].usage[u] # "none",
                        ~Excused(ps, u[1], new[g].by)
                 PROVE  u[1] \in LivePods(ps, q, 1) /\ Incarnation(ps, q, u[1], 1, u[2])
        BY <1>1 DEF Entries
    <2>1. u[1] \in Pods /\ u[2] \in 1..MaxUid /\ u = <<u[1], u[2]>>
        BY DEF Uid
    <2>2. CASE u = <<e.pod, e.uid>> /\ e.type # "Delete"
        <3>1. Incarnation(ps, q, e.pod, 1, e.uid)
            BY <1>3, <1>4, <2>2 DEF Faithful
        <3>2. u[1] = e.pod /\ u[2] = e.uid
            BY <2>2
        <3>3. QED
            BY <1>3, <2>2, <3>1, <3>2
    <2>3. CASE ~(u = <<e.pod, e.uid>> /\ e.type # "Delete")
        <3>1. /\ new[g].by = topo[g].by /\ topo[g].usage[u] # "none"
              /\ e.type # "Delete" \/ u # <<e.pod, e.uid>> \/ Excused(ps, u[1], topo[g].by)
            BY <2>3 DEF Accounted
        <3>2. /\ u[1] \in LivePods(ps, q, 0) /\ Incarnation(ps, q, u[1], 0, u[2])
              /\ e.type # "Delete" \/ u # <<e.pod, e.uid>>
            BY <1>4, <3>1 DEF Entries
        <3>3. /\ e.pod = u[1] => e.uid = u[2]
              /\ ~(e.pod = u[1] /\ e.type = "Delete") => Incarnation(ps, q, u[1], 1, u[2])
            BY <3>2, IncarnationNext
        <3>4. ~(e.pod = u[1] /\ e.type = "Delete")
            BY <2>1, <3>2, <3>3
        <3>5. u[1] \in LivePods(ps, q, 1)
            BY <1>2, <1>3, <2>1, <3>2, <3>4
        <3>6. QED
            BY <3>3, <3>4, <3>5
    <2>4. QED
        BY <2>2, <2>3
<1>7. Current(ps, r, new)
    <2> SUFFICES ASSUME NEW g \in GPU, NEW p \in Pods, MayUse(p, new[g].by), FilterFunc(ps[p]),
                        Later(q, p, 1) = {}, ~Excused(ps, p, new[g].by)
                 PROVE  new[g].usage[<<p, ps[p].uid>>] = ps[p].phase
        BY <1>1 DEF Current
    <2>1. p \in LivePods(ps, q, 1) /\ ps[p].uid \in 1..MaxUid
        BY DEF LivePods, FilterFunc, PodsType, LivePhase
    <2>2. CASE p = e.pod
        <3>1. e.uid = ps[p].uid /\ e.phase = ps[p].phase /\ e.type # "Delete"
            BY <1>3, <2>1, <2>2
        <3>2. QED
            BY <2>2, <3>1 DEF Accounted
    <2>3. CASE p # e.pod
        <3>1. ~(e.type = "Add" /\ Reserves(e.pod, p))
            <4>1. p \in LivePods(ps, q, 0) /\ 0 \in 0..Len(q) /\ 1 \in (0 + 1)..Len(q)
                BY <1>2, <1>3, <2>1, <2>3
            <4>2. QED
                BY <1>3, <1>4, <4>1 DEF Ordered
        <3>2. new[g].by = topo[g].by /\ new[g].usage[<<p, ps[p].uid>>] = topo[g].usage[<<p, ps[p].uid>>]
            BY <2>1, <2>3, <3>1 DEF Accounted
        <3>3. QED
            BY <1>2, <1>4, <2>3, <3>2 DEF Current
    <2>4. QED
        BY <2>2, <2>3
<1>8. QED
    BY <1>4, <1>5, <1>6, <1>7 DEF UsageState, r

\* The event's entry is not that of any other pod.
LEMMA OtherEntry ==
    ASSUME NEW e, NEW p \in Pods, p # e.pod, NEW n \in 1..MaxUid
    PROVE  <<p, n>> \in Uid /\ <<p, n>> # <<e.pod, e.uid>>
BY DEF Uid

\* An addition, or a late allocation, of a pod that takes the free GPUs S.
LEMMA AllocateAccounted ==
    ASSUME NEW ps, NEW q, NEW topo, Sound(topo), UsageEvent(q[1]), q[1].type # "Delete",
           ~IsSharedGpuPod(q[1].pod), IsGpuReservationPod(q[1].pod) => q[1].type = "Add",
           Held(topo, q[1].pod) = {}, NEW S \in SUBSET Free(topo)
    PROVE  Accounted(ps, q, topo, Allocate(topo, S, q[1]))
<1> DEFINE e == q[1]
           new == Allocate(topo, S, e)
           taken(g) == [topo[g] EXCEPT !.by = e.pod]
<1>0. e.pod \in Pods /\ e.uid \in 1..MaxUid /\ <<e.pod, e.uid>> \in Uid /\ S \subseteq GPU
    BY DEF UsageEvent, Uid, Free
<1>1. ASSUME NEW g \in S, NEW u \in Uid
      PROVE  /\ new[g].by = e.pod
             /\ new[g].usage[u] = IF u = <<e.pod, e.uid>> /\ ~IsGpuReservationPod(e.pod) THEN e.phase ELSE "none"
    <2>1. topo[g] \in GpuStatus /\ topo[g].by = NoPod /\ g \in GPU
        BY DEF Sound, Topology, Free
    <2>2. topo[g].usage[u] = "none"
        <3>1. ~MayUse(u[1], NoPod)
            BY NodeTopologyAssumption DEF MayUse, Uid
        <3>2. QED
            BY <2>1, <3>1 DEF Sound, UsageOwned
    <2>3. taken(g) \in GpuStatus /\ taken(g).by = e.pod /\ taken(g).usage = topo[g].usage
        BY <1>0, <2>1 DEF GpuStatus
    <2>4. new[g] = IF IsGpuReservationPod(e.pod) THEN taken(g) ELSE SetUsage(taken(g), e)
        BY <2>1 DEF Allocate
    <2> HIDE DEF taken, new
    <2>5. /\ SetUsage(taken(g), e).by = e.pod
          /\ SetUsage(taken(g), e).usage[u] = IF u = <<e.pod, e.uid>> THEN e.phase ELSE "none"
        BY <2>2, <2>3, SetUsageEffect
    <2>6. QED
        BY <2>2, <2>3, <2>4, <2>5
<1>2. \A g \in GPU : g \notin S => new[g] = topo[g]
    BY DEF Allocate
<1> HIDE DEF new
<1>3. ASSUME NEW g \in GPU, NEW u \in Uid, new[g].usage[u] # "none"
      PROVE  \/ u = <<e.pod, e.uid>> /\ e.type # "Delete"
             \/ new[g].by = topo[g].by /\ topo[g].usage[u] # "none" /\ e.type # "Delete"
    BY <1>1, <1>2, <1>3
<1>4. ASSUME NEW g \in GPU, NEW p \in Pods, MayUse(p, new[g].by)
      PROVE  \/ p = e.pod /\ new[g].usage[<<p, e.uid>>] = e.phase
             \/ p # e.pod /\ e.type = "Add" /\ Reserves(e.pod, p)
             \/ p # e.pod /\ new[g] = topo[g]
    <2>1. CASE g \in S /\ p = e.pod
        <3>1. new[g].by = e.pod
            BY <1>0, <1>1, <2>1
        <3>2. ~IsGpuReservationPod(e.pod)
            BY <1>4, <2>1, <3>1 DEF MayUse
        <3>3. QED
            BY <1>0, <1>1, <2>1, <3>2
    <2>2. CASE g \in S /\ p # e.pod
        <3>1. new[g].by = e.pod
            BY <1>0, <1>1, <2>2
        <3>2. QED
            BY <1>4, <2>2, <3>1 DEF MayUse, Reserves
    <2>3. CASE g \notin S
        <3>1. p # e.pod
            BY <1>2, <1>4, <2>3 DEF MayUse, Held
        <3>2. QED
            BY <1>2, <2>3, <3>1
    <2>4. QED
        BY <2>1, <2>2, <2>3
<1>5. QED
    BY <1>3, <1>4 DEF Accounted, new

\* An update refreshes the entries of the pod on its own GPUs.
LEMMA RefreshAccounted ==
    ASSUME NEW ps, NEW q, NEW topo, Sound(topo), UsageEvent(q[1]), q[1].type # "Delete",
           ~IsSharedGpuPod(q[1].pod)
    PROVE  Accounted(ps, q, topo, RefreshUsage(topo, q[1]))
<1> DEFINE e == q[1]
           new == RefreshUsage(topo, e)
<1>0. e.pod \in Pods /\ e.uid \in 1..MaxUid /\ <<e.pod, e.uid>> \in Uid
    BY DEF UsageEvent, Uid
<1>1. ASSUME NEW g \in GPU, NEW u \in Uid
      PROVE  /\ new[g].by = topo[g].by
             /\ new[g].usage[u] = IF /\ topo[g].by = e.pod /\ ~IsGpuReservationPod(e.pod)
                                     /\ u = <<e.pod, e.uid>>
                                  THEN e.phase ELSE topo[g].usage[u]
    <2>1. new[g] = IF topo[g].by = e.pod /\ ~IsGpuReservationPod(e.pod) THEN SetUsage(topo[g], e) ELSE topo[g]
        BY DEF RefreshUsage
    <2>2. topo[g] \in GpuStatus
        BY DEF Sound, Topology
    <2> HIDE DEF new
    <2>3. QED
        BY <2>1, <2>2, SetUsageEffect
<1> HIDE DEF new
<1>2. ASSUME NEW g \in GPU, NEW p \in Pods, MayUse(p, new[g].by)
      PROVE  \/ p = e.pod /\ new[g].usage[<<p, e.uid>>] = e.phase
             \/ /\ p # e.pod /\ new[g].by = topo[g].by
                /\ \A n \in 1..MaxUid : new[g].usage[<<p, n>>] = topo[g].usage[<<p, n>>]
    <2>1. new[g].by = topo[g].by
        BY <1>0, <1>1
    <2>2. CASE p = e.pod
        BY <1>0, <1>1, <1>2, <2>1, <2>2 DEF MayUse
    <2>3. CASE p # e.pod
        BY <1>1, <2>1, <2>3, OtherEntry
    <2>4. QED
        BY <2>2, <2>3
<1>3. QED
    BY <1>1, <1>2 DEF Accounted, new

\* A removal resets the GPUs of the pod.
LEMMA ReleaseAccounted ==
    ASSUME NEW ps, NEW q, NEW topo, Sound(topo), UsageEvent(q[1]), q[1].type = "Delete",
           ~IsSharedGpuPod(q[1].pod)
    PROVE  Accounted(ps, q, topo, Release(topo, q[1].pod))
<1> DEFINE e == q[1]
           new == Release(topo, e.pod)
<1>0. e.pod \in Pods /\ NoPod \notin Pods
    BY NodeTopologyAssumption DEF UsageEvent
<1>1. ASSUME NEW g \in GPU
      PROVE  /\ topo[g].by # e.pod => new[g] = topo[g]
             /\ topo[g].by = e.pod => new[g].by = NoPod /\ \A u \in Uid : new[g].usage[u] = "none"
    BY EmptyStatusType DEF Release
<1> HIDE DEF new
<1>2. ASSUME NEW g \in GPU, NEW u \in Uid, new[g].usage[u] # "none"
      PROVE  new[g].by = topo[g].by /\ topo[g].usage[u] # "none" /\ u # <<e.pod, e.uid>>
    <2>1. topo[g].by # e.pod /\ new[g] = topo[g]
        BY <1>1, <1>2
    <2>2. MayUse(u[1], topo[g].by)
        BY <1>2, <2>1 DEF Sound, UsageOwned
    <2>3. u[1] # e.pod
        BY <2>1, <2>2 DEF MayUse
    <2>4. QED
        BY <1>2, <2>1, <2>3
<1>3. ASSUME NEW g \in GPU, NEW p \in Pods, MayUse(p, new[g].by)
      PROVE  new[g] = topo[g]
    BY <1>0, <1>1, <1>3 DEF MayUse
<1>4. QED
    BY <1>2, <1>3 DEF Accounted, new

\* The event of a sharer sets or drops its entry on the one GPU of its reservation pod.
LEMMA SharerAccounted ==
    ASSUME SingleReservation, NEW ps, NEW q, NEW topo, Sound(topo), UsageEvent(q[1]),
           IsSharedGpuPod(q[1].pod), NEW r \in Pods, Reserves(r, q[1].pod), NEW h \in GPU,
           Held(topo, r) = {h}
    PROVE  Accounted(ps, q, topo, IF q[1].type = "Delete" THEN DropSharedUsage(topo, h, q[1])
                                                          ELSE SetSharedUsage(topo, h, q[1]))
<1> DEFINE e == q[1]
           f == [e EXCEPT !.phase = "none"]
           new == IF e.type = "Delete" THEN DropSharedUsage(topo, h, e) ELSE SetSharedUsage(topo, h, e)
<1>0. e.pod \in Pods /\ e.uid \in 1..MaxUid /\ <<e.pod, e.uid>> \in Uid
    BY DEF UsageEvent, Uid
<1>1. ASSUME NEW x, UsageEvent(x), x.pod = e.pod, x.uid = e.uid, NEW g \in GPU, NEW u \in Uid
      PROVE  /\ SetSharedUsage(topo, h, x)[g].by = topo[g].by
             /\ SetSharedUsage(topo, h, x)[g].usage[u] =
                    IF g = h /\ u = <<e.pod, e.uid>> THEN x.phase ELSE topo[g].usage[u]
    <2>1. topo \in Topology /\ topo[g] \in GpuStatus /\ topo[h] \in GpuStatus
        BY DEF Sound, Topology
    <2>2. SetSharedUsage(topo, h, x)[g] = IF g = h THEN SetUsage(topo[h], x) ELSE topo[g]
        BY <2>1 DEF SetSharedUsage, Topology
    <2>3. QED
        BY <1>1, <2>1, <2>2, SetUsageEffect
<1>2. UsageEvent(f) /\ f.pod = e.pod /\ f.uid = e.uid /\ (e.type = "Delete" => f.phase = "none")
    BY DEF UsageEvent
<1>3. ASSUME NEW g \in GPU, NEW u \in Uid
      PROVE  /\ new[g].by = topo[g].by
             /\ new[g].usage[u] = IF g = h /\ u = <<e.pod, e.uid>>
                                  THEN IF e.type = "Delete" THEN "none" ELSE e.phase
                                  ELSE topo[g].usage[u]
    <2>1. CASE e.type = "Delete"
        <3>1. new = SetSharedUsage(topo, h, f) /\ f.phase = "none"
            BY <2>1 DEF DropSharedUsage, UsageEvent
        <3> HIDE DEF new, f
        <3>2. QED
            BY <1>1, <1>2, <2>1, <3>1
    <2>2. CASE e.type # "Delete"
        <3>1. new = SetSharedUsage(topo, h, e)
            BY <2>2
        <3> HIDE DEF new, f
        <3>2. QED
            BY <1>1, <2>2, <3>1
    <2>3. QED
        BY <2>1, <2>2
<1> HIDE DEF new, f
<1>4. ASSUME NEW g \in GPU, MayUse(e.pod, topo[g].by) PROVE g = h
    <2>1. topo[g].by \in Pods /\ Reserves(topo[g].by, e.pod) /\ g \in Held(topo, topo[g].by)
        BY <1>0, <1>4, SharerUses
    <2>2. topo[g].by = r
        BY <1>0, <2>1 DEF SingleReservation
    <2>3. QED
        BY <2>1, <2>2
<1>5. ASSUME NEW g \in GPU, NEW u \in Uid, new[g].usage[u] # "none"
      PROVE  \/ u = <<e.pod, e.uid>> /\ e.type # "Delete"
             \/ /\ new[g].by = topo[g].by /\ topo[g].usage[u] # "none"
                /\ e.type # "Delete" \/ u # <<e.pod, e.uid>>
    <2>1. CASE u # <<e.pod, e.uid>>
        BY <1>3, <1>5, <2>1
    <2>2. CASE u = <<e.pod, e.uid>> /\ e.type = "Delete"
        <3>1. g # h /\ topo[g].usage[u] # "none" /\ u[1] = e.pod
            BY <1>3, <1>5, <2>2
        <3>2. MayUse(e.pod, topo[g].by)
            BY <3>1 DEF Sound, UsageOwned
        <3>3. QED
            BY <1>4, <3>1, <3>2
    <2>3. QED
        BY <2>1, <2>2
<1>6. ASSUME NEW g \in GPU, NEW p \in Pods, MayUse(p, new[g].by)
      PROVE  \/ p = e.pod /\ (e.type = "Delete" \/ new[g].usage[<<p, e.uid>>] = e.phase)
             \/ /\ p # e.pod /\ new[g].by = topo[g].by
                /\ \A n \in 1..MaxUid : new[g].usage[<<p, n>>] = topo[g].usage[<<p, n>>]
    <2>1. new[g].by = topo[g].by
        BY <1>0, <1>3
    <2>2. CASE p = e.pod
        <3>1. g = h
            BY <1>4, <1>6, <2>1, <2>2
        <3>2. QED
            BY <1>0, <1>3, <2>2, <3>1
    <2>3. CASE p # e.pod
        BY <1>3, <2>1, <2>3, OtherEntry
    <2>4. QED
        BY <2>2, <2>3
<1>7. QED
    BY <1>5, <1>6 DEF Accounted, new

\* An event that is dropped was about a pod that may use no GPU, or about a sharer
\* whose GPU is about to be released.
LEMMA DropAccounted ==
    ASSUME NEW ps, NEW q, NEW topo, Sound(topo),
           \A g \in GPU : MayUse(q[1].pod, topo[g].by) => Excused(ps, q[1].pod, topo[g].by)
    PROVE  Accounted(ps, q, topo, topo)
<1>1. ASSUME NEW g \in GPU, NEW u \in Uid, topo[g].usage[u] # "none", u = <<q[1].pod, q[1].uid>>
      PROVE  Excused(ps, u[1], topo[g].by)
    BY <1>1 DEF Sound, UsageOwned
<1>2. QED
    BY <1>1 DEF Accounted
-----------------------------------------------------------------------------
(* The inductive invariant                                                 *)

\* What the invariant of the ledger leaves open: the entries and the annotations.
UsageInv ==
    /\ LedgerInv /\ SingleReservation
    /\ UsageState(pods, queue, Promised)
    /\ Indexed(pods, Promised)

\* A reservation pod holds one GPU at most.
LEMMA ReservedGpu ==
    ASSUME SingleReservation, NEW topo, Sound(topo), NEW r \in Pods, IsGpuReservationPod(r),
           NEW g \in Held(topo, r)
    PROVE  Held(topo, r) = {g} /\ g \in GPU
<1>1. Held(topo, r) \in SUBSET GPU
    BY DEF Held
<1>2. Cardinality(Held(topo, r)) <= 1
    BY DEF Sound, WithinRequest, SingleReservation, IsDedicatedGpuPod, IsGpuReservationPod
<1>3. IsFiniteSet(Held(topo, r)) /\ Cardinality(Held(topo, r)) \in Nat
    BY <1>1, GpuFinite
<1>4. Cardinality(Held(topo, r)) # 0
    BY <1>3, FS_EmptySet
<1>5. Cardinality(Held(topo, r)) = 1
    BY <1>2, <1>3, <1>4
<1>6. QED
    BY <1>1, <1>3, <1>5, FS_Singleton

\* Changes of a pod object while the informer watches.
LEMMA ChangeKeepsUsage ==
    ASSUME NEW ps, PodsType(ps), NEW new, NEW q \in Seq(PodEvent), Accurate(ps, q), NEW r,
           NEW p \in Pods, Watched(ps, q, new, r, p), SameBut(ps, new, p), Evolves(ps[p], new[p]),
           NEW topo, Sound(topo), Holdings(ps, q, topo), UsageState(ps, q, topo),
           ReservedFirst(new),
           IsGpuReservationPod(p) /\ ps[p].uid > 0 /\ ps[p].phase = "Absent" => new[p].phase = "Absent",
           IsGpuReservationPod(p) /\ ~FilterFunc(ps[p]) /\ FilterFunc(new[p]) =>
               ps[p].uid = 0 /\ new[p].idx = 0
    PROVE  UsageState(new, r, topo)
<1>1. Faithful(ps, q) /\ Ordered(ps, q) /\ ReservedFirst(ps) /\ Unindexed(q)
      /\ Entries(ps, q, topo) /\ Current(ps, q, topo)
    BY DEF UsageState
<1>2. Faithful(new, r)
    BY <1>1, ChangeKeepsFaithful
<1>3. Ordered(new, r) /\ Unindexed(r)
    BY <1>1, ChangeKeepsOrdered
<1>4. Entries(new, r, topo) /\ Current(new, r, topo)
    BY <1>1, ChangeKeepsEntries
<1>5. QED
    BY <1>2, <1>3, <1>4 DEF UsageState

\* Of a topology without allocations nothing is asked.
LEMMA BlankUsage ==
    ASSUME NEW ps, NEW q, Faithful(ps, q), Ordered(ps, q), Unindexed(q), ReservedFirst(ps)
    PROVE  UsageState(ps, q, FreshTopology) /\ Indexed(ps, FreshTopology)
<1>1. \A g \in GPU : FreshTopology[g].by = NoPod /\ \A u \in Uid : FreshTopology[g].usage[u] = "none"
    BY EmptyStatusType DEF FreshTopology
<1>2. Entries(ps, q, FreshTopology)
    BY <1>1 DEF Entries
<1>3. Current(ps, q, FreshTopology)
    BY <1>1, NodeTopologyAssumption DEF Current, MayUse
<1>4. Indexed(ps, FreshTopology)
    BY FreshHeld DEF Indexed
<1>5. QED
    BY <1>2, <1>3, <1>4 DEF UsageState

\* A queue without events tells nothing.
LEMMA EmptyQueue ==
    ASSUME NEW ps, NEW q, q = <<>>
    PROVE  Faithful(ps, q) /\ Ordered(ps, q) /\ Unindexed(q)
BY DEF Faithful, Ordered, Unindexed

\* A change of a pod that leaves the annotation of a live reservation pod alone.
LEMMA ChangePodUsage ==
    ASSUME UsageInv, Inv, Inv', NEW p \in Pods, NEW new \in PodObject, ChangePod(p, new),
           new.phase # "Absent" => new.uid \in 1..MaxUid,
           Evolves(pods[p], new), ReservedFirst(pods'),
           IsGpuReservationPod(p) /\ pods[p].phase = "Absent" /\ new.phase # "Absent" =>
               pods[p].uid = 0 /\ new.idx = 0,
           FilterFunc(new) => pods[p].phase = "Absent" \/ (FilterFunc(pods[p]) /\ new.idx = pods[p].idx)
    PROVE  UsageState(pods, queue, Promised)' /\ Indexed(pods, Promised)'
<1>1. /\ PodsType(pods) /\ queue \in Seq(PodEvent) /\ PodsType(pods') /\ queue' \in Seq(PodEvent)
    BY PodsTyped DEF Inv, TypeOK, PodsType
<1>2. UNCHANGED <<present, cm, up, worker, workerTopo>> /\ pods' = [pods EXCEPT ![p] = new]
    BY DEF ChangePod
<1>3. Promised' = Promised /\ Sound(Promised)
    BY <1>2 DEF Promised, Inv
<1>4. SameBut(pods, pods', p) /\ pods'[p] = new /\ pods[p].uid \in Nat
    BY <1>1, <1>2, NodeTopologyAssumption DEF SameBut, PodsType, PodObject
<1>5. Accurate(pods, queue) /\ Holdings(pods, queue, Promised)
    BY DEF UsageInv, LedgerInv
<1>6. CASE up
    <2>1. queue' = queue \o Notification(p, pods[p], new)
        BY <1>6 DEF ChangePod, Notify
    <2>2. Watched(pods, queue, pods', queue', p)
        BY <1>1, <1>2, <1>5, <2>1, Observed
    <2>3. /\ IsGpuReservationPod(p) /\ pods[p].uid > 0 /\ pods[p].phase = "Absent" => new.phase = "Absent"
          /\ IsGpuReservationPod(p) /\ ~FilterFunc(pods[p]) /\ FilterFunc(new) => pods[p].uid = 0 /\ new.idx = 0
        BY <1>4 DEF FilterFunc, LivePhase
    <2>4. UsageState(pods', queue', Promised)
        BY <1>1, <1>3, <1>4, <1>5, <2>2, <2>3, ChangeKeepsUsage DEF UsageInv
    <2>5. ASSUME NEW r \in Pods, IsGpuReservationPod(r), FilterFunc(pods'[r]), Held(Promised, r) # {}
          PROVE  Held(Promised, r) = {pods'[r].idx}
        <3>1. pods[r].uid > 0
            <4>1. r \in LivePods(pods, queue, 0) /\ 0 \in 0..Len(queue)
                BY <1>1, <1>5, <2>5 DEF Holdings
            <4>2. pods[r].uid \in 1..MaxUid
                BY <1>1, <1>5, <4>1, LiveBound
            <4>3. QED
                BY <4>2
        <3>2. CASE r # p
            BY <1>4, <2>5, <3>2 DEF SameBut, UsageInv, Indexed
        <3>3. CASE r = p
            <4>1. FilterFunc(pods[p])
                BY <1>4, <2>3, <2>5, <3>1, <3>3
            <4>2. pods'[r].idx = pods[r].idx
                BY <1>4, <2>5, <3>3, <4>1 DEF FilterFunc, LivePhase
            <4>3. QED
                BY <2>5, <3>3, <4>1, <4>2 DEF UsageInv, Indexed
        <3>4. QED
            BY <3>2, <3>3
    <2>6. Indexed(pods', Promised)
        BY <2>5 DEF Indexed
    <2>7. QED
        BY <1>3, <2>4, <2>6
<1>7. CASE ~up
    <2>1. queue = <<>> /\ worker = "idle" /\ cm = FreshTopology
        BY <1>7 DEF UsageInv, LedgerInv, Boot
    <2>2. queue' = <<>> /\ Promised = FreshTopology
        BY <1>7, <2>1 DEF ChangePod, Notify, Promised
    <2>3. UsageState(pods', queue', FreshTopology) /\ Indexed(pods', FreshTopology)
        BY <2>2, EmptyQueue, BlankUsage
    <2>4. QED
        BY <1>3, <2>2, <2>3
<1>8. QED
    BY <1>6, <1>7

\* A pod is bound: a sharer after its reservation pod, and that pod once.
LEMMA BindPodUsage ==
    ASSUME UsageInv, Inv, Inv', NEW p \in Pods, BindPod(p)
    PROVE  UsageState(pods, queue, Promised)' /\ Indexed(pods, Promised)'
<1> DEFINE new == [uid |-> pods[p].uid + 1, phase |-> "Pending", idx |-> 0]
           pods2 == [pods EXCEPT ![p] = new]
<1>1. /\ PodsType(pods) /\ pods[p].uid \in 0..MaxUid /\ pods[p].uid < MaxUid
      /\ pods[p].phase = "Absent" /\ MaxUid \in Nat /\ GpuCount \in Nat
    BY PodsTyped, NodeTopologyAssumption DEF Inv, PodsType, PodObject, BindPod
<1>2. /\ new \in PodObject /\ new.uid \in 1..MaxUid /\ new.uid = pods[p].uid + 1
      /\ new.phase = "Pending" /\ new.idx = 0
    BY <1>1 DEF PodObject, Phase, LivePhase
<1>3. ChangePod(p, new) /\ pods' = pods2
    BY DEF BindPod, ChangePod
<1>4. pods2[p] = new /\ \A o \in Pods : o # p => pods2[o] = pods[o]
    BY <1>1 DEF PodsType
<1> HIDE DEF new, pods2
<1>5. ReservedFirst(pods2)
    <2> SUFFICES ASSUME NEW r \in Pods, NEW s \in Pods, Reserves(r, s), pods2[s].uid > 0
                 PROVE  pods2[r].uid > 0
        BY DEF ReservedFirst
    <2>1. r # s /\ (s # p => pods[s].uid > 0)
        BY <1>4 DEF Reserves, IsGpuReservationPod, IsSharedGpuPod
    <2>2. pods[r].uid \in Nat
        BY <1>1 DEF PodsType, PodObject
    <2>3. CASE s = p
        <3>1. PICK o \in Pods : IsGpuReservationPod(o) /\ Group[o] = Group[p] /\ Alive(o)
            BY <2>3 DEF BindPod, Reserves
        <3>2. o = r
            BY <2>3, <3>1 DEF Reserves, UsageInv, SingleReservation
        <3>3. pods[r].uid \in 1..MaxUid
            BY <1>1, <3>1, <3>2 DEF PodsType, Alive, LivePhase
        <3>4. pods[r].uid > 0
            BY <3>3
        <3>5. QED
            BY <1>4, <2>1, <2>3, <3>4
    <2>4. CASE s # p
        <3>1. pods[r].uid > 0
            BY <2>1, <2>4 DEF UsageInv, UsageState, ReservedFirst
        <3>2. QED
            BY <1>1, <1>2, <1>4, <3>1
    <2>5. QED
        BY <2>3, <2>4
<1>6. Evolves(pods[p], new) /\ (IsGpuReservationPod(p) => pods[p].uid = 0)
    BY <1>1, <1>2 DEF BindPod, Evolves, FilterFunc, LivePhase
<1>7. QED
    BY <1>1, <1>2, <1>3, <1>5, <1>6, ChangePodUsage

\* A pod that exists starts, ends or is removed.
LEMMA AgingUsage ==
    ASSUME UsageInv, Inv, Inv', NEW p \in Pods, StartPod(p) \/ FinishPod(p) \/ RemovePod(p)
    PROVE  UsageState(pods, queue, Promised)' /\ Indexed(pods, Promised)'
<1>1. PodsType(pods) /\ pods[p] \in PodObject
    BY PodsTyped DEF Inv, PodsType
<1>2. ASSUME NEW new \in PodObject, ChangePod(p, new), pods[p].phase # "Absent", new.uid = pods[p].uid,
             FilterFunc(new) => FilterFunc(pods[p]) /\ new.phase = "Running" /\ new.idx = pods[p].idx
      PROVE  UsageState(pods, queue, Promised)' /\ Indexed(pods, Promised)'
    <2>1. \A o \in Pods : pods'[o].uid = pods[o].uid
        BY <1>1, <1>2 DEF ChangePod, PodsType
    <2>2. ReservedFirst(pods')
        BY <2>1 DEF UsageInv, UsageState, ReservedFirst
    <2>3. Evolves(pods[p], new) /\ (new.phase # "Absent" => new.uid \in 1..MaxUid)
        BY <1>1, <1>2 DEF Evolves, PodsType
    <2>4. QED
        BY <1>2, <2>2, <2>3, ChangePodUsage
<1>3. CASE StartPod(p)
    <2> DEFINE new == [pods[p] EXCEPT !.phase = "Running"]
    <2>1. new \in PodObject /\ new.uid = pods[p].uid /\ new.phase = "Running" /\ new.idx = pods[p].idx
        BY <1>1 DEF PodObject, Phase, LivePhase
    <2> HIDE DEF new
    <2>2. QED
        BY <1>2, <1>3, <2>1 DEF StartPod, FilterFunc, LivePhase, new
<1>4. CASE FinishPod(p)
    <2> DEFINE new == [pods[p] EXCEPT !.phase = "Done"]
    <2>1. new \in PodObject /\ new.uid = pods[p].uid /\ new.phase = "Done"
        BY <1>1 DEF PodObject, Phase
    <2> HIDE DEF new
    <2>2. QED
        BY <1>2, <1>4, <2>1 DEF FinishPod, Alive, FilterFunc, LivePhase, new
<1>5. CASE RemovePod(p)
    <2> DEFINE new == Removed(p)
    <2>1. new \in PodObject /\ new.uid = pods[p].uid /\ new.phase = "Absent"
        <3>1. 0 \in 0..GpuCount
            BY NodeTopologyAssumption
        <3>2. QED
            BY <1>1, <3>1 DEF PodObject, Phase, Removed
    <2> HIDE DEF new
    <2>2. QED
        BY <1>2, <1>5, <2>1 DEF RemovePod, FilterFunc, LivePhase, new
<1>6. QED
    BY <1>3, <1>4, <1>5
-----------------------------------------------------------------------------
(* Steps of the pod controller                                             *)

\* A handler that has a topology to write.
LEMMA HandlerUsage ==
    ASSUME UsageInv, Inv, queue # <<>>, worker = "idle", NEW topo,
           Accounted(pods, queue, cm, topo), WillApply(topo), queue' = Tail(queue), UNCHANGED pods,
           \A r \in Pods : IsGpuReservationPod(r) => Held(topo, r) \in {{}, Held(cm, r)}
    PROVE  UsageState(pods, queue, Promised)' /\ Indexed(pods, Promised)'
<1>1. Promised' = topo /\ Promised = cm
    BY DEF WillApply, Promised
<1>2. PodsType(pods) /\ queue \in Seq(PodEvent) /\ Accurate(pods, queue)
    BY EventFacts DEF UsageInv
<1>3. UsageState(pods, queue, cm) /\ Indexed(pods, cm)
    BY <1>1 DEF UsageInv
<1>4. UsageState(pods, Tail(queue), topo)
    BY <1>2, <1>3, EventKeepsUsage
<1>5. Indexed(pods, topo)
    BY <1>3 DEF Indexed
<1>6. QED
    BY <1>1, <1>4, <1>5

\* handleDedicatedGpuPodAddition: a reservation pod gets its annotation with its GPU.
LEMMA AddDedicatedUsage ==
    ASSUME UsageInv, Inv, Inv', HandleAddDedicated
    PROVE  UsageState(pods, queue, Promised)' /\ Indexed(pods, Promised)'
<1> DEFINE e == queue[1]
           p == e.pod
           F == FirstFree(cm, Request[p])
           topo == DedicatedAddition(cm, e)
<1>1. queue # <<>> /\ worker = "idle" /\ Promised = cm /\ LedgerInv
    BY DEF HandleAddDedicated, TakeEvent, Promised, UsageInv
<1>2. e.type = "Add" /\ IsDedicatedGpuPod(p) /\ WillApply(topo) /\ p \in Pods /\ ~IsSharedGpuPod(p)
    BY <1>1, EventFacts DEF HandleAddDedicated, TakeEvent, IsDedicatedGpuPod, IsSharedGpuPod
<1>3. Held(cm, p) = {} /\ F \in SUBSET Free(cm)
    BY <1>1, <1>2, EventFacts DEF FirstFree
<1>4. topo = Allocate(cm, F, e)
    BY <1>3 DEF DedicatedAddition
<1>5. /\ Accounted(pods, queue, cm, topo)
      /\ \A o \in Pods : o # p => Held(topo, o) = Held(cm, o)
    <2> HIDE DEF F, topo
    <2>1. Accounted(pods, queue, cm, Allocate(cm, F, e))
        BY <1>1, <1>2, <1>3, EventFacts, AllocateAccounted
    <2>2. \A o \in Pods : o # p => Held(Allocate(cm, F, e), o) = Held(cm, o)
        BY <1>1, <1>3, EventFacts, AllocateEffect
    <2>3. QED
        BY <1>4, <2>1, <2>2
<1>6. Settles(pods, queue, cm, topo, claimed) /\ Cardinality(Held(topo, p)) = Request[p]
    BY <1>1, <1>2, EventFacts, AdditionSettles DEF LedgerInv
<1> HIDE DEF topo
<1>7. IsGpuReservationPod(p) => NeedsGpuIdx(e)
    <2>1. Unindexed(queue)
        BY DEF UsageInv, UsageState
    <2>2. QED
        BY <1>1, <1>2, <1>3, <2>1, EventFacts DEF Unindexed, NeedsGpuIdx
<1>8. CASE ~NeedsGpuIdx(e)
    <2>1. queue' = Tail(queue) /\ UNCHANGED pods
        BY <1>1, <1>8, EventFacts DEF HandleAddDedicated, topo
    <2>2. QED
        BY <1>1, <1>2, <1>5, <1>7, <1>8, <2>1, HandlerUsage
<1>9. CASE NeedsGpuIdx(e)
    <2> DEFINE q == Tail(queue)
               mine == HeldByName(topo, NameOf[p])
               g == First(mine)
               new == [pods[p] EXCEPT !.idx = g]
    <2>1. mine # {} /\ pods[p].phase # "Absent" /\ PatchGpuIdx(p, g) /\ IsGpuReservationPod(p)
        BY <1>1, <1>9, EventFacts DEF HandleAddDedicated, topo, NeedsGpuIdx
    <2>2. Sound(topo) /\ Promised' = topo /\ UNCHANGED up
        BY <1>2 DEF WillApply, Promised, Inv
    <2>3. Held(topo, p) = {g}
        <3>1. mine = Held(topo, p) /\ mine \in SUBSET GPU
            BY <1>2, <2>1, NodeTopologyAssumption DEF HeldByName, Held, IsGpuReservationPod
        <3>2. g \in Held(topo, p)
            BY <2>1, <3>1, FirstMember
        <3>3. QED
            BY <1>2, <2>1, <2>2, <3>2, ReservedGpu DEF UsageInv
    <2> HIDE DEF mine, g
    <2>4. /\ PodsType(pods) /\ PodsType(pods') /\ q \in Seq(PodEvent) /\ Accurate(pods, q)
          /\ Holdings(pods, q, topo) /\ UsageState(pods, q, topo)
        <3>1. q \in Seq(PodEvent) /\ Accurate(pods, q) /\ Holdings(pods, q, topo)
            BY <1>1, <1>6, EventSettled
        <3>2. UsageState(pods, q, topo)
            BY <1>1, <1>5, EventFacts, EventKeepsUsage DEF UsageInv
        <3>3. PodsType(pods) /\ PodsType(pods')
            BY PodsTyped DEF Inv, TypeOK, PodsType
        <3>4. QED
            BY <3>1, <3>2, <3>3
    <2>5. up /\ pods' = [pods EXCEPT ![p] = new] /\ queue' = q \o Notification(p, pods[p], new)
        BY <2>1 DEF HandleAddDedicated, TakeEvent, PatchGpuIdx, Notify, g, mine
    <2>6. pods'[p] = new /\ \A o \in Pods : o # p => pods'[o] = pods[o]
        BY <1>2, <2>4, <2>5 DEF PodsType
    <2>7. new \in PodObject /\ new.uid = pods[p].uid /\ new.phase = pods[p].phase /\ new.idx = g
        <3>1. pods[p] \in PodObject /\ new \in PodObject
            BY <1>2, <2>4, <2>6 DEF PodsType
        <3>2. QED
            BY <3>1 DEF PodObject
    <2> HIDE DEF q, new
    <2>8. Evolves(pods[p], new) /\ (new.phase # "Absent" => new.uid \in 1..MaxUid)
        BY <1>2, <2>4, <2>7 DEF Evolves, FilterFunc, PodsType
    <2>9. SameBut(pods, pods', p) /\ Watched(pods, q, pods', queue', p)
        BY <1>2, <2>4, <2>5, <2>6, <2>7, <2>8, Observed DEF SameBut
    <2>10. ReservedFirst(pods')
        <3>1. \A o \in Pods : pods'[o].uid = pods[o].uid
            BY <2>6, <2>7
        <3>2. QED
            BY <3>1 DEF UsageInv, UsageState, ReservedFirst
    <2>11. FilterFunc(new) <=> FilterFunc(pods[p])
        BY <2>7 DEF FilterFunc
    <2>12. UsageState(pods', queue', topo)
        BY <1>2, <2>1, <2>2, <2>4, <2>6, <2>8, <2>9, <2>10, <2>11, ChangeKeepsUsage
    <2>13. Indexed(pods', topo)
        BY <1>1, <1>5, <2>3, <2>6, <2>7 DEF UsageInv, Indexed
    <2>14. QED
        BY <2>2, <2>12, <2>13
<1>10. QED
    BY <1>8, <1>9

\* The handlers of DRA pods.
LEMMA DraUsage ==
    ASSUME UsageInv, Inv, HandleAddDra \/ HandleUpdateDra
    PROVE  UsageState(pods, queue, Promised)' /\ Indexed(pods, Promised)'
<1> DEFINE e == queue[1]
           S == ClaimDevices(e.pod) \cap Free(cm)
           topo == IF Held(cm, e.pod) = {} THEN Allocate(cm, S, e) ELSE RefreshUsage(cm, e)
<1>1. queue # <<>> /\ worker = "idle" /\ LedgerInv
    BY DEF HandleAddDra, HandleUpdateDra, TakeEvent, UsageInv
<1>2. /\ e.type # "Delete" /\ IsDraPod(e.pod) /\ ~IsSharedGpuPod(e.pod) /\ ~IsGpuReservationPod(e.pod)
      /\ queue' = Tail(queue) /\ UNCHANGED pods
    BY <1>1, EventFacts DEF HandleAddDra, HandleUpdateDra, TakeEvent, IsDraPod, IsSharedGpuPod, IsGpuReservationPod
<1>3. WillApply(topo)
    <2>1. CASE HandleAddDra
        BY <1>1, <2>1, EventFacts DEF HandleAddDra, TakeEvent, DraAddition, DraAllocation
    <2>2. CASE HandleUpdateDra
        BY <1>1, <2>2, EventFacts DEF HandleUpdateDra, DraUpdate, DraAllocation
    <2>3. QED
        BY <2>1, <2>2
<1>4. S \in SUBSET Free(cm)
    OBVIOUS
<1>5. Accounted(pods, queue, cm, topo)
    <2>1. CASE Held(cm, e.pod) = {}
        <3> HIDE DEF S
        <3>1. Accounted(pods, queue, cm, Allocate(cm, S, e))
            BY <1>1, <1>2, <1>4, <2>1, EventFacts, AllocateAccounted
        <3>2. QED
            BY <2>1, <3>1
    <2>2. CASE Held(cm, e.pod) # {}
        <3>1. Accounted(pods, queue, cm, RefreshUsage(cm, e))
            BY <1>1, <1>2, EventFacts, RefreshAccounted
        <3>2. QED
            BY <2>2, <3>1
    <2>3. QED
        BY <2>1, <2>2
<1>6. ASSUME NEW r \in Pods, IsGpuReservationPod(r) PROVE Held(topo, r) = Held(cm, r)
    <2>1. r # e.pod
        BY <1>2, <1>6
    <2>2. CASE Held(cm, e.pod) = {}
        <3> HIDE DEF S
        <3>1. Held(Allocate(cm, S, e), r) = Held(cm, r)
            BY <1>1, <1>4, <2>1, <2>2, EventFacts, AllocateEffect
        <3>2. QED
            BY <2>2, <3>1
    <2>3. CASE Held(cm, e.pod) # {}
        <3>1. PICK g \in GPU : TRUE
            BY <2>3 DEF Held
        <3>2. SameOwners(cm, RefreshUsage(cm, e))
            BY <1>1, <3>1, EventFacts, UsageKeepsOwners
        <3>3. Held(RefreshUsage(cm, e), r) = Held(cm, r)
            BY <3>2, SameOwnersEffect
        <3>4. QED
            BY <2>3, <3>3
    <2>4. QED
        BY <2>2, <2>3
<1> HIDE DEF topo
<1>7. QED
    BY <1>1, <1>2, <1>3, <1>5, <1>6, HandlerUsage

\* The refresh of a dedicated pod, and the releases.
LEMMA OwnerUsage ==
    ASSUME UsageInv, Inv, HandleUpdateDedicated \/ HandleDeleteOwner
    PROVE  UsageState(pods, queue, Promised)' /\ Indexed(pods, Promised)'
<1> DEFINE e == queue[1]
<1>1. queue # <<>> /\ worker = "idle" /\ LedgerInv
    BY DEF HandleUpdateDedicated, HandleDeleteOwner, TakeEvent, UsageInv
<1>2. CASE HandleUpdateDedicated
    <2> DEFINE topo == RefreshUsage(cm, e)
    <2>1. /\ e.type = "Update" /\ ~IsSharedGpuPod(e.pod) /\ WillApply(topo)
          /\ queue' = Tail(queue) /\ UNCHANGED pods
        BY <1>1, <1>2, EventFacts DEF HandleUpdateDedicated, TakeEvent, IsDedicatedGpuPod, IsSharedGpuPod
    <2>2. Accounted(pods, queue, cm, topo)
        BY <1>1, <2>1, EventFacts, RefreshAccounted
    <2>3. SameOwners(cm, topo)
        <3>1. \A g \in GPU : SameOwners(cm, topo)
            BY <1>1, EventFacts, UsageKeepsOwners
        <3>2. QED
            BY <3>1 DEF SameOwners
    <2> HIDE DEF topo
    <2>4. \A r : Held(topo, r) = Held(cm, r)
        BY <2>3, SameOwnersEffect
    <2>5. QED
        BY <1>1, <2>1, <2>2, <2>4, HandlerUsage
<1>3. CASE HandleDeleteOwner
    <2> DEFINE topo == Release(cm, e.pod)
    <2>1. /\ e.type = "Delete" /\ ~IsSharedGpuPod(e.pod) /\ WillApply(topo) /\ e.pod \in Pods
          /\ queue' = Tail(queue) /\ UNCHANGED pods
        BY <1>1, <1>3, EventFacts DEF HandleDeleteOwner, TakeEvent
    <2>2. Accounted(pods, queue, cm, topo)
        BY <1>1, <2>1, EventFacts, ReleaseAccounted
    <2>3. \A r \in Pods : Held(topo, r) \in {{}, Held(cm, r)}
        BY <2>1, ReleaseEffect
    <2> HIDE DEF topo
    <2>4. QED
        BY <1>1, <2>1, <2>2, <2>3, HandlerUsage
<1>4. QED
    BY <1>2, <1>3

\* The handlers of sharers.
LEMMA SharerUsage ==
    ASSUME UsageInv, Inv, NEW type \in {"Add", "Update", "Delete"}, HandleShared(type)
    PROVE  UsageState(pods, queue, Promised)' /\ Indexed(pods, Promised)'
<1> DEFINE e == queue[1]
           p == e.pod
           changed(g) == IF e.type = "Delete" THEN DropSharedUsage(cm, g, e) ELSE SetSharedUsage(cm, g, e)
<1>1. /\ queue # <<>> /\ worker = "idle" /\ LedgerInv /\ SingleReservation
      /\ queue' = Tail(queue) /\ UNCHANGED pods
    BY DEF HandleShared, TakeEvent, UsageInv
<1>2. e.type = type /\ IsSharedGpuPod(p) /\ p \in Pods
    BY <1>1, EventFacts DEF HandleShared, TakeEvent
<1>3. PICK g \in GPU : SharedGpu(p, g) /\ WillApply(changed(g))
    BY <1>1, <1>2, EventFacts DEF HandleShared
<1> DEFINE topo == changed(g)
<1>4. MayUse(p, cm[g].by)
    BY <1>2, <1>3, SharedGpuOwner DEF Inv
<1>5. /\ cm[g].by \in Pods /\ Reserves(cm[g].by, p) /\ Held(cm, cm[g].by) = {g}
    <2>1. cm[g].by \in Pods /\ Reserves(cm[g].by, p) /\ g \in Held(cm, cm[g].by)
        BY <1>1, <1>2, <1>4, EventFacts, SharerUses
    <2>2. Held(cm, cm[g].by) = {g}
        BY <1>1, <2>1, EventFacts, ReservedGpu DEF Reserves
    <2>3. QED
        BY <2>1, <2>2
<1>6. Accounted(pods, queue, cm, topo)
    BY <1>1, <1>2, <1>5, EventFacts, SharerAccounted
<1>7. SameOwners(cm, topo)
    BY <1>1, EventFacts, UsageKeepsOwners
<1> HIDE DEF changed, topo
<1>8. WillApply(topo)
    BY <1>3 DEF topo
<1>9. \A r : Held(topo, r) = Held(cm, r)
    BY <1>7, SameOwnersEffect
<1>10. QED
    BY <1>1, <1>6, <1>8, <1>9, HandlerUsage

\* The errors of the handlers.
LEMMA DropUsage ==
    ASSUME UsageInv, Inv, DropEvent
    PROVE  UsageState(pods, queue, Promised)' /\ Indexed(pods, Promised)'
<1> DEFINE e == queue[1]
           p == e.pod
<1>1. /\ queue # <<>> /\ worker = "idle" /\ queue' = Tail(queue) /\ LedgerInv
      /\ UNCHANGED <<pods, cm, worker, workerTopo>>
    BY DEF DropEvent, UsageInv
<1>2. p \in Pods /\ HandlerFails(e) /\ Sound(cm)
    BY <1>1, EventFacts DEF DropEvent
<1>3. ASSUME NEW g \in GPU, MayUse(p, cm[g].by) PROVE Excused(pods, p, cm[g].by)
    <2>1. cm[g].by \in Pods /\ g \in Held(cm, cm[g].by) /\ present
        <3>1. cm[g].by \in Pods
            BY <1>2, <1>3 DEF MayUse
        <3>2. cm # FreshTopology
            BY <3>1, EmptyStatusType, NodeTopologyAssumption DEF FreshTopology
        <3>3. QED
            BY <1>1, <3>1, <3>2 DEF Held, LedgerInv, Boot
    <2>2. CASE IsSharedGpuPod(p) /\ SharedGpuMissing(p)
        <3> DEFINE r == cm[g].by
        <3>1. Reserves(r, p) /\ r \in Pods
            BY <1>2, <1>3, <2>2, SharerUses
        <3>2. HeldByName(cm, NameOf[r]) # {}
            BY <2>1 DEF Held, HeldByName
        <3>3. \A o \in MatchingReservationPods(p) : o = r
            BY <1>2, <3>1 DEF MatchingReservationPods, Reserves, UsageInv, SingleReservation
        <3>4. MatchingReservationPods(p) = {}
            BY <2>2, <3>2, <3>3 DEF SharedGpuMissing
        <3>5. pods[r].phase = "Absent"
            BY <3>1, <3>4 DEF MatchingReservationPods, Reserves
        <3>6. QED
            BY <2>2, <3>1, <3>5 DEF Excused
    <2>3. CASE e.type # "Delete" /\ IsDraPod(p) /\ ClaimsMissing(e)
        <3>1. Held(cm, p) = {} /\ ~IsSharedGpuPod(p)
            BY <2>3 DEF ClaimsMissing, IsDraPod, IsSharedGpuPod
        <3>2. QED
            BY <1>3, <2>1, <3>1 DEF MayUse
    <2>4. CASE e.type = "Add" /\ NeedsGpuIdx(e)
        BY <1>3, <2>4 DEF NeedsGpuIdx, MayUse, IsSharedGpuPod, IsGpuReservationPod
    <2>5. QED
        BY <1>2, <2>1, <2>2, <2>3, <2>4 DEF HandlerFails
<1>4. Accounted(pods, queue, cm, cm)
    BY <1>2, <1>3, DropAccounted
<1>5. UsageState(pods, queue, cm) /\ Indexed(pods, cm) /\ Promised' = cm
    BY <1>1 DEF UsageInv, Promised
<1>6. UsageState(pods, Tail(queue), cm)
    BY <1>1, <1>4, <1>5, EventFacts, EventKeepsUsage
<1>7. QED
    BY <1>1, <1>5, <1>6
-----------------------------------------------------------------------------
(* The whole system                                                        *)

\* Steps that leave the pods, the queue and the promised topology alone.
LEMMA QuietUsage ==
    ASSUME UsageInv, UNCHANGED <<pods, queue>>, Promised' = Promised
    PROVE  UsageState(pods, queue, Promised)' /\ Indexed(pods, Promised)'
BY DEF UsageInv

\* The first start lists the pods that wait for their claims.
LEMMA StartUsage ==
    ASSUME UsageInv, Inv, Inv', Start
    PROVE  UsageState(pods, queue, Promised)' /\ Indexed(pods, Promised)'
<1> DEFINE q == queue'
           S == {p \in Pods : FilterFunc(pods[p])}
<1>1. PodsType(pods) /\ q \in Seq(PodEvent) /\ Accurate(pods, q)
    BY PodsTyped, StartAccurate DEF Inv, TypeOK
<1>2. cm = FreshTopology /\ worker = "idle" /\ OnlyLatePods(pods) /\ ReservedFirst(pods)
    BY DEF Start, UsageInv, LedgerInv, Boot, UsageState
<1>3. UNCHANGED <<pods, cm, worker>> /\ Promised' = FreshTopology
    BY <1>2 DEF Start, Promised
<1>4. \A i \in 1..Len(q) : q[i].type = "Add" /\ q[i].uid = pods[q[i].pod].uid
    <2>1. PICK order \in SetToSeqs(S) :
              q = [i \in DOMAIN order |-> Event("Add", order[i], pods[order[i]])]
        BY DEF Start
    <2>2. DOMAIN q = 1..Len(q) /\ DOMAIN q = DOMAIN order
        BY <1>1, <2>1
    <2>3. \A i \in 1..Len(q) : q[i] = Event("Add", order[i], pods[order[i]])
        BY <2>1, <2>2
    <2> HIDE DEF q
    <2>4. ASSUME NEW i \in 1..Len(q) PROVE q[i].type = "Add" /\ q[i].uid = pods[q[i].pod].uid
        <3>1. q[i] = Event("Add", order[i], pods[order[i]])
            BY <2>3
        <3>2. q[i].type = "Add" /\ q[i].pod = order[i] /\ q[i].uid = pods[order[i]].uid
            BY <3>1 DEF Event
        <3>3. QED
            BY <3>2
    <2>5. QED
        BY <2>4
<1> HIDE DEF q
<1>5. ASSUME NEW k \in 0..Len(q), NEW s \in LivePods(pods, q, k) PROVE IsDraPod(s)
    <2>1. s \in Pods /\ pods[s].uid \in 1..MaxUid
        BY <1>1, LiveBound
    <2>2. pods[s].uid > 0
        BY <2>1
    <2>3. QED
        BY <1>2, <2>1, <2>2 DEF OnlyLatePods
<1>6. Ordered(pods, q)
    BY <1>5 DEF Ordered, Reserves, IsDraPod, IsSharedGpuPod
<1>7. ASSUME NEW i \in 1..Len(q) PROVE IsDraPod(q[i].pod)
    <2>1. q[i].pod \in LivePods(pods, q, i) /\ i \in 0..Len(q)
        BY <1>1, <1>4 DEF Accurate
    <2>2. QED
        BY <1>5, <2>1
<1>8. Unindexed(q)
    BY <1>7 DEF Unindexed, IsDraPod, IsGpuReservationPod
<1>9. ASSUME NEW i \in 1..Len(q) PROVE Incarnation(pods, q, q[i].pod, i, q[i].uid)
    <2>1. \A j \in Later(q, q[i].pod, i) : j \in 1..Len(q) /\ q[j].pod = q[i].pod
        BY <1>1 DEF Later
    <2>2. QED
        BY <1>4, <2>1 DEF Incarnation
<1>10. Faithful(pods, q)
    BY <1>9 DEF Faithful
<1>11. UsageState(pods, q, FreshTopology) /\ Indexed(pods, FreshTopology)
    BY <1>2, <1>6, <1>8, <1>10, BlankUsage
<1>12. QED
    BY <1>3, <1>11 DEF q

\* The goroutine of the initial list creates the ConfigMap as the copies have it.
LEMMA NodeTaskUsage ==
    ASSUME UsageInv, NodeTaskStep
    PROVE  UsageState(pods, queue, Promised)' /\ Indexed(pods, Promised)'
<1>1. PICK t \in tasks :
          TaskGet(t) \/ TaskCreate(t) \/ TaskLabel(t) \/ TaskDelete(t) \/ TaskUnlabel(t)
    BY DEF NodeTaskStep
<1>2. UNCHANGED <<pods, queue, worker, workerTopo>>
    BY DEF NodeTaskStep
<1>3. t.pc \in {"get", "create", "label"}
    BY <1>1 DEF UsageInv, LedgerInv, ServedInv
<1>4. cm' = cm
    BY <1>1, <1>3 DEF TaskGet, TaskCreate, TaskLabel, TaskDelete, TaskUnlabel, UsageInv, LedgerInv, Boot
<1>5. Promised' = Promised
    BY <1>2, <1>4 DEF Promised
<1>6. QED
    BY <1>2, <1>5, QuietUsage

\* The initial state: no pods, no allocations.
LEMMA InitUsage == Init /\ Environment /\ SingleReservation => UsageInv
<1> SUFFICES ASSUME Init, Environment, SingleReservation PROVE UsageInv
    OBVIOUS
<1>1. LedgerInv
    BY InitLedger
<1>2. queue = <<>> /\ Promised = FreshTopology /\ ReservedFirst(pods)
    BY DEF Init, Promised, ReservedFirst
<1>3. UsageState(pods, queue, FreshTopology) /\ Indexed(pods, FreshTopology)
    BY <1>2, EmptyQueue, BlankUsage
<1>4. QED
    BY <1>1, <1>2, <1>3 DEF UsageInv

\* Every undisturbed step keeps the invariant.
LEMMA UsageStep == UsageInv /\ Inv /\ Undisturbed' /\ [Next]_vars => UsageInv'
<1> SUFFICES ASSUME UsageInv, Inv, Undisturbed', [Next]_vars
             PROVE  UsageState(pods, queue, Promised)' /\ Indexed(pods, Promised)'
    BY LedgerStep DEF UsageInv, SingleReservation
<1>1. Inv'
    BY NextInv
<1>2. restarts \in Nat /\ nodeEvents \in Nat /\ faults \in Nat
    BY DEF Inv, TypeOK
<1>3. ASSUME NEW p \in Pods, BindPod(p) \/ StartPod(p) \/ FinishPod(p) \/ RemovePod(p)
      PROVE  UsageState(pods, queue, Promised)' /\ Indexed(pods, Promised)'
    BY <1>1, <1>3, BindPodUsage, AgingUsage
<1>4. ASSUME NEW p \in Pods, AllocateClaim(p) \/ ReleaseClaim(p)
      PROVE  UsageState(pods, queue, Promised)' /\ Indexed(pods, Promised)'
    BY <1>4, QuietUsage DEF AllocateClaim, ReleaseClaim, Promised
<1>5. ASSUME NEW p \in Pods, RemovePodUnseen(p) PROVE FALSE
    BY <1>2, <1>5 DEF RemovePodUnseen, Undisturbed, NodeUndisturbed
<1>6. ASSUME NEW new, ChangeNode(new) PROVE FALSE
    BY <1>2, <1>6 DEF ChangeNode, Undisturbed, NodeUndisturbed
<1>7. CASE PodApply
    BY <1>7, QuietUsage DEF PodApply, Promised
<1>8. CASE PodWorker /\ ~PodApply
    BY <1>1, <1>8, AddDedicatedUsage, DraUsage, OwnerUsage, SharerUsage, DropUsage DEF PodWorker
<1>9. CASE PodCallFails \/ NodeCallFails \/ PruneCallFails \/ Crash
    BY <1>2, <1>9 DEF PodCallFails, NodeCallFails, PruneCallFails, Crash, Undisturbed, NodeUndisturbed
<1>10. CASE Prune
    <2>1. UNCHANGED <<pods, queue, cm, worker, workerTopo>>
        BY <1>10 DEF Prune, PruneList, PruneDelete, PruneCheck, PruneApply, UsageInv, LedgerInv, Boot
    <2>2. QED
        BY <2>1, QuietUsage DEF Promised
<1>11. CASE NodeTaskStep \/ Start
    BY <1>1, <1>11, NodeTaskUsage, StartUsage
<1>12. CASE UNCHANGED vars
    BY <1>12, QuietUsage DEF vars, Promised
<1>13. QED
    BY <1>3, <1>4, <1>5, <1>6, <1>7, <1>8, <1>9, <1>10, <1>11, <1>12 DEF Next

\* The invariant holds as long as nothing disturbs the status updater.
LEMMA UsageHolds == Environment /\ SingleReservation /\ Spec /\ []Undisturbed => []UsageInv
BY InitUsage, UsageStep, Invariance, PTL DEF Spec

\* Once nothing is left to do, what holds a GPU is alive and no entry is excused.
LEMMA Settled ==
    ASSUME UsageInv, Inv, Quiescent
    PROVE  /\ queue = <<>> /\ \A p : Later(queue, p, 0) = {}
           /\ \A p \in LivePods(pods, queue, 0) : Alive(p)
           /\ Holdings(pods, queue, cm) /\ UsageState(pods, queue, cm) /\ Indexed(pods, cm)
           /\ \A g \in GPU : cm[g].by # NoPod => cm[g].by \in Pods /\ Alive(cm[g].by)
           /\ \A g \in GPU : \A p : ~Excused(pods, p, cm[g].by)
<1>1. queue = <<>> /\ Holdings(pods, queue, cm) /\ UsageState(pods, queue, cm) /\ Indexed(pods, cm)
    BY DEF UsageInv, LedgerInv, Quiescent, Promised
<1>2. \A p : Later(queue, p, 0) = {}
    BY <1>1 DEF Later
<1>3. \A p \in LivePods(pods, queue, 0) : Alive(p)
    BY <1>2 DEF LivePods, Alive
<1>4. ASSUME NEW g \in GPU, cm[g].by # NoPod PROVE cm[g].by \in Pods /\ Alive(cm[g].by)
    <2>1. cm[g].by \in Pods /\ g \in Held(cm, cm[g].by)
        BY <1>4 DEF Inv, TypeOK, Topology, GpuStatus, Held
    <2>2. QED
        BY <1>1, <1>3, <2>1 DEF Holdings
<1>5. ASSUME NEW g \in GPU, NEW p PROVE ~Excused(pods, p, cm[g].by)
    BY <1>4, NodeTopologyAssumption DEF Excused, Alive, LivePhase
<1>6. QED
    BY <1>1, <1>2, <1>3, <1>4, <1>5

\* While nothing disturbs the status updater no deletion is lost on the way: once
\* all events are handled every GPU is free or allocated to a live pod, and every
\* usage entry is that of a live incarnation.
THEOREM AllocationNeverStale ==
    Environment /\ SingleReservation /\ Spec /\ []Undisturbed => []NoStaleAllocation
<1>1. UsageInv /\ Inv => NoStaleAllocation
    <2> SUFFICES ASSUME UsageInv, Inv, Quiescent, NEW g \in GPU
                 PROVE  /\ cm[g].by # NoPod => Alive(cm[g].by)
                        /\ \A u \in Uid : cm[g].usage[u] # "none" => Alive(u[1]) /\ u[2] = pods[u[1]].uid
        BY DEF NoStaleAllocation
    <2>1. ASSUME NEW u \in Uid, cm[g].usage[u] # "none" PROVE Alive(u[1]) /\ u[2] = pods[u[1]].uid
        <3>1. u[1] \in LivePods(pods, queue, 0) /\ Incarnation(pods, queue, u[1], 0, u[2])
            BY <2>1, Settled DEF UsageState, Entries
        <3>2. QED
            BY <3>1, Settled DEF Incarnation
    <2>2. QED
        BY <2>1, Settled
<1>2. QED
    BY UsageHolds, <1>1, Invariance, PTL

\* ... every live pod has the usage of its present phase on its GPUs, a sharer on
\* that of its reservation pod, whatever order additions, updates and deletions of
\* several incarnations were handled in.
THEOREM UsageAlwaysCurrent ==
    Environment /\ SingleReservation /\ Spec /\ []Undisturbed => []UsageIsCurrent
<1>1. UsageInv /\ Inv => UsageIsCurrent
    <2> SUFFICES ASSUME UsageInv, Inv, Quiescent, NEW p \in Pods, NEW g \in GPU,
                        Alive(p), MayUse(p, cm[g].by)
                 PROVE  cm[g].usage[<<p, pods[p].uid>>] = pods[p].phase
        BY DEF UsageIsCurrent
    <2>1. Current(pods, queue, cm) /\ Later(queue, p, 0) = {} /\ ~Excused(pods, p, cm[g].by)
        BY Settled DEF UsageState
    <2>2. QED
        BY <2>1 DEF Current, FilterFunc, Alive
<1>2. QED
    BY UsageHolds, <1>1, Invariance, PTL

\* ... and the index annotation of a live reservation pod names the GPU that the
\* ConfigMap gives it.
THEOREM IndexAlwaysAgrees ==
    Environment /\ SingleReservation /\ Spec /\ []Undisturbed => []ReservationIndexAgrees
<1>1. UsageInv /\ Inv => ReservationIndexAgrees
    <2> SUFFICES ASSUME UsageInv, Inv, Quiescent, NEW r \in Pods, Alive(r), IsGpuReservationPod(r)
                 PROVE  Held(cm, r) = {pods[r].idx}
        BY DEF ReservationIndexAgrees
    <2>1. r \in LivePods(pods, queue, 0) /\ Holdings(pods, queue, cm) /\ Indexed(pods, cm)
        BY Settled DEF LivePods, Alive
    <2>2. Cardinality(Held(cm, r)) = 1
        BY <2>1 DEF Holdings, Full, Alive, LivePhase, UsageInv, SingleReservation,
           IsDedicatedGpuPod, IsGpuReservationPod
    <2>3. Held(cm, r) # {}
        BY <2>2, FS_EmptySet
    <2>4. QED
        BY <2>1, <2>3 DEF Indexed, FilterFunc, Alive
<1>2. QED
    BY UsageHolds, <1>1, Invariance, PTL
=============================================================================
