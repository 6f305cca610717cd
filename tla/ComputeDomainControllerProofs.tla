-------------------- MODULE ComputeDomainControllerProofs --------------------
(***************************************************************************)
(* No template keeps the controller's finalizer longer than its domain     *)
(* does, a live domain has a template of its own, and what a controller    *)
(* with nothing left to do leaves is served, for every set of domains,     *)
(* templates, claims and nodes and every bound.                            *)
(***************************************************************************)
EXTENDS ComputeDomainController, FiniteSetTheorems, TLAPS

\* What a cached domain says of the one at the API server.
Follows(d, obj) ==
    /\ obj.uid <= domains[d].uid
    /\ obj.phase = "live" /\ obj.fin =>
          domains[d].uid = obj.uid /\ domains[d].phase # "absent" /\ domains[d].fin
    /\ obj.phase = "deleting" => ~(domains[d].phase = "live" /\ domains[d].uid = obj.uid)

CacheFollows == \A d \in Domains : Follows(d, cachedDomains[d])

\* The controller gives a template the name its owner's spec asks for.
NamedByOwner ==
    \A t \in Templates :
        /\ templates[t].fin => templates[t].phase # "absent"
        /\ templates[t].fin => templates[t].owner \in Domains /\ TemplateOf[templates[t].owner] = t

\* A Reconcile that makes a template: the incarnation it read still has its finalizer.
Making ==
    rec.pc \in {"template", "create", "list", "status"} =>
        rec.obj.phase = "live" /\ rec.obj.fin /\ Follows(rec.d, rec.obj)

\* A Reconcile that removes one: the cache does not show the domain live any more,
\* and what the template cache shows of a finalizer is true.
Removing ==
    rec.pc \in {"owned", "release", "delete", "unfinalize"} =>
        /\ rec.obj.phase = "deleting" /\ Follows(rec.d, rec.obj)
        /\ ~(cachedDomains[rec.d].phase = "live" /\ cachedDomains[rec.d].uid = rec.obj.uid)
        /\ rec.pc = "owned" /\ templates[Template0].fin =>
              /\ cachedTemplates[Template0].phase # "absent" /\ cachedTemplates[Template0].fin
              /\ cachedTemplates[Template0].owner = templates[Template0].owner
        /\ rec.pc = "delete" => ~templates[Template0].fin
        /\ rec.pc = "unfinalize" => ~(templates[Template0].fin /\ templates[Template0].owner = rec.d)

\* A Reconcile that adds the finalizer read a live domain.
Adding == rec.pc = "finalizer" => rec.obj.phase = "live" /\ rec.obj.uid <= domains[rec.d].uid

Inv == TypeOK /\ TemplateGuarded /\ CacheFollows /\ NamedByOwner /\ Making /\ Removing /\ Adding

USE DEF server, caches, bounds

\* How a domain may change when its finalizer is not taken away.
Grows(d) ==
    \/ domains'[d] = domains[d]
    \/ /\ domains[d].phase = "absent"
       /\ domains'[d].uid = domains[d].uid + 1 /\ domains'[d].phase = "live" /\ ~domains'[d].fin
    \/ /\ domains[d].phase = "live" /\ domains'[d].uid = domains[d].uid
       /\ domains[d].fin => domains'[d].fin /\ domains'[d].phase # "absent"

\* How templates may change when none is made.
Shrinks ==
    \A t \in Templates : templates'[t].fin =>
        /\ templates[t].fin /\ templates'[t].phase # "absent"
        /\ templates'[t].owner = templates[t].owner /\ templates'[t].uid = templates[t].uid

\* A Reconcile in progress is a record of its own kind.
LEMMA RecType ==
    ASSUME TypeOK
    PROVE  /\ rec.pc # "idle" => rec \in Rec
           /\ rec = Idle => rec.pc = "idle"
BY DEF TypeOK, Idle

\* What a cached domain tells stays true while no finalizer is taken away.
LEMMA CacheKept ==
    ASSUME TypeOK, CacheFollows, \A d \in Domains : Grows(d), UNCHANGED cachedDomains
    PROVE  CacheFollows'
<1>1. ASSUME NEW d \in Domains PROVE Follows(d, cachedDomains[d])'
    <2>1. cachedDomains[d] \in Domain /\ domains[d] \in Domain /\ Follows(d, cachedDomains[d])
        BY DEF TypeOK, CacheFollows
    <2>2. Grows(d) /\ cachedDomains' = cachedDomains
        OBVIOUS
    <2>3. QED
        BY <2>1, <2>2, ComputeDomainControllerAssumption DEF Follows, Grows, Domain
<1>2. QED
    BY <1>1 DEF CacheFollows

\* ... and so does the guard of the templates that stay.
LEMMA GuardKept ==
    ASSUME TypeOK, TemplateGuarded, NamedByOwner, Shrinks, \A d \in Domains : Grows(d)
    PROVE  TemplateGuarded' /\ NamedByOwner'
<1>1. ASSUME NEW t \in Templates, templates'[t].fin
      PROVE  /\ OwnerExists(templates[t])' /\ domains'[templates'[t].owner].fin
             /\ templates'[t].phase # "absent"
             /\ templates'[t].owner \in Domains /\ TemplateOf[templates'[t].owner] = t
    <2> DEFINE o == templates[t].owner
    <2>1. /\ templates[t].fin /\ templates'[t].phase # "absent"
          /\ templates'[t].owner = o /\ templates'[t].uid = templates[t].uid
        BY <1>1 DEF Shrinks
    <2>2. o \in Domains /\ TemplateOf[o] = t
        BY <2>1 DEF NamedByOwner
    <2>3. domains[o].uid = templates[t].uid /\ domains[o].phase # "absent" /\ domains[o].fin
        BY <2>1 DEF TemplateGuarded, OwnerExists
    <2>4. Grows(o)
        BY <2>2
    <2>5. domains'[o].uid = templates[t].uid /\ domains'[o].phase # "absent" /\ domains'[o].fin
        BY <2>3, <2>4 DEF Grows
    <2>6. QED
        BY <2>1, <2>2, <2>5 DEF OwnerExists
<1>2. QED
    BY <1>1 DEF TemplateGuarded, NamedByOwner

\* A step of the cluster leaves the controller and its caches alone.
LEMMA ClusterInv ==
    ASSUME Inv, TypeOK', Shrinks, \A d \in Domains : Grows(d), UNCHANGED <<caches, rec>>
    PROVE  Inv'
<1>1. TypeOK /\ TemplateGuarded /\ CacheFollows /\ NamedByOwner /\ Making /\ Removing /\ Adding
    BY DEF Inv
<1>2. TemplateGuarded' /\ NamedByOwner'
    BY <1>1, GuardKept
<1>3. CacheFollows'
    BY <1>1, CacheKept
<1>4. CASE rec.pc = "idle"
    BY <1>1, <1>2, <1>3, <1>4 DEF Inv, Making, Removing, Adding
<1>5. CASE rec.pc # "idle"
    <2>1. rec \in Rec /\ rec' = rec
        BY <1>1, <1>5, RecType
    <2>2. rec.d \in Domains /\ rec.obj \in Domain /\ domains[rec.d] \in Domain
          /\ Template0 \in Templates /\ Template0' = Template0
        BY <1>1, <2>1, ComputeDomainControllerAssumption DEF Rec, TypeOK, Template0
    <2>3. Grows(rec.d)
        BY <2>2
    <2>4. Follows(rec.d, rec.obj) => Follows(rec.d, rec.obj)'
        BY <2>1, <2>2, <2>3, ComputeDomainControllerAssumption DEF Follows, Grows, Domain
    <2>5. Making'
        BY <1>1, <2>1, <2>4 DEF Making
    <2>6. Removing'
        <3>1. templates'[Template0].fin =>
                 templates[Template0].fin /\ templates'[Template0].owner = templates[Template0].owner
            BY <2>2 DEF Shrinks
        <3>2. QED
            BY <1>1, <2>1, <2>2, <2>4, <3>1 DEF Removing
    <2>7. Adding'
        BY <1>1, <2>1, <2>2, <2>3, ComputeDomainControllerAssumption DEF Adding, Grows, Domain
    <2>8. QED
        BY <1>2, <1>3, <2>5, <2>6, <2>7 DEF Inv
<1>6. QED
    BY <1>4, <1>5

\* A Reconcile that ends, or that fails, leaves the rest to the next one.
LEMMA EndInv ==
    ASSUME Inv, TypeOK', Shrinks, \A d \in Domains : Grows(d), UNCHANGED caches, rec' = Idle
    PROVE  Inv'
<1>1. TypeOK /\ TemplateGuarded /\ CacheFollows /\ NamedByOwner
    BY DEF Inv
<1>2. TemplateGuarded' /\ NamedByOwner'
    BY <1>1, GuardKept
<1>3. CacheFollows'
    BY <1>1, CacheKept
<1>4. rec'.pc = "idle"
    BY DEF Idle
<1>5. QED
    BY <1>2, <1>3, <1>4 DEF Inv, Making, Removing, Adding

\* The types of the objects the cluster changes.
LEMMA DeletedTypes ==
    /\ \A obj \in Domain : DeletedDomain(obj) \in Domain
    /\ \A tmpl \in Template : DeletedTemplate(tmpl) \in Template
    /\ NoTemplate \in Template /\ NoClaim \in Claim
    /\ \A uid \in 0..MaxUid : NewDomain(uid) \in Domain
BY ComputeDomainControllerAssumption
   DEF DeletedDomain, DeletedTemplate, NoTemplate, NoClaim, NewDomain, Domain, Template, Claim, Phase

\* What ensureFinalizer makes of the domain it read.
LEMMA WithFinalizer ==
    ASSUME NEW obj \in Domain
    PROVE  LET new == [obj EXCEPT !.fin = TRUE]
           IN  new \in Domain /\ new.uid = obj.uid /\ new.phase = obj.phase /\ new.fin /\ new.uid \in Int
<1> DEFINE new == [obj EXCEPT !.fin = TRUE]
<1>1. new \in Domain
    BY DEF Domain
<1>2. new.uid = obj.uid /\ new.phase = obj.phase
    BY DEF Domain
<1>3. new.fin
    BY DEF Domain
<1>4. new.uid \in Int
    BY <1>2, ComputeDomainControllerAssumption DEF Domain
<1>5. QED
    BY <1>1, <1>2, <1>3, <1>4

\* Init, with nothing in any cache.
LEMMA InitInv == Init => Inv
<1> SUFFICES ASSUME Init PROVE Inv
    OBVIOUS
<1>0. NewDomain(0) \in Domain /\ [NewDomain(0) EXCEPT !.phase = "absent"] \in Domain
    BY DeletedTypes, ComputeDomainControllerAssumption DEF Domain, Phase
<1>1. TypeOK
    BY <1>0, DeletedTypes DEF Init, TypeOK
<1>2. rec.pc = "idle"
    BY DEF Init, Idle
<1>3. TemplateGuarded /\ NamedByOwner
    BY DEF Init, TemplateGuarded, NamedByOwner, NoTemplate
<1>4. CacheFollows
    BY <1>1 DEF Init, CacheFollows, Follows, NewDomain, TypeOK, Domain
<1>5. QED
    BY <1>1, <1>2, <1>3, <1>4 DEF Inv, Making, Removing, Adding

\* Users, the scheduler, the claim controller and the garbage collector.
LEMMA ClusterStep == ASSUME Inv, Cluster PROVE Inv'
<1>0. TypeOK
    BY DEF Inv
<1> USE DEF Change
<1>1. ASSUME NEW d \in Domains, CreateDomain(d) PROVE Inv'
    <2>1. domains[d] \in Domain /\ domains[d].uid + 1 \in 0..MaxUid
        BY <1>0, <1>1, ComputeDomainControllerAssumption DEF CreateDomain, TypeOK, Domain
    <2>2. NewDomain(domains[d].uid + 1) \in Domain
        BY <2>1, DeletedTypes
    <2>3. TypeOK'
        BY <1>0, <1>1, <2>2 DEF CreateDomain, TypeOK
    <2>4. ASSUME NEW e \in Domains PROVE Grows(e)
        BY <1>0, <1>1, <2>1 DEF CreateDomain, TypeOK, Grows, NewDomain
    <2>5. Shrinks
        BY <1>0, <1>1, <2>3 DEF CreateDomain, Shrinks, Inv, NamedByOwner
    <2>6. QED
        BY <1>1, <2>3, <2>4, <2>5, ClusterInv DEF CreateDomain
<1>2. ASSUME NEW d \in Domains, DeleteDomain(d) PROVE Inv'
    <2>1. domains[d] \in Domain
        BY <1>0 DEF TypeOK
    <2>2. DeletedDomain(domains[d]) \in Domain
        BY <2>1, DeletedTypes
    <2>3. TypeOK'
        BY <1>0, <1>2, <2>2 DEF DeleteDomain, TypeOK
    <2>4. ASSUME NEW e \in Domains PROVE Grows(e)
        BY <1>0, <1>2, <2>1 DEF DeleteDomain, TypeOK, Grows, DeletedDomain, Domain
    <2>5. Shrinks
        BY <1>0, <1>2 DEF DeleteDomain, Shrinks, Inv, NamedByOwner
    <2>6. QED
        BY <1>2, <2>3, <2>4, <2>5, ClusterInv DEF DeleteDomain
<1>3. ASSUME NEW t \in Templates, templates' = [templates EXCEPT ![t] = DeletedTemplate(@)],
             UNCHANGED <<domains, claims, caches, queue, rec, faults, restarts, stale>>, changes' \in Nat
      PROVE  Inv'
    <2>1. templates[t] \in Template
        BY <1>0 DEF TypeOK
    <2>2. DeletedTemplate(templates[t]) \in Template
        BY <2>1, DeletedTypes
    <2>3. TypeOK'
        BY <1>0, <1>3, <2>2 DEF TypeOK
    <2>4. ASSUME NEW e \in Domains PROVE Grows(e)
        BY <1>3 DEF Grows
    <2>5. Shrinks
        BY <1>0, <1>3, <2>1 DEF Shrinks, TypeOK, DeletedTemplate, NoTemplate, Template, Inv, NamedByOwner
    <2>6. QED
        BY <1>3, <2>3, <2>4, <2>5, ClusterInv
<1>4. ASSUME NEW c \in Claims, NEW new \in Claim, claims' = [claims EXCEPT ![c] = new],
             UNCHANGED <<domains, templates, caches, queue, rec, faults, restarts, stale>>, changes' \in Nat
      PROVE  Inv'
    <2>1. TypeOK'
        BY <1>0, <1>4 DEF TypeOK
    <2>2. ASSUME NEW e \in Domains PROVE Grows(e)
        BY <1>4 DEF Grows
    <2>3. Shrinks
        BY <1>4 DEF Shrinks, Inv, NamedByOwner
    <2>4. QED
        BY <1>4, <2>1, <2>2, <2>3, ClusterInv
<1>5. ASSUME NEW t \in Templates, UserDeletesTemplate(t) \/ CollectGarbage(t) PROVE Inv'
    <2>1. changes' \in Nat
        BY <1>0, <1>5 DEF UserDeletesTemplate, CollectGarbage, TypeOK
    <2>2. QED
        BY <1>3, <1>5, <2>1 DEF UserDeletesTemplate, CollectGarbage
<1>6. ASSUME NEW c \in Claims, NEW t \in Templates, CreateClaim(c, t) PROVE Inv'
    <2>1. [NoClaim EXCEPT !.domain = templates[t].owner] \in Claim
        BY <1>0 DEF TypeOK, Template, NoClaim, Claim
    <2>2. changes' \in Nat
        BY <1>0, <1>6 DEF CreateClaim, TypeOK
    <2>3. QED
        BY <1>4, <1>6, <2>1, <2>2 DEF CreateClaim
<1>7. ASSUME NEW c \in Claims, NEW n \in Nodes, AllocateClaim(c, n) PROVE Inv'
    <2>1. [claims[c] EXCEPT !.node = n] \in Claim
        BY <1>0 DEF TypeOK, Claim
    <2>2. claims' = [claims EXCEPT ![c] = [claims[c] EXCEPT !.node = n]] /\ changes' \in Nat
        BY <1>0, <1>7 DEF AllocateClaim, TypeOK
    <2>3. QED
        BY <1>4, <1>7, <2>1, <2>2 DEF AllocateClaim
<1>8. ASSUME NEW c \in Claims, DeleteClaim(c) PROVE Inv'
    <2>1. changes' \in Nat
        BY <1>0, <1>8 DEF DeleteClaim, TypeOK
    <2>2. QED
        BY <1>4, <1>8, <2>1, DeletedTypes DEF DeleteClaim
<1>9. QED
    BY <1>1, <1>2, <1>5, <1>6, <1>7, <1>8 DEF Cluster

\* The informers.
LEMMA SyncStep == ASSUME Inv, Sync PROVE Inv'
<1>0. TypeOK /\ TemplateGuarded /\ CacheFollows /\ NamedByOwner /\ Making /\ Removing /\ Adding
    BY DEF Inv
<1>1. ASSUME NEW d \in Domains, SyncDomain(d) PROVE Inv'
    <2>1. /\ cachedDomains' = [cachedDomains EXCEPT ![d] = domains[d]]
          /\ UNCHANGED <<server, cachedTemplates, cachedClaims, rec, bounds>>
        BY <1>1 DEF SyncDomain
    <2>2. TypeOK'
        BY <1>0, <1>1 DEF SyncDomain, TypeOK
    <2>3. TemplateGuarded' /\ NamedByOwner' /\ Making' /\ Adding'
        BY <1>0, <2>1 DEF TemplateGuarded, OwnerExists, NamedByOwner, Making, Adding, Follows
    <2>4. CacheFollows'
        <3>1. ASSUME NEW e \in Domains PROVE Follows(e, cachedDomains[e])'
            <4>1. domains[e] \in Domain /\ cachedDomains[e] \in Domain /\ Follows(e, cachedDomains[e])
                BY <1>0 DEF TypeOK, CacheFollows
            <4>2. cachedDomains'[e] = domains[e] \/ cachedDomains'[e] = cachedDomains[e]
                BY <1>0, <2>1 DEF TypeOK
            <4>3. QED
                BY <2>1, <4>1, <4>2, ComputeDomainControllerAssumption DEF Follows, Domain
        <3>2. QED
            BY <3>1 DEF CacheFollows
    <2>5. Removing'
        <3>1. CASE rec.pc = "idle"
            BY <2>1, <3>1 DEF Removing
        <3>2. CASE rec.pc # "idle"
            <4>1. rec.d \in Domains
                BY <1>0, <3>2, RecType DEF Rec
            <4>2. cachedDomains'[rec.d] = domains[rec.d] \/ cachedDomains'[rec.d] = cachedDomains[rec.d]
                BY <1>0, <2>1, <4>1 DEF TypeOK
            <4>3. QED
                BY <1>0, <2>1, <4>2 DEF Removing, Follows, Template0
        <3>3. QED
            BY <3>1, <3>2
    <2>6. QED
        BY <2>2, <2>3, <2>4, <2>5 DEF Inv
<1>2. ASSUME NEW t \in Templates, SyncTemplate(t) PROVE Inv'
    <2>1. /\ cachedTemplates' = [cachedTemplates EXCEPT ![t] = templates[t]]
          /\ UNCHANGED <<server, cachedDomains, cachedClaims, rec, bounds>>
        BY <1>2 DEF SyncTemplate
    <2>2. TypeOK'
        BY <1>0, <1>2 DEF SyncTemplate, TypeOK
    <2>3. TemplateGuarded' /\ NamedByOwner' /\ Making' /\ Adding' /\ CacheFollows'
        BY <1>0, <2>1 DEF TemplateGuarded, OwnerExists, NamedByOwner, Making, Adding, Follows, CacheFollows
    <2>4. Removing'
        <3>1. CASE rec.pc = "idle"
            BY <2>1, <3>1 DEF Removing
        <3>2. CASE rec.pc # "idle"
            <4>1. Template0 \in Templates
                BY <1>0, <3>2, RecType, ComputeDomainControllerAssumption DEF Rec, Template0
            <4>2. \/ cachedTemplates'[Template0] = templates[Template0]
                  \/ cachedTemplates'[Template0] = cachedTemplates[Template0]
                BY <1>0, <2>1, <4>1 DEF TypeOK
            <4>3. templates[Template0].fin => templates[Template0].phase # "absent"
                BY <1>0, <4>1 DEF NamedByOwner
            <4>4. QED
                BY <1>0, <2>1, <4>2, <4>3 DEF Removing, Follows, Template0
        <3>3. QED
            BY <3>1, <3>2
    <2>5. QED
        BY <2>2, <2>3, <2>4 DEF Inv
<1>3. ASSUME NEW c \in Claims, SyncClaim(c) PROVE Inv'
    <2>1. TypeOK'
        BY <1>0, <1>3 DEF SyncClaim, TypeOK
    <2>2. UNCHANGED <<server, cachedDomains, cachedTemplates, rec>>
        BY <1>3 DEF SyncClaim
    <2>3. QED
        BY <1>0, <2>1, <2>2 DEF Inv, TemplateGuarded, OwnerExists, NamedByOwner, Making, Adding,
                                Removing, Follows, CacheFollows, Template0
<1>4. QED
    BY <1>1, <1>2, <1>3 DEF Sync

\* The worker takes a key while the template cache is up to date.
LEMMA TakeStep == ASSUME Inv, NEW d \in Domains, Take(d), ~stale' PROVE Inv'
<1>0. TypeOK /\ TemplateGuarded /\ CacheFollows /\ NamedByOwner
    BY DEF Inv
<1>1. UNCHANGED <<server, caches, bounds>> /\ cachedTemplates = templates /\ rec = Idle
    BY DEF Take, Inv, TypeOK
<1>2. TemplateGuarded' /\ CacheFollows' /\ NamedByOwner'
    BY <1>0, <1>1 DEF TemplateGuarded, OwnerExists, CacheFollows, Follows, NamedByOwner
<1>3. CASE rec' = rec
    <2>1. TypeOK'
        BY <1>0, <1>1, <1>3 DEF TypeOK, Take
    <2>2. rec'.pc = "idle"
        BY <1>1, <1>3 DEF Idle
    <2>3. QED
        BY <1>2, <2>1, <2>2 DEF Inv, Making, Removing, Adding
<1>4. ASSUME NEW pc \in FirstStep(cachedDomains[d]),
             rec' = [pc |-> pc, d |-> d, obj |-> cachedDomains[d], tmpl |-> NoTemplate, nodes |-> {}]
      PROVE  Inv'
    <2>1. cachedDomains[d] \in Domain /\ Follows(d, cachedDomains[d]) /\ TemplateOf[d] \in Templates
        BY <1>0, ComputeDomainControllerAssumption DEF TypeOK, CacheFollows
    <2>2. \/ pc = "template" /\ cachedDomains[d].phase = "live" /\ cachedDomains[d].fin
          \/ pc = "finalizer" /\ cachedDomains[d].phase = "live"
          \/ pc = "owned" /\ cachedDomains[d].phase = "deleting"
        BY <1>4, <2>1 DEF FirstStep, Domain, Phase
    <2>3. rec' \in Rec
        BY <1>4, <2>1, <2>2, DeletedTypes DEF Rec, Step
    <2>4. TypeOK'
        BY <1>0, <1>1, <2>3 DEF TypeOK, Take
    <2>5. rec'.pc = pc /\ rec'.d = d /\ rec'.obj = cachedDomains[d]
        BY <1>4
    <2>6. Making' /\ Adding'
        BY <1>1, <2>1, <2>2, <2>5 DEF Making, Adding, Follows
    <2>7. Removing'
        <3>1. templates[TemplateOf[d]].fin => templates[TemplateOf[d]].phase # "absent"
            BY <1>0, <2>1 DEF NamedByOwner
        <3>2. QED
            BY <1>1, <2>1, <2>2, <2>5, <3>1 DEF Removing, Follows, Template0
    <2>8. QED
        BY <1>2, <2>4, <2>6, <2>7 DEF Inv
<1>5. QED
    BY <1>3, <1>4 DEF Take

\* A Reconcile that reads, or that ends without a write.
LEMMA ServerSame ==
    ASSUME Inv, UNCHANGED <<server, caches>>
    PROVE  /\ TemplateGuarded' /\ CacheFollows' /\ NamedByOwner'
           /\ Shrinks /\ \A d \in Domains : Grows(d)
BY DEF Inv, TemplateGuarded, OwnerExists, CacheFollows, Follows, NamedByOwner, Shrinks, Grows

\* Fail puts the key back.
LEMMA FailStep ==
    ASSUME Inv, rec.pc # "idle", Fail, UNCHANGED <<server, caches, changes, restarts, stale>>, faults' \in Nat
    PROVE  Inv'
<1>1. rec \in Rec /\ TypeOK
    BY RecType DEF Inv
<1>2. TypeOK'
    BY <1>1 DEF Fail, TypeOK, Rec
<1>3. QED
    BY <1>2, ServerSame, EndInv DEF Fail

\* The steps of Reconcile.
LEMMA ReconcileStep == ASSUME Inv, Reconcile PROVE Inv'
<1> DEFINE d == rec.d
           T == Template0
<1>0. /\ TypeOK /\ TemplateGuarded /\ CacheFollows /\ NamedByOwner /\ Making /\ Removing /\ Adding
      /\ UNCHANGED <<caches, bounds, stale>> /\ faults' \in Nat
    BY DEF Inv, Reconcile, TypeOK
<1>a. ASSUME rec.pc # "idle"
      PROVE  /\ rec \in Rec /\ d \in Domains /\ T \in Templates
             /\ rec.obj \in Domain /\ rec.tmpl \in Template /\ rec.nodes \subseteq Nodes
             /\ domains[d] \in Domain /\ templates[T] \in Template
             /\ cachedTemplates[T] \in Template
    <2>1. rec \in Rec
        BY <1>0, <1>a, RecType
    <2>2. d \in Domains /\ rec.obj \in Domain /\ rec.tmpl \in Template /\ rec.nodes \subseteq Nodes
        BY <2>1 DEF Rec
    <2>3. T \in Templates
        BY <2>2, ComputeDomainControllerAssumption DEF Template0
    <2>4. QED
        BY <1>0, <2>1, <2>2, <2>3 DEF TypeOK
<1>b. ASSUME NEW pc \in Step, rec \in Rec
      PROVE  [rec EXCEPT !.pc = pc] \in Rec
    BY <1>b DEF Rec
<1> HIDE DEF d, T
<1>1. CASE AddFinalizer
    <2>0. rec.pc = "finalizer" /\ rec.obj.phase = "live" /\ UNCHANGED <<templates, claims>>
        BY <1>0, <1>1 DEF AddFinalizer, Adding
    <2>a. rec \in Rec /\ d \in Domains /\ rec.obj \in Domain /\ domains[d] \in Domain
        BY <1>a, <2>0
    <2>1. CASE ~Current
        BY <1>0, <1>1, <2>0, <2>1, FailStep DEF AddFinalizer
    <2>2. CASE Current
        <3> DEFINE new == [rec.obj EXCEPT !.fin = TRUE]
        <3>1. /\ domains[d] = rec.obj /\ domains' = [domains EXCEPT ![d] = new]
              /\ rec' = [rec EXCEPT !.pc = "template", !.obj = new] /\ UNCHANGED queue
            BY <1>1, <2>2 DEF AddFinalizer, Current, d
        <3>2. /\ new \in Domain /\ new.uid = rec.obj.uid /\ new.phase = "live" /\ new.fin
              /\ new.uid \in Int
            BY <2>0, <2>a, WithFinalizer
        <3> HIDE DEF new
        <3>3. rec' \in Rec /\ rec'.pc = "template" /\ rec'.obj = new /\ rec'.d = d
            BY <2>a, <3>1, <3>2 DEF Rec, Step, d
        <3>4. TypeOK'
            BY <1>0, <2>0, <2>a, <3>1, <3>2, <3>3 DEF TypeOK
        <3>5. ASSUME NEW e \in Domains PROVE Grows(e)
            BY <1>0, <2>0, <2>a, <3>1, <3>2 DEF Grows, TypeOK
        <3>6. Shrinks
            BY <1>0, <2>0 DEF Shrinks, NamedByOwner
        <3>7. TemplateGuarded' /\ NamedByOwner' /\ CacheFollows'
            BY <1>0, <3>5, <3>6, GuardKept, CacheKept
        <3>8. domains'[d] = new
            BY <1>0, <2>a, <3>1 DEF TypeOK
        <3>9. Making' /\ Removing' /\ Adding'
            BY <3>2, <3>3, <3>8 DEF Making, Removing, Adding, Follows
        <3>10. QED
            BY <3>4, <3>7, <3>9 DEF Inv
    <2>3. QED
        BY <2>1, <2>2
<1>2. CASE FindTemplate \/ ListClaims
    <2>0. /\ rec.pc \in {"template", "list"} /\ UNCHANGED <<server, queue>>
          /\ rec \in Rec /\ rec.d \in Domains
        BY <1>2, <1>a DEF FindTemplate, ListClaims, Goto, d
    <2>1. NodesOf(rec.d, cachedClaims) \subseteq Nodes
        BY <1>0 DEF NodesOf, TypeOK, Claim
    <2>2. /\ rec' \in Rec /\ rec'.pc \in {"list", "create", "status"}
          /\ rec'.d = rec.d /\ rec'.obj = rec.obj
        BY <1>2, <2>0, <2>1 DEF FindTemplate, ListClaims, Goto, Rec, Step
    <2>3. TypeOK'
        BY <1>0, <2>0, <2>2 DEF TypeOK
    <2>4. Making' /\ Removing' /\ Adding'
        BY <1>0, <2>0, <2>2 DEF Making, Removing, Adding, Follows
    <2>5. QED
        BY <1>0, <2>0, <2>3, <2>4, ServerSame DEF Inv
<1>3. CASE CreateTemplate
    <2>0. /\ rec.pc = "create" /\ UNCHANGED <<domains, claims, queue>>
          /\ rec' = [rec EXCEPT !.pc = "list"]
        BY <1>3 DEF CreateTemplate, Goto
    <2>a. rec \in Rec /\ d \in Domains /\ T \in Templates /\ rec.obj \in Domain
        BY <1>a, <2>0
    <2>1. rec' \in Rec /\ rec'.pc = "list" /\ rec'.d = rec.d /\ rec'.obj = rec.obj
        BY <2>0, <2>a DEF Rec, Step
    <2>2. domains[d].uid = rec.obj.uid /\ domains[d].phase # "absent" /\ domains[d].fin
        BY <1>0, <2>0 DEF Making, Follows, d
    <2> DEFINE new == [phase |-> "live", fin |-> TRUE, owner |-> d, uid |-> rec.obj.uid]
    <2>3. templates' = templates \/ templates' = [templates EXCEPT ![T] = new]
        BY <1>3 DEF CreateTemplate, d, T
    <2>4. new \in Template /\ new.phase = "live" /\ new.fin /\ new.owner = d /\ new.uid = rec.obj.uid
        BY <2>a DEF Template, Phase, Domain
    <2> HIDE DEF new
    <2>5. TypeOK'
        BY <1>0, <2>0, <2>1, <2>3, <2>4 DEF TypeOK
    <2>6. T = TemplateOf[d]
        BY DEF T, d, Template0
    <2>7. ASSUME NEW t \in Templates
          PROVE  templates'[t] = templates[t] \/ (t = T /\ templates'[t] = new)
        BY <1>0, <2>3 DEF TypeOK
    <2>8. TemplateGuarded' /\ NamedByOwner'
        <3>1. ASSUME NEW t \in Templates, templates'[t].fin
              PROVE  /\ OwnerExists(templates[t])' /\ domains'[templates'[t].owner].fin
                     /\ templates'[t].phase # "absent"
                     /\ templates'[t].owner \in Domains /\ TemplateOf[templates'[t].owner] = t
            <4>1. CASE templates'[t] = templates[t]
                BY <1>0, <2>0, <3>1, <4>1 DEF TemplateGuarded, NamedByOwner, OwnerExists
            <4>2. CASE t = T /\ templates'[t] = new
                BY <2>0, <2>2, <2>a, <2>4, <2>6, <4>2 DEF OwnerExists
            <4>3. QED
                BY <2>7, <4>1, <4>2
        <3>2. QED
            BY <3>1 DEF TemplateGuarded, NamedByOwner
    <2>9. CacheFollows' /\ Making' /\ Removing' /\ Adding'
        BY <1>0, <2>0, <2>1 DEF CacheFollows, Making, Removing, Adding, Follows
    <2>10. QED
        BY <2>5, <2>8, <2>9 DEF Inv
<1>4. CASE WriteStatus
    <2> DEFINE status == StatusOf(rec.d, rec.nodes)
    <2>0. rec.pc = "status" /\ rec.obj.phase = "live" /\ UNCHANGED <<templates, claims>>
        BY <1>0, <1>4 DEF WriteStatus, Making
    <2>a. rec \in Rec /\ d \in Domains /\ rec.obj \in Domain /\ domains[d] \in Domain
          /\ rec.nodes \subseteq Nodes
        BY <1>a, <2>0
    <2>1. CASE StatusEqual(rec.obj, rec.nodes, status)
        <3>1. rec' = Idle /\ UNCHANGED <<domains, queue>>
            BY <1>4, <2>1 DEF WriteStatus, Done
        <3>2. TypeOK'
            BY <1>0, <2>0, <3>1 DEF TypeOK
        <3>3. QED
            BY <1>0, <2>0, <3>1, <3>2, ServerSame, EndInv
    <2>2. CASE ~StatusEqual(rec.obj, rec.nodes, status) /\ ~Current
        BY <1>0, <1>4, <2>0, <2>2, FailStep DEF WriteStatus
    <2>3. CASE ~StatusEqual(rec.obj, rec.nodes, status) /\ Current
        <3>1. /\ domains' = [domains EXCEPT ![d].status = status, ![d].nodes = rec.nodes]
              /\ rec' = Idle /\ UNCHANGED queue /\ domains[d] = rec.obj
            BY <1>4, <2>3 DEF WriteStatus, Done, Current, d
        <3>2. status \in {"NotReady", "Ready"}
            BY DEF StatusOf
        <3> HIDE DEF status
        <3>3. /\ domains'[d] \in Domain /\ domains'[d].uid = domains[d].uid
              /\ domains'[d].phase = domains[d].phase /\ domains'[d].fin = domains[d].fin
            BY <1>0, <2>a, <3>1, <3>2 DEF TypeOK, Domain
        <3>4. domains' \in [Domains -> Domain] /\ \A e \in Domains \ {d} : domains'[e] = domains[e]
            BY <1>0, <2>a, <3>1, <3>3 DEF TypeOK
        <3>5. TypeOK'
            BY <1>0, <2>0, <3>1, <3>4 DEF TypeOK
        <3>6. ASSUME NEW e \in Domains PROVE Grows(e)
            BY <2>0, <2>a, <3>1, <3>3, <3>4 DEF Grows
        <3>7. Shrinks
            BY <1>0, <2>0 DEF Shrinks, NamedByOwner
        <3>8. QED
            BY <1>0, <3>1, <3>5, <3>6, <3>7, EndInv
    <2>4. QED
        BY <2>1, <2>2, <2>3
<1>5. CASE FindOwned
    <2> DEFINE tmpl == cachedTemplates[T]
    <2>0. rec.pc = "owned" /\ UNCHANGED <<server, queue>>
        BY <1>5 DEF FindOwned
    <2>a. rec \in Rec /\ d \in Domains /\ T \in Templates /\ tmpl \in Template /\ templates[T] \in Template
        BY <1>a, <2>0
    <2>1. \E pc \in {"unfinalize", "release", "delete"} :
              /\ rec' = [rec EXCEPT !.tmpl = tmpl, !.pc = pc]
              /\ pc = "unfinalize" => tmpl.phase = "absent" \/ tmpl.owner # d
              /\ pc = "delete" => ~tmpl.fin
        BY <1>5, <2>a DEF FindOwned, IsOwnedBy, T, d, Template, Phase
    <2>2. PICK pc \in {"unfinalize", "release", "delete"} :
              /\ rec' = [rec EXCEPT !.tmpl = tmpl, !.pc = pc]
              /\ pc = "unfinalize" => tmpl.phase = "absent" \/ tmpl.owner # d
              /\ pc = "delete" => ~tmpl.fin
        BY <2>1
    <2>3. rec' \in Rec /\ rec'.pc = pc /\ rec'.d = rec.d /\ rec'.obj = rec.obj
        BY <2>2, <2>a DEF Rec, Step
    <2>4. TypeOK'
        BY <1>0, <2>0, <2>3 DEF TypeOK
    <2>5. templates[T].fin => tmpl.phase # "absent" /\ tmpl.fin /\ tmpl.owner = templates[T].owner
        BY <1>0, <2>0 DEF Removing, T
    <2>6. Template0' = T /\ templates' = templates
        BY <2>0, <2>3 DEF Template0, T
    <2>7. Removing'
        BY <1>0, <2>0, <2>2, <2>3, <2>5, <2>6 DEF Removing, Follows, d
    <2>8. Making' /\ Adding'
        BY <2>2, <2>3 DEF Making, Adding
    <2>9. QED
        BY <1>0, <2>0, <2>4, <2>7, <2>8, ServerSame DEF Inv
<1>6. CASE ReleaseTemplate
    <2>0. rec.pc = "release" /\ UNCHANGED <<domains, claims>>
        BY <1>6 DEF ReleaseTemplate
    <2>a. rec \in Rec /\ d \in Domains /\ T \in Templates /\ templates[T] \in Template
        BY <1>a, <2>0
    <2>1. CASE templates[T] # rec.tmpl
        BY <1>0, <1>6, <2>0, <2>1, FailStep DEF ReleaseTemplate, T
    <2>2. CASE templates[T] = rec.tmpl
        <3> DEFINE new == IF templates[T].phase = "deleting" THEN NoTemplate
                          ELSE [templates[T] EXCEPT !.fin = FALSE]
        <3>1. templates' = [templates EXCEPT ![T] = new] /\ rec' = [rec EXCEPT !.pc = "delete"]
              /\ UNCHANGED queue
            BY <1>6, <2>2 DEF ReleaseTemplate, Goto, T
        <3>2. new \in Template /\ ~new.fin
            BY <2>a, DeletedTypes DEF Template, NoTemplate
        <3> HIDE DEF new
        <3>3. rec' \in Rec /\ rec'.pc = "delete" /\ rec'.d = rec.d /\ rec'.obj = rec.obj
            BY <2>a, <3>1 DEF Rec, Step
        <3>4. TypeOK'
            BY <1>0, <2>0, <3>1, <3>2, <3>3 DEF TypeOK
        <3>5. templates'[T] = new /\ Template0' = T
            BY <1>0, <2>a, <3>1, <3>3 DEF TypeOK, Template0, T
        <3>6. Shrinks /\ \A e \in Domains : Grows(e)
            BY <1>0, <2>0, <3>1, <3>2 DEF Shrinks, Grows, NamedByOwner, TypeOK
        <3>7. TemplateGuarded' /\ NamedByOwner' /\ CacheFollows'
            BY <1>0, <3>6, GuardKept, CacheKept
        <3>8. Making' /\ Adding' /\ Removing'
            BY <1>0, <2>0, <3>2, <3>3, <3>5 DEF Making, Adding, Removing, Follows
        <3>9. QED
            BY <3>4, <3>7, <3>8 DEF Inv
    <2>3. QED
        BY <2>1, <2>2
<1>7. CASE DeleteTemplate
    <2>0. /\ rec.pc = "delete" /\ UNCHANGED <<domains, claims, queue>>
          /\ rec' = [rec EXCEPT !.pc = "unfinalize"]
          /\ templates' = [templates EXCEPT ![T] = DeletedTemplate(templates[T])]
        BY <1>7 DEF DeleteTemplate, Goto, T
    <2>a. rec \in Rec /\ d \in Domains /\ T \in Templates /\ templates[T] \in Template
        BY <1>a, <2>0
    <2>1. DeletedTemplate(templates[T]) \in Template /\ ~DeletedTemplate(templates[T]).fin
        BY <1>0, <2>0, <2>a, DeletedTypes DEF Removing, DeletedTemplate, NoTemplate, T
    <2>2. rec' \in Rec /\ rec'.pc = "unfinalize" /\ rec'.d = rec.d /\ rec'.obj = rec.obj
        BY <2>a, <2>0 DEF Rec, Step
    <2>3. TypeOK'
        BY <1>0, <2>0, <2>1, <2>2 DEF TypeOK
    <2>4. ~templates'[T].fin /\ Template0' = T
        BY <1>0, <2>a, <2>0, <2>1, <2>2 DEF TypeOK, Template0, T
    <2>5. Shrinks /\ \A e \in Domains : Grows(e)
        BY <1>0, <2>0, <2>1 DEF Shrinks, Grows, NamedByOwner, TypeOK
    <2>6. TemplateGuarded' /\ NamedByOwner' /\ CacheFollows'
        BY <1>0, <2>5, GuardKept, CacheKept
    <2>7. Making' /\ Adding' /\ Removing'
        BY <1>0, <2>0, <2>2, <2>4 DEF Making, Adding, Removing, Follows
    <2>8. QED
        BY <2>3, <2>6, <2>7 DEF Inv
<1>8. CASE RemoveFinalizer
    <2>0. rec.pc = "unfinalize" /\ UNCHANGED <<templates, claims>>
        BY <1>8 DEF RemoveFinalizer
    <2>a. rec \in Rec /\ d \in Domains /\ T \in Templates /\ domains[d] \in Domain
        BY <1>a, <2>0
    <2>1. CASE ~Current
        BY <1>0, <1>8, <2>0, <2>1, FailStep DEF RemoveFinalizer
    <2>2. CASE Current
        <3>1. /\ domains[d] = rec.obj /\ rec' = Idle /\ UNCHANGED queue
              /\ domains' = [domains EXCEPT ![d].fin = FALSE, ![d].phase = "absent"]
            BY <1>8, <2>2 DEF RemoveFinalizer, Done, Current, d
        <3>2. /\ domains'[d] \in Domain /\ domains'[d].uid = domains[d].uid
              /\ domains'[d].phase = "absent"
            BY <1>0, <2>a, <3>1 DEF TypeOK, Domain, Phase
        <3>3. domains' \in [Domains -> Domain] /\ \A e \in Domains \ {d} : domains'[e] = domains[e]
            BY <1>0, <2>a, <3>1, <3>2 DEF TypeOK
        <3>4. TypeOK'
            BY <1>0, <2>0, <3>1, <3>3 DEF TypeOK
        <3>5. /\ rec.obj.phase = "deleting" /\ ~(templates[T].fin /\ templates[T].owner = d)
              /\ ~(cachedDomains[d].phase = "live" /\ cachedDomains[d].uid = rec.obj.uid)
            BY <1>0, <2>0 DEF Removing, d, T
        <3>6. CacheFollows'
            <4>1. ASSUME NEW e \in Domains PROVE Follows(e, cachedDomains[e])'
                <5>1. cachedDomains[e] \in Domain /\ domains[e] \in Domain /\ Follows(e, cachedDomains[e])
                    BY <1>0 DEF TypeOK, CacheFollows
                <5>2. CASE e # d
                    BY <1>0, <3>3, <5>1, <5>2 DEF Follows
                <5>3. CASE e = d
                    BY <1>0, <3>1, <3>2, <3>5, <5>1, <5>3 DEF Follows
                <5>4. QED
                    BY <5>2, <5>3
            <4>2. QED
                BY <4>1 DEF CacheFollows
        <3>7. TemplateGuarded' /\ NamedByOwner'
            <4>1. ASSUME NEW t \in Templates, templates[t].fin
                  PROVE  /\ templates[t].owner \in Domains \ {d}
                         /\ domains[templates[t].owner].uid = templates[t].uid
                         /\ domains[templates[t].owner].phase # "absent"
                         /\ domains[templates[t].owner].fin
                <5>1. templates[t].owner \in Domains /\ TemplateOf[templates[t].owner] = t
                    BY <1>0, <4>1 DEF NamedByOwner
                <5>2. T = TemplateOf[d]
                    BY DEF T, d, Template0
                <5>3. QED
                    BY <1>0, <3>5, <4>1, <5>1, <5>2 DEF TemplateGuarded, OwnerExists
            <4>2. QED
                BY <1>0, <2>0, <3>3, <4>1 DEF TemplateGuarded, OwnerExists, NamedByOwner
        <3>8. rec'.pc = "idle"
            BY <3>1 DEF Idle
        <3>9. QED
            BY <3>4, <3>6, <3>7, <3>8 DEF Inv, Making, Adding, Removing
    <2>3. QED
        BY <2>1, <2>2
<1>9. QED
    BY <1>1, <1>2, <1>3, <1>4, <1>5, <1>6, <1>7, <1>8 DEF Reconcile

\* Restart: the caches are what the API server holds.
LEMMA RestartStep == ASSUME Inv, Restart PROVE Inv'
<1>0. TypeOK /\ TemplateGuarded /\ NamedByOwner
    BY DEF Inv
<1>1. /\ UNCHANGED server /\ rec' = Idle
      /\ cachedDomains' = domains /\ cachedTemplates' = templates /\ cachedClaims' = claims
    BY DEF Restart
<1>2. TypeOK'
    BY <1>0 DEF Restart, TypeOK
<1>3. TemplateGuarded' /\ NamedByOwner'
    BY <1>0, <1>1 DEF TemplateGuarded, OwnerExists, NamedByOwner
<1>4. CacheFollows'
    BY <1>0, <1>1, ComputeDomainControllerAssumption DEF TypeOK, CacheFollows, Follows, Domain
<1>5. rec'.pc = "idle"
    BY <1>1 DEF Idle
<1>6. QED
    BY <1>2, <1>3, <1>4, <1>5 DEF Inv, Making, Removing, Adding

\* Every step preserves the inductive invariant, unless it takes a key too early.
LEMMA NextInv == ASSUME Inv, [Next]_vars, ~stale' PROVE Inv'
<1>1. CASE UNCHANGED vars
    BY <1>1 DEF vars, Inv, TypeOK, TemplateGuarded, OwnerExists, CacheFollows, Follows,
                NamedByOwner, Making, Removing, Adding, Template0
<1>2. CASE WriteFails
    <2>1. rec.pc # "idle" /\ faults' \in Nat
        BY <1>2 DEF WriteFails, Inv, TypeOK
    <2>2. QED
        BY <1>2, <2>1, FailStep DEF WriteFails
<1>3. QED
    BY <1>1, <1>2, ClusterStep, SyncStep, TakeStep, ReconcileStep, RestartStep DEF Next

\* A key that was taken too early is never forgotten.
LEMMA StaleStays == ASSUME stale, [Next]_vars PROVE stale'
BY DEF Next, Cluster, CreateDomain, DeleteDomain, UserDeletesTemplate, CollectGarbage, CreateClaim,
       AllocateClaim, DeleteClaim, Change, Sync, SyncDomain, SyncTemplate, SyncClaim, Take,
       Reconcile, WriteFails, Restart, vars

\* The inductive invariant: the guard of the templates, what the caches say that is
\* still true, and what a Reconcile in progress relies on.
THEOREM ControllerInvariance == Spec => [](~stale => Inv)
<1>1. Init => (~stale => Inv)
    BY InitInv
<1>2. (~stale => Inv) /\ [Next]_vars => (~stale => Inv)'
    BY NextInv, StaleStays
<1>3. QED
    BY <1>1, <1>2, PTL DEF Spec

\* No template outlives the finalizer of its domain, for any number of domains,
\* also if they share template names, and any crashes, conflicts and stale caches of
\* domains and claims, as long as the template cache is up to date whenever a
\* reconciliation begins (CC_Orphan shows what happens when it is not).
THEOREM TemplatesAlwaysGuarded == Spec => []GuardedWhileFresh
<1>1. (~stale => Inv) => GuardedWhileFresh
    BY DEF Inv, GuardedWhileFresh
<1>2. QED
    BY <1>1, ControllerInvariance, PTL
-----------------------------------------------------------------------------
\* Types, whether or not a key was taken too early.

\* What a domain and a record in progress are given.
LEMMA RecTypes ==
    ASSUME TypeOK, rec.pc # "idle"
    PROVE  /\ rec \in Rec /\ rec.d \in Domains /\ rec.obj \in Domain /\ rec.nodes \subseteq Nodes
           /\ Template0 \in Templates
           /\ domains[rec.d] \in Domain /\ templates[Template0] \in Template
           /\ cachedTemplates[Template0] \in Template
           /\ \A pc \in Step : [rec EXCEPT !.pc = pc] \in Rec
<1>1. rec \in Rec
    BY RecType
<1>2. rec.d \in Domains /\ rec.obj \in Domain /\ rec.nodes \subseteq Nodes
    BY <1>1 DEF Rec
<1>3. Template0 \in Templates
    BY <1>2, ComputeDomainControllerAssumption DEF Template0
<1>4. \A pc \in Step : [rec EXCEPT !.pc = pc] \in Rec
    BY <1>1 DEF Rec
<1>5. QED
    BY <1>1, <1>2, <1>3, <1>4 DEF TypeOK

\* The cluster changes one object, to one of its type.
LEMMA ClusterTypes == ASSUME TypeOK, Cluster PROVE TypeOK'
<1> USE DEF Change
<1>1. ASSUME NEW d \in Domains, CreateDomain(d) \/ DeleteDomain(d) PROVE TypeOK'
    <2>1. domains[d] \in Domain /\ (CreateDomain(d) => domains[d].uid + 1 \in 0..MaxUid)
        BY <1>1, ComputeDomainControllerAssumption DEF CreateDomain, TypeOK, Domain
    <2>2. PICK new \in Domain : domains' = [domains EXCEPT ![d] = new]
        BY <1>1, <2>1, DeletedTypes DEF CreateDomain, DeleteDomain
    <2>3. QED
        BY <1>1, <2>2 DEF CreateDomain, DeleteDomain, TypeOK
<1>2. ASSUME NEW t \in Templates, UserDeletesTemplate(t) \/ CollectGarbage(t) PROVE TypeOK'
    <2>1. templates' = [templates EXCEPT ![t] = DeletedTemplate(templates[t])]
        BY <1>2 DEF UserDeletesTemplate, CollectGarbage
    <2>2. DeletedTemplate(templates[t]) \in Template
        BY DeletedTypes DEF TypeOK
    <2>3. templates' \in [Templates -> Template]
        BY <2>1, <2>2 DEF TypeOK
    <2>4. QED
        BY <1>2, <2>3 DEF UserDeletesTemplate, CollectGarbage, TypeOK
<1>3. ASSUME NEW c \in Claims, (\E t \in Templates : CreateClaim(c, t)) \/ (\E n \in Nodes : AllocateClaim(c, n)) \/ DeleteClaim(c)
      PROVE  TypeOK'
    <2>1. claims[c] \in Claim /\ \A t \in Templates : templates[t].owner \in Domains \cup {NoDomain}
        BY DEF TypeOK, Template
    <2>2. PICK new \in Claim : claims' = [claims EXCEPT ![c] = new]
        BY <1>3, <2>1, DeletedTypes DEF CreateClaim, AllocateClaim, DeleteClaim, Claim
    <2>3. /\ UNCHANGED <<domains, templates, caches, queue, rec, faults, restarts, stale>>
          /\ changes' = changes + 1
        BY <1>3 DEF CreateClaim, AllocateClaim, DeleteClaim
    <2>4. QED
        BY <2>2, <2>3 DEF TypeOK
<1>4. QED
    BY <1>1, <1>2, <1>3 DEF Cluster

\* Reconcile writes what it read, with another status or finalizer.
LEMMA ReconcileTypes == ASSUME TypeOK, Reconcile PROVE TypeOK'
<1>0. rec.pc # "idle" /\ UNCHANGED <<caches, bounds, stale>>
    BY DEF Reconcile, AddFinalizer, FindTemplate, CreateTemplate, ListClaims, WriteStatus, FindOwned,
           ReleaseTemplate, DeleteTemplate, RemoveFinalizer
<1> DEFINE d == rec.d
           T == Template0
<1>1. /\ rec \in Rec /\ d \in Domains /\ rec.obj \in Domain /\ rec.nodes \subseteq Nodes
      /\ T \in Templates /\ domains[d] \in Domain /\ templates[T] \in Template
      /\ cachedTemplates[T] \in Template
    BY <1>0, RecTypes
<1>a. \A pc \in Step : [rec EXCEPT !.pc = pc] \in Rec
    BY <1>0, RecTypes
<1> HIDE DEF T
<1>2. rec' \in {Idle} \cup Rec
    <2>1. CASE AddFinalizer
        <3> DEFINE new == [rec.obj EXCEPT !.fin = TRUE]
        <3>1. new \in Domain
            BY <1>1, WithFinalizer
        <3>2. rec' = Idle \/ rec' = [rec EXCEPT !.pc = "template", !.obj = new]
            BY <2>1 DEF AddFinalizer, Fail
        <3> HIDE DEF new
        <3>3. [rec EXCEPT !.pc = "template", !.obj = new] \in Rec
            BY <1>1, <3>1 DEF Rec, Step
        <3>4. QED
            BY <3>2, <3>3
    <2>2. CASE ListClaims
        <3> DEFINE ns == NodesOf(d, cachedClaims)
        <3>1. ns \subseteq Nodes
            BY DEF NodesOf, TypeOK, Claim
        <3>2. rec' = [rec EXCEPT !.pc = "status", !.nodes = ns]
            BY <2>2 DEF ListClaims
        <3> HIDE DEF ns
        <3>3. QED
            BY <1>1, <3>1, <3>2 DEF Rec, Step
    <2>3. CASE FindOwned
        <3>1. PICK pc \in Step : rec' = [rec EXCEPT !.tmpl = cachedTemplates[T], !.pc = pc]
            BY <2>3 DEF FindOwned, Step, T
        <3>2. QED
            BY <1>1, <3>1 DEF Rec
    <2>4. CASE FindTemplate \/ CreateTemplate \/ WriteStatus \/ ReleaseTemplate \/ DeleteTemplate \/ RemoveFinalizer
        BY <1>a, <2>4 DEF FindTemplate, CreateTemplate, WriteStatus, ReleaseTemplate, DeleteTemplate,
           RemoveFinalizer, Goto, Done, Fail, Step
    <2>5. QED
        BY <2>1, <2>2, <2>3, <2>4 DEF Reconcile
<1>3. domains' \in [Domains -> Domain]
    <2>1. CASE AddFinalizer
        BY <1>1, <2>1, WithFinalizer DEF AddFinalizer, TypeOK
    <2>2. CASE WriteStatus
        <3> DEFINE status == StatusOf(d, rec.nodes)
        <3>1. status \in {"NotReady", "Ready"}
            BY DEF StatusOf
        <3> HIDE DEF status
        <3>2. \/ domains' = domains
              \/ domains' = [domains EXCEPT ![d].status = status, ![d].nodes = rec.nodes]
            BY <2>2 DEF WriteStatus, status
        <3>3. domains'[d] \in Domain
            BY <1>1, <3>1, <3>2 DEF TypeOK, Domain
        <3>4. QED
            BY <1>1, <3>2, <3>3 DEF TypeOK
    <2>3. CASE RemoveFinalizer
        <3>1. \/ domains' = domains
              \/ domains' = [domains EXCEPT ![d].fin = FALSE, ![d].phase = "absent"]
            BY <2>3 DEF RemoveFinalizer
        <3>2. domains'[d] \in Domain
            <4>1. domains \in [Domains -> Domain] /\ d \in Domains /\ domains[d] \in Domain
                BY <1>1 DEF TypeOK
            <4>2. CASE domains' = [domains EXCEPT ![d].fin = FALSE, ![d].phase = "absent"]
                BY <4>1, <4>2 DEF Domain, Phase
            <4>3. QED
                BY <3>1, <4>1, <4>2
        <3>3. QED
            BY <1>1, <3>1, <3>2 DEF TypeOK
    <2>4. CASE FindTemplate \/ CreateTemplate \/ ListClaims \/ FindOwned \/ ReleaseTemplate \/ DeleteTemplate
        BY <2>4 DEF FindTemplate, CreateTemplate, ListClaims, FindOwned, ReleaseTemplate, DeleteTemplate, TypeOK
    <2>5. QED
        BY <2>1, <2>2, <2>3, <2>4 DEF Reconcile
<1>4. templates' \in [Templates -> Template]
    <2>1. CASE CreateTemplate
        <3> DEFINE new == [phase |-> "live", fin |-> TRUE, owner |-> d, uid |-> rec.obj.uid]
        <3>1. new \in Template
            BY <1>1 DEF Template, Phase, Domain
        <3>2. templates' = templates \/ templates' = [templates EXCEPT ![T] = new]
            BY <2>1 DEF CreateTemplate, T
        <3> HIDE DEF new
        <3>3. QED
            BY <1>1, <3>1, <3>2 DEF TypeOK
    <2>2. CASE ReleaseTemplate \/ DeleteTemplate
        <3>1. [templates[T] EXCEPT !.fin = FALSE] \in Template
            BY <1>1 DEF Template
        <3>2. templates' = templates \/ \E new \in Template : templates' = [templates EXCEPT ![T] = new]
            BY <1>1, <2>2, <3>1, DeletedTypes DEF ReleaseTemplate, DeleteTemplate, T
        <3>3. QED
            BY <1>1, <3>2 DEF TypeOK
    <2>3. CASE AddFinalizer \/ FindTemplate \/ ListClaims \/ WriteStatus \/ FindOwned \/ RemoveFinalizer
        BY <2>3 DEF AddFinalizer, FindTemplate, ListClaims, WriteStatus, FindOwned, RemoveFinalizer, TypeOK
    <2>4. QED
        BY <2>1, <2>2, <2>3 DEF Reconcile
<1>5. UNCHANGED claims /\ queue' \subseteq queue \cup {d}
    BY DEF Reconcile, AddFinalizer, FindTemplate, CreateTemplate, ListClaims, WriteStatus, FindOwned,
           ReleaseTemplate, DeleteTemplate, RemoveFinalizer, Goto, Done, Fail
<1>6. QED
    BY <1>0, <1>1, <1>2, <1>3, <1>4, <1>5 DEF TypeOK

\* Every object, cached copy and key keeps its type, for every behaviour of users,
\* scheduler, caches, failures and restarts.
THEOREM ControllerTypes == Spec => []TypeOK
<1>1. Init => TypeOK
    BY InitInv DEF Inv
<1>2. TypeOK /\ [Next]_vars => TypeOK'
    <2> SUFFICES ASSUME TypeOK, [Next]_vars PROVE TypeOK'
        OBVIOUS
    <2>1. CASE Sync
        BY <2>1 DEF Sync, SyncDomain, SyncTemplate, SyncClaim, TypeOK
    <2>2. ASSUME NEW d \in Domains, Take(d) PROVE TypeOK'
        <3>1. cachedDomains[d] \in Domain /\ FirstStep(cachedDomains[d]) \subseteq Step
            BY DEF TypeOK, FirstStep, Step
        <3>2. rec' \in {Idle} \cup Rec
            BY <2>2, <3>1, DeletedTypes DEF Take, TypeOK, Rec
        <3>3. QED
            BY <2>2, <3>2 DEF Take, TypeOK
    <2>3. CASE WriteFails
        <3>1. rec.d \in Domains /\ rec' = Idle /\ queue' = queue \cup {rec.d}
            BY <2>3, RecTypes DEF WriteFails, Fail
        <3>2. QED
            BY <2>3, <3>1 DEF WriteFails, TypeOK
    <2>4. CASE Restart
        BY <2>4 DEF Restart, TypeOK
    <2>5. CASE UNCHANGED vars
        BY <2>5 DEF vars, TypeOK
    <2>6. QED
        BY <2>1, <2>2, <2>3, <2>4, <2>5, ClusterTypes, ReconcileTypes DEF Next
<1>3. QED
    BY <1>1, <1>2, PTL DEF Spec
-----------------------------------------------------------------------------
\* The template of a live domain is its own, if no two domains name the same one.

OwnNames == \A d, e \in Domains : TemplateOf[d] = TemplateOf[e] => d = e

Exists(t) == templates[t].phase # "absent"
Shows(t) == cachedTemplates[t].phase # "absent"

\* A template that exists belongs to an incarnation that exists and carries the
\* finalizer; it has lost its own only when that incarnation is being deleted.
Owned(t) ==
    Exists(t) =>
        /\ templates[t].owner \in Domains /\ TemplateOf[templates[t].owner] = t
        /\ OwnerExists(templates[t]) /\ domains[templates[t].owner].fin
        /\ ~templates[t].fin => domains[templates[t].owner].phase # "live"

\* A cached template names its domain, too.
Remembered(t) ==
    Shows(t) => cachedTemplates[t].owner \in Domains /\ TemplateOf[cachedTemplates[t].owner] = t

\* The cache has seen the incarnation that carries the finalizer.
Known(d) == domains[d].fin => cachedDomains[d].uid = domains[d].uid

Outdated(d) == cachedDomains[d].phase # "live" \/ cachedDomains[d].uid # domains[d].uid

\* A Reconcile of d that will make the template.
Preparing(d) == rec.pc \in {"finalizer", "template", "create"} /\ rec.d = d

\* A live domain has a template, or something will still make Reconcile create it.
Expected(d) ==
    domains[d].phase = "live" =>
        \/ Exists(TemplateOf[d]) \/ Shows(TemplateOf[d])
        \/ d \in queue \/ Outdated(d) \/ Preparing(d)

\* What a Reconcile in progress still knows: the incarnation it read is no newer than
\* the cache; one that removes finds the only incarnation with the finalizer, and the
\* template gone when it comes to the domain's own finalizer.
Informed ==
    rec.pc # "idle" =>
        /\ rec.obj.uid <= cachedDomains[rec.d].uid
        /\ rec.pc \in {"owned", "release", "delete", "unfinalize"} /\ domains[rec.d].fin =>
              domains[rec.d].uid = rec.obj.uid
        /\ rec.pc = "owned" /\ Exists(Template0) => Shows(Template0)
        /\ rec.pc = "unfinalize" => ~Exists(Template0)

OwnInv ==
    /\ OwnNames /\ Inv
    /\ \A t \in Templates : Owned(t) /\ Remembered(t)
    /\ \A d \in Domains : Known(d) /\ Expected(d)
    /\ Informed

\* A template is left alone or marked for deletion.
Wanes(t) == templates'[t] \in {templates[t], DeletedTemplate(templates[t])}

\* No finalizer is added to a domain.
Steady(d) == domains'[d].fin => domains[d].fin

\* The owner stays as long as no finalizer is taken away.
LEMMA OwnedKept ==
    ASSUME TypeOK, NEW t \in Templates, Owned(t), templates[t].fin => Exists(t),
           Wanes(t), \A d \in Domains : Grows(d)
    PROVE  Owned(t)' /\ (Exists(t)' => Exists(t))
<1> DEFINE o == templates[t].owner
<1>1. templates[t] \in Template
    BY DEF TypeOK
<1>2. Exists(t)' => Exists(t) /\ templates'[t].owner = o /\ templates'[t].uid = templates[t].uid
                    /\ templates'[t].fin = templates[t].fin
    BY <1>1 DEF Wanes, Exists, DeletedTemplate, NoTemplate, Template
<1>3. ASSUME Exists(t)
      PROVE  /\ o \in Domains /\ domains[o].uid = templates[t].uid /\ domains[o].phase # "absent"
             /\ domains[o].fin /\ Grows(o) /\ TemplateOf[o] = t
             /\ ~templates[t].fin => domains[o].phase # "live"
    BY <1>3 DEF Owned, OwnerExists
<1>4. ASSUME Exists(t)
      PROVE  /\ domains'[o].uid = templates[t].uid /\ domains'[o].phase # "absent" /\ domains'[o].fin
             /\ ~templates[t].fin => domains'[o].phase # "live"
    BY <1>3, <1>4 DEF Grows
<1> HIDE DEF o
<1>5. QED
    BY <1>2, <1>3, <1>4 DEF Owned, OwnerExists, o

\* A step that only lets templates wane and takes no finalizer from a domain.
LEMMA QuietStep ==
    ASSUME OwnInv, Inv', UNCHANGED caches, queue \subseteq queue',
           \A t \in Templates : Wanes(t), \A d \in Domains : Grows(d) /\ Steady(d),
           \/ rec' = rec
           \/ rec' = Idle /\ (rec.pc \in {"finalizer", "template", "create"} => rec.d \in queue')
    PROVE  OwnInv'
<1>1. TypeOK /\ CacheFollows /\ NamedByOwner /\ OwnNames
    BY DEF OwnInv, Inv
<1>2. ASSUME NEW t \in Templates PROVE Owned(t)' /\ Remembered(t)' /\ (Exists(t)' => Exists(t))
    <2>1. Owned(t) /\ Remembered(t) /\ (templates[t].fin => Exists(t)) /\ Wanes(t)
        BY <1>1 DEF OwnInv, NamedByOwner, Exists
    <2>2. Owned(t)' /\ (Exists(t)' => Exists(t))
        BY <1>1, <2>1, OwnedKept
    <2>3. Remembered(t)'
        BY <2>1 DEF Remembered, Shows
    <2>4. QED
        BY <2>2, <2>3
<1>3. ASSUME NEW d \in Domains PROVE Known(d)' /\ Expected(d)'
    <2>1. /\ domains[d] \in Domain /\ cachedDomains[d] \in Domain /\ Follows(d, cachedDomains[d])
          /\ Known(d) /\ Expected(d) /\ Grows(d) /\ Steady(d) /\ cachedDomains' = cachedDomains
          /\ TemplateOf[d] \in Templates
        BY <1>1, ComputeDomainControllerAssumption DEF OwnInv, TypeOK, CacheFollows
    <2>2. Known(d)'
        BY <2>1 DEF Known, Grows, Steady
    <2>3. ASSUME domains'[d].phase = "live", Exists(TemplateOf[d]) PROVE Exists(TemplateOf[d])'
        <3> DEFINE T == TemplateOf[d]
        <3>1. Owned(T) /\ Wanes(T) /\ templates[T] \in Template /\ T \in Templates
            BY <1>1, <2>1 DEF OwnInv, TypeOK
        <3>2. templates[T].owner = d
            BY <1>1, <2>3, <3>1 DEF Owned, OwnNames
        <3>3. domains[d].phase = "live"
            BY <2>1, <2>3, <3>1, <3>2 DEF Owned, OwnerExists, Grows
        <3>4. templates[T].fin
            BY <2>3, <3>1, <3>2, <3>3 DEF Owned
        <3>5. QED
            BY <2>3, <3>1, <3>4 DEF Wanes, Exists, DeletedTemplate, Template
    <2>4. CASE domains[d].phase = "absent"
        <3>1. domains'[d].phase = "live" => domains'[d].uid = domains[d].uid + 1
            BY <2>1, <2>4 DEF Grows
        <3>2. domains'[d].phase = "live" => Outdated(d)'
            BY <2>1, <3>1, ComputeDomainControllerAssumption DEF Outdated, Follows, Domain
        <3>3. QED
            BY <2>2, <3>2 DEF Expected
    <2>5. CASE domains[d].phase # "absent"
        <3>1. domains'[d].phase = "live" => domains[d].phase = "live" /\ domains'[d].uid = domains[d].uid
            BY <2>1, <2>5 DEF Grows
        <3>2. Outdated(d) => Outdated(d)' \/ domains'[d].phase # "live"
            BY <2>1, <3>1 DEF Outdated
        <3>3. Preparing(d) => Preparing(d)' \/ d \in queue'
            BY DEF Preparing
        <3>4. Shows(TemplateOf[d]) => Shows(TemplateOf[d])'
            BY DEF Shows
        <3>5. QED
            BY <2>1, <2>2, <2>3, <3>1, <3>2, <3>3, <3>4 DEF Expected
    <2>6. QED
        BY <2>4, <2>5
<1>4. Informed'
    <2>1. CASE rec' = Idle
        BY <2>1 DEF Informed, Idle
    <2>2. CASE rec' = rec /\ rec.pc # "idle"
        <3>1. rec.d \in Domains /\ Template0 \in Templates /\ Template0' = Template0
            BY <1>1, <2>2, RecTypes DEF Template0
        <3>2. Grows(rec.d) /\ Steady(rec.d) /\ cachedDomains' = cachedDomains
            BY <3>1
        <3>3. Exists(Template0)' => Exists(Template0)
            BY <1>2, <3>1 DEF Exists
        <3>4. Shows(Template0) => Shows(Template0)'
            BY <3>1 DEF Shows
        <3>5. domains'[rec.d].fin => domains[rec.d].fin /\ domains'[rec.d].uid = domains[rec.d].uid
            BY <3>2 DEF Grows, Steady
        <3>6. QED
            BY <2>2, <3>2, <3>3, <3>4, <3>5 DEF Informed, OwnInv
    <2>3. QED
        BY <2>1, <2>2 DEF Informed
<1>5. QED
    BY <1>1, <1>2, <1>3, <1>4 DEF OwnInv

\* The cluster.
LEMMA OwnCluster == ASSUME OwnInv, Inv', Cluster PROVE OwnInv'
<1> USE DEF Change
<1>0. TypeOK
    BY DEF OwnInv, Inv
<1>1. UNCHANGED <<caches, rec, queue>>
    BY DEF Cluster, CreateDomain, DeleteDomain, UserDeletesTemplate, CollectGarbage, CreateClaim,
           AllocateClaim, DeleteClaim
<1>2. ASSUME NEW t \in Templates PROVE Wanes(t)
    BY <1>0 DEF Cluster, CreateDomain, DeleteDomain, UserDeletesTemplate, CollectGarbage, CreateClaim,
           AllocateClaim, DeleteClaim, TypeOK, Wanes
<1>3. ASSUME NEW d \in Domains PROVE Grows(d) /\ Steady(d)
    <2>1. CASE domains' = domains
        BY <2>1 DEF Grows, Steady
    <2>2. ASSUME NEW e \in Domains, CreateDomain(e) \/ DeleteDomain(e) PROVE Grows(d) /\ Steady(d)
        <3>1. domains[d] \in Domain /\ domains[e] \in Domain
            BY <1>0 DEF TypeOK
        <3>2. d # e => domains'[d] = domains[d]
            BY <1>0, <2>2 DEF CreateDomain, DeleteDomain, TypeOK
        <3>3. CASE d = e /\ CreateDomain(e)
            BY <1>0, <3>1, <3>3 DEF CreateDomain, TypeOK, Grows, Steady, NewDomain
        <3>4. CASE d = e /\ DeleteDomain(e)
            BY <1>0, <3>1, <3>4 DEF DeleteDomain, TypeOK, Grows, Steady, DeletedDomain, Domain
        <3>5. QED
            BY <2>2, <3>2, <3>3, <3>4 DEF Grows, Steady
    <2>3. QED
        BY <2>1, <2>2 DEF Cluster, UserDeletesTemplate, CollectGarbage, CreateClaim, AllocateClaim, DeleteClaim
<1>4. QED
    BY <1>1, <1>2, <1>3, QuietStep

\* The informers enqueue what they bring up to date.
LEMMA OwnSync == ASSUME OwnInv, Inv', Sync PROVE OwnInv'
<1>0. TypeOK /\ CacheFollows
    BY DEF OwnInv, Inv
<1>1. ASSUME NEW d \in Domains, SyncDomain(d) PROVE OwnInv'
    <2>1. /\ cachedDomains' = [cachedDomains EXCEPT ![d] = domains[d]]
          /\ queue' = queue \cup {d} /\ UNCHANGED <<server, cachedTemplates, rec>>
        BY <1>1 DEF SyncDomain
    <2>2. \A e \in Domains : cachedDomains'[e] = IF e = d THEN domains[d] ELSE cachedDomains[e]
        BY <1>0, <2>1 DEF TypeOK
    <2>3. ASSUME NEW t \in Templates PROVE Owned(t)' /\ Remembered(t)'
        BY <2>1 DEF OwnInv, Owned, Remembered, Exists, Shows, OwnerExists
    <2>4. ASSUME NEW e \in Domains PROVE Known(e)' /\ Expected(e)'
        <3>1. Known(e) /\ Expected(e)
            BY DEF OwnInv
        <3>2. QED
            BY <2>1, <2>2, <3>1 DEF Known, Expected, Exists, Shows, Outdated, Preparing
    <2>5. Informed'
        <3>1. CASE rec.pc # "idle"
            <4>1. rec.d \in Domains /\ rec.obj \in Domain
                BY <1>0, <3>1, RecTypes
            <4>2. domains[rec.d] \in Domain /\ cachedDomains[rec.d] \in Domain
                  /\ Follows(rec.d, cachedDomains[rec.d])
                BY <1>0, <4>1 DEF TypeOK, CacheFollows
            <4>3. rec.obj.uid <= cachedDomains'[rec.d].uid
                BY <2>2, <3>1, <4>1, <4>2, ComputeDomainControllerAssumption
                   DEF OwnInv, Informed, Follows, Domain
            <4>4. QED
                BY <2>1, <3>1, <4>3 DEF OwnInv, Informed, Exists, Shows, Template0
        <3>2. QED
            BY <2>1, <3>1 DEF Informed
    <2>6. QED
        BY <2>3, <2>4, <2>5 DEF OwnInv
<1>2. ASSUME NEW t \in Templates, SyncTemplate(t) PROVE OwnInv'
    <2>1. /\ cachedTemplates' = [cachedTemplates EXCEPT ![t] = templates[t]]
          /\ queue' = queue \cup ({cachedTemplates[t].owner, templates[t].owner} \cap Domains)
          /\ UNCHANGED <<server, cachedDomains, rec>>
        BY <1>2 DEF SyncTemplate
    <2>2. \A u \in Templates : cachedTemplates'[u] = IF u = t THEN templates[t] ELSE cachedTemplates[u]
        BY <1>0, <2>1 DEF TypeOK
    <2>3. ASSUME NEW u \in Templates PROVE Owned(u)' /\ Remembered(u)'
        <3>1. Owned(u) /\ Remembered(u)
            BY DEF OwnInv
        <3>2. QED
            BY <2>1, <2>2, <3>1 DEF Owned, Remembered, Exists, Shows, OwnerExists
    <2>4. ASSUME NEW e \in Domains PROVE Known(e)' /\ Expected(e)'
        <3> DEFINE T == TemplateOf[e]
        <3>1. Known(e) /\ Expected(e) /\ T \in Templates /\ Remembered(T) /\ OwnNames
            BY ComputeDomainControllerAssumption DEF OwnInv
        <3>2. CASE T # t
            BY <2>1, <2>2, <3>1, <3>2 DEF Known, Expected, Exists, Shows, Outdated, Preparing
        <3>3. CASE T = t
            <4>1. Shows(T) => cachedTemplates[T].owner = e
                BY <3>1 DEF Remembered, OwnNames
            <4>2. Shows(T) => e \in queue'
                BY <2>1, <3>3, <4>1
            <4>3. Known(e)'
                BY <2>1, <3>1 DEF Known
            <4>4. Expected(e)'
                BY <2>1, <3>1, <4>2 DEF Expected, Exists, Outdated, Preparing
            <4>5. QED
                BY <4>3, <4>4
        <3>4. QED
            BY <3>2, <3>3
    <2>5. Informed'
        <3>1. CASE rec.pc # "idle"
            <4>1. Template0 \in Templates /\ Template0' = Template0
                BY <1>0, <2>1, <3>1, RecTypes DEF Template0
            <4>2. Shows(Template0) /\ Exists(Template0) => Shows(Template0)'
                BY <2>2, <4>1 DEF Shows, Exists
            <4>3. Exists(Template0)' = Exists(Template0)
                BY <2>1, <4>1 DEF Exists
            <4>4. QED
                BY <2>1, <3>1, <4>2, <4>3 DEF OwnInv, Informed
        <3>2. QED
            BY <2>1, <3>1 DEF Informed
    <2>6. QED
        BY <2>3, <2>4, <2>5 DEF OwnInv
<1>3. ASSUME NEW c \in Claims, SyncClaim(c) PROVE OwnInv'
    <2>1. /\ queue \subseteq queue' /\ UNCHANGED <<server, cachedDomains, cachedTemplates, rec>>
        BY <1>3 DEF SyncClaim
    <2>2. ASSUME NEW u \in Templates PROVE Owned(u)' /\ Remembered(u)'
        BY <2>1 DEF OwnInv, Owned, Remembered, Exists, Shows, OwnerExists
    <2>3. ASSUME NEW e \in Domains PROVE Known(e)' /\ Expected(e)'
        <3>1. Known(e) /\ Expected(e)
            BY DEF OwnInv
        <3>2. QED
            BY <2>1, <3>1 DEF Known, Expected, Exists, Shows, Outdated, Preparing
    <2>4. Informed'
        BY <2>1 DEF OwnInv, Informed, Exists, Shows, Template0
    <2>5. QED
        BY <2>2, <2>3, <2>4 DEF OwnInv
<1>4. QED
    BY <1>1, <1>2, <1>3 DEF Sync

\* The worker takes a key: what it read stands for what the key was waiting for.
LEMMA OwnTake == ASSUME OwnInv, Inv', NEW d \in Domains, Take(d), ~stale' PROVE OwnInv'
<1>0. TypeOK /\ CacheFollows
    BY DEF OwnInv, Inv
<1> DEFINE obj == cachedDomains[d]
<1>1. /\ UNCHANGED <<server, caches>> /\ cachedTemplates = templates /\ rec = Idle
      /\ queue' = queue \ {d} /\ obj \in Domain /\ domains[d] \in Domain /\ Follows(d, obj)
    BY <1>0 DEF Take, TypeOK, CacheFollows
<1>3. \/ FirstStep(obj) = {} /\ rec' = Idle /\ obj.phase # "live"
      \/ /\ rec'.pc \in {"finalizer", "template"} /\ rec'.d = d /\ rec'.obj = obj /\ obj.phase = "live"
      \/ /\ rec'.pc = "owned" /\ rec'.d = d /\ rec'.obj = obj /\ obj.phase = "deleting"
    <2>1. CASE FirstStep(obj) = {}
        BY <1>1, <2>1 DEF Take, FirstStep
    <2>2. CASE FirstStep(obj) # {}
        <3>1. PICK pc \in FirstStep(obj) :
                  rec' = [pc |-> pc, d |-> d, obj |-> obj, tmpl |-> NoTemplate, nodes |-> {}]
            BY <2>2 DEF Take
        <3>2. rec'.pc = pc /\ rec'.d = d /\ rec'.obj = obj
            BY <3>1
        <3>3. QED
            BY <1>1, <3>1, <3>2 DEF FirstStep, Domain, Phase
    <2>3. QED
        BY <2>1, <2>2
<1> HIDE DEF obj
<1>4. ASSUME NEW t \in Templates PROVE Owned(t)' /\ Remembered(t)'
    BY <1>1 DEF OwnInv, Owned, Remembered, Exists, Shows, OwnerExists
<1>5. ASSUME NEW e \in Domains PROVE Known(e)' /\ Expected(e)'
    <2>1. Known(e) /\ Expected(e) /\ ~Preparing(e)
        BY <1>1 DEF OwnInv, Preparing, Idle
    <2>2. e = d => Preparing(e)' \/ Outdated(e)
        BY <1>3 DEF Preparing, Outdated, obj
    <2>3. QED
        BY <1>1, <2>1, <2>2 DEF Known, Expected, Exists, Shows, Outdated
<1>6. Informed'
    <2>1. CASE rec' = Idle
        BY <2>1 DEF Informed, Idle
    <2>2. CASE rec'.d = d /\ rec'.obj = obj /\ rec'.pc \in {"finalizer", "template", "owned"}
        <3>1. Known(d)
            BY DEF OwnInv
        <3>2. rec'.obj.uid <= cachedDomains'[rec'.d].uid
            BY <1>1, <2>2, ComputeDomainControllerAssumption DEF obj, Domain
        <3>3. domains'[d].fin => domains'[d].uid = obj.uid
            BY <1>1, <3>1 DEF Known, obj
        <3>4. Exists(Template0)' => Shows(Template0)'
            BY <1>1 DEF Exists, Shows
        <3>5. QED
            BY <2>2, <3>2, <3>3, <3>4 DEF Informed
    <2>3. QED
        BY <1>3, <2>1, <2>2
<1>7. QED
    BY <1>4, <1>5, <1>6 DEF OwnInv

\* What Reconcile's writes do to the domain.
LEMMA DomainWrites ==
    ASSUME Inv, AddFinalizer \/ WriteStatus, NEW e \in Domains
    PROVE  /\ Grows(e)
           /\ domains'[e].uid = domains[e].uid /\ domains'[e].phase = domains[e].phase
           /\ domains'[e].fin # domains[e].fin =>
                 AddFinalizer /\ domains[e] = rec.obj /\ e = rec.d
<1>1. TypeOK /\ rec.pc # "idle" /\ rec.obj.phase = "live"
    BY DEF Inv, AddFinalizer, WriteStatus, Making, Adding
<1>2. /\ rec.d \in Domains /\ rec.obj \in Domain /\ domains \in [Domains -> Domain]
      /\ domains[rec.d] \in Domain /\ domains[e] \in Domain
    BY <1>1, RecTypes DEF TypeOK
<1>3. CASE domains' = domains
    BY <1>3 DEF Grows
<1>4. CASE AddFinalizer /\ Current
    <2> DEFINE new == [rec.obj EXCEPT !.fin = TRUE]
    <2>1. new.uid = rec.obj.uid /\ new.phase = rec.obj.phase /\ new.fin
        BY <1>2, WithFinalizer
    <2>2. domains' = [domains EXCEPT ![rec.d] = new] /\ domains[rec.d] = rec.obj
        BY <1>4 DEF AddFinalizer, Current
    <2> HIDE DEF new
    <2>3. QED
        BY <1>1, <1>2, <1>4, <2>1, <2>2 DEF Grows
<1>5. CASE WriteStatus /\ Current
    <2> DEFINE status == StatusOf(rec.d, rec.nodes)
    <2>1. domains' # domains =>
              domains' = [domains EXCEPT ![rec.d].status = status, ![rec.d].nodes = rec.nodes]
        BY <1>5 DEF WriteStatus
    <2> HIDE DEF status
    <2>2. CASE domains' = [domains EXCEPT ![rec.d].status = status, ![rec.d].nodes = rec.nodes]
        <3>1. /\ domains'[rec.d].uid = domains[rec.d].uid /\ domains'[rec.d].phase = domains[rec.d].phase
              /\ domains'[rec.d].fin = domains[rec.d].fin
            BY <1>2, <2>2 DEF Domain
        <3>2. e # rec.d => domains'[e] = domains[e]
            BY <1>2, <2>2
        <3>3. domains[rec.d] = rec.obj
            BY <1>5 DEF Current
        <3>4. QED
            BY <1>1, <3>1, <3>2, <3>3 DEF Grows
    <2>3. QED
        BY <1>3, <2>1, <2>2
<1>6. QED
    BY <1>3, <1>4, <1>5 DEF AddFinalizer, WriteStatus

\* A Reconcile that ends, and one whose write fails.
LEMMA OwnEnd ==
    ASSUME OwnInv, Inv', UNCHANGED <<server, caches>>, rec' = Idle, queue \subseteq queue',
           rec.pc \in {"finalizer", "template", "create"} => rec.d \in queue'
    PROVE  OwnInv'
<1>1. \A t \in Templates : Wanes(t)
    BY DEF Wanes
<1>2. \A d \in Domains : Grows(d) /\ Steady(d)
    BY DEF Grows, Steady
<1>3. QED
    BY <1>1, <1>2, QuietStep

\* The steps of Reconcile.
LEMMA OwnReconcile == ASSUME OwnInv, Inv', Reconcile PROVE OwnInv'
<1> DEFINE d == rec.d
           T == Template0
<1>0. /\ TypeOK /\ Making /\ Removing /\ Adding /\ CacheFollows /\ NamedByOwner /\ OwnNames /\ Inv
      /\ UNCHANGED <<caches, bounds, stale>> /\ rec.pc # "idle"
    BY DEF OwnInv, Inv, Reconcile, AddFinalizer, FindTemplate, CreateTemplate, ListClaims, WriteStatus,
           FindOwned, ReleaseTemplate, DeleteTemplate, RemoveFinalizer
<1>1. /\ rec \in Rec /\ d \in Domains /\ rec.obj \in Domain /\ T \in Templates
      /\ domains[d] \in Domain /\ templates[T] \in Template /\ cachedDomains[d] \in Domain
    BY <1>0, RecTypes DEF TypeOK
<1>2. /\ Owned(T) /\ Remembered(T) /\ Known(d) /\ Expected(d) /\ Informed
      /\ Follows(d, cachedDomains[d])
    BY <1>0, <1>1 DEF OwnInv, CacheFollows
<1>3. /\ T = TemplateOf[d]
      /\ \A e \in Domains : TemplateOf[e] = T => e = d
    BY <1>0, <1>1 DEF OwnNames, Template0
<1>4. CASE Fail /\ UNCHANGED server
    BY <1>0, <1>4, OwnEnd DEF Fail
<1>5. CASE AddFinalizer /\ Current
    <2> DEFINE new == [rec.obj EXCEPT !.fin = TRUE]
    <2>1. /\ rec.pc = "finalizer" /\ domains[d] = rec.obj /\ UNCHANGED <<templates, queue>>
          /\ rec' = [rec EXCEPT !.pc = "template", !.obj = new]
          /\ domains' = [domains EXCEPT ![d] = new]
        BY <1>5 DEF AddFinalizer, Current
    <2>a. new.uid = rec.obj.uid
        BY <1>1, WithFinalizer
    <2> HIDE DEF new
    <2>2. rec'.pc = "template" /\ rec'.d = d /\ rec'.obj = new
        BY <1>1, <2>1 DEF Rec
    <2>3. rec.obj.uid <= cachedDomains[d].uid /\ cachedDomains[d].uid <= domains[d].uid
        BY <1>0, <1>2 DEF Informed, Follows
    <2>4. cachedDomains[d].uid = domains[d].uid
        BY <1>1, <2>1, <2>3, ComputeDomainControllerAssumption DEF Domain
    <2>5. ASSUME NEW t \in Templates PROVE Owned(t)' /\ Remembered(t)'
        <3>1. Owned(t) /\ Remembered(t) /\ Wanes(t) /\ (templates[t].fin => Exists(t))
            BY <1>0, <2>1 DEF OwnInv, Wanes, NamedByOwner, Exists
        <3>2. \A e \in Domains : Grows(e)
            BY <1>0, <1>5, DomainWrites
        <3>3. Owned(t)'
            BY <1>0, <3>1, <3>2, OwnedKept
        <3>4. QED
            BY <1>0, <3>1, <3>3 DEF Remembered, Shows
    <2>6. ASSUME NEW e \in Domains PROVE Known(e)' /\ Expected(e)'
        <3>1. Known(e) /\ Expected(e) /\ cachedDomains' = cachedDomains /\ cachedTemplates' = cachedTemplates
            BY <1>0 DEF OwnInv
        <3>2. /\ domains'[e].uid = domains[e].uid /\ domains'[e].phase = domains[e].phase
              /\ domains'[e].fin # domains[e].fin => e = d
            BY <1>0, <1>5, DomainWrites
        <3>3. Preparing(e) => Preparing(e)'
            BY <2>2 DEF Preparing
        <3>4. Known(e)'
            BY <2>4, <3>1, <3>2 DEF Known
        <3>5. Expected(e)'
            BY <2>1, <3>1, <3>2, <3>3 DEF Expected, Exists, Shows, Outdated
        <3>6. QED
            BY <3>4, <3>5
    <2>7. Informed'
        BY <1>0, <2>a, <2>2, <2>3 DEF Informed
    <2>8. QED
        BY <1>0, <2>5, <2>6, <2>7 DEF OwnInv
<1>6. CASE FindTemplate \/ ListClaims \/ FindOwned
    <2>1. /\ UNCHANGED <<server, queue>> /\ rec'.d = d /\ rec'.obj = rec.obj /\ rec'.pc # "idle"
          /\ rec.pc \in {"finalizer", "template", "create"} =>
                rec'.pc \in {"finalizer", "template", "create"} \/ Shows(T)
          /\ rec'.pc \in {"owned", "release", "delete", "unfinalize"} => rec.pc = "owned"
          /\ rec'.pc # "owned"
          /\ rec'.pc = "unfinalize" => ~Shows(T) \/ cachedTemplates[T].owner # d
        BY <1>1, <1>6 DEF FindTemplate, ListClaims, FindOwned, Goto, Rec, Shows, IsOwnedBy
    <2>2. ASSUME NEW t \in Templates PROVE Owned(t)' /\ Remembered(t)'
        BY <1>0, <2>1 DEF OwnInv, Owned, Remembered, Exists, Shows, OwnerExists
    <2>3. ASSUME NEW e \in Domains PROVE Known(e)' /\ Expected(e)'
        <3>1. Known(e) /\ Expected(e)
            BY DEF OwnInv
        <3>2. Preparing(e) => Preparing(e)' \/ Shows(TemplateOf[e])
            BY <1>3, <2>1 DEF Preparing
        <3>3. QED
            BY <1>0, <2>1, <3>1, <3>2 DEF Known, Expected, Exists, Shows, Outdated
    <2>4. Informed'
        <3>1. rec'.pc = "unfinalize" => ~Exists(T)
            BY <1>0, <1>2, <1>3, <2>1 DEF Remembered, Informed
        <3>2. Template0' = T /\ Exists(T)' = Exists(T)
            BY <1>3, <2>1 DEF Template0, Exists
        <3>3. QED
            BY <1>0, <1>2, <2>1, <3>1, <3>2 DEF Informed
    <2>5. QED
        BY <1>0, <2>2, <2>3, <2>4 DEF OwnInv
<1>7. CASE CreateTemplate
    <2> DEFINE new == [phase |-> "live", fin |-> TRUE, owner |-> d, uid |-> rec.obj.uid]
    <2>0. /\ rec.pc = "create" /\ UNCHANGED <<domains, claims, queue>>
          /\ rec' = [rec EXCEPT !.pc = "list"]
          /\ IF Exists(T) THEN templates' = templates ELSE templates' = [templates EXCEPT ![T] = new]
        BY <1>7 DEF CreateTemplate, Goto, Exists
    <2>1. rec'.pc = "list" /\ rec'.d = rec.d /\ rec'.obj = rec.obj
        BY <1>1, <2>0 DEF Rec
    <2>2. domains[d].uid = rec.obj.uid /\ domains[d].phase # "absent" /\ domains[d].fin
        BY <1>0, <2>0 DEF Making, Follows
    <2>3. new.phase = "live" /\ new.fin /\ new.owner = d /\ new.uid = rec.obj.uid
        OBVIOUS
    <2> HIDE DEF new
    <2>4. ASSUME NEW t \in Templates
          PROVE  templates'[t] = templates[t] \/ (t = T /\ ~Exists(t) /\ templates'[t] = new)
        BY <1>0, <2>0 DEF TypeOK
    <2>5. templates'[T] = new \/ (Exists(T) /\ templates'[T] = templates[T])
        BY <1>0, <1>1, <2>0 DEF TypeOK
    <2>6. ASSUME NEW t \in Templates PROVE Owned(t)' /\ Remembered(t)'
        <3>1. Owned(t) /\ Remembered(t)
            BY DEF OwnInv
        <3>2. CASE templates'[t] = templates[t]
            BY <1>0, <2>0, <3>1, <3>2 DEF Owned, Remembered, Exists, Shows, OwnerExists
        <3>3. CASE t = T /\ templates'[t] = new
            BY <1>0, <1>1, <1>3, <2>0, <2>2, <2>3, <3>1, <3>3 DEF Owned, Remembered, Exists, Shows, OwnerExists
        <3>4. QED
            BY <2>4, <3>2, <3>3
    <2>7. ASSUME NEW e \in Domains PROVE Known(e)' /\ Expected(e)'
        <3>1. Known(e) /\ Expected(e) /\ TemplateOf[e] \in Templates
            BY ComputeDomainControllerAssumption DEF OwnInv
        <3>2. Exists(TemplateOf[e]) => Exists(TemplateOf[e])'
            BY <2>3, <2>4, <3>1 DEF Exists
        <3>3. Preparing(e) => Exists(TemplateOf[e])'
            BY <1>3, <2>3, <2>5 DEF Preparing, Exists
        <3>4. QED
            BY <1>0, <2>0, <3>1, <3>2, <3>3 DEF Known, Expected, Shows, Outdated
    <2>8. Informed'
        BY <1>0, <1>2, <2>0, <2>1 DEF Informed
    <2>9. QED
        BY <1>0, <2>6, <2>7, <2>8 DEF OwnInv
<1>8. CASE WriteStatus /\ Done
    <2>1. rec' = Idle /\ UNCHANGED <<templates, claims, queue>> /\ rec.pc = "status"
        BY <1>8 DEF WriteStatus, Done
    <2>2. \A t \in Templates : Wanes(t)
        BY <2>1 DEF Wanes
    <2>3. ASSUME NEW e \in Domains PROVE Grows(e) /\ Steady(e)
        <3>1. ~AddFinalizer
            BY <2>1 DEF AddFinalizer
        <3>2. QED
            BY <1>0, <1>8, <3>1, DomainWrites DEF Steady
    <2>4. QED
        BY <1>0, <2>1, <2>2, <2>3, QuietStep
<1>9. CASE (ReleaseTemplate /\ templates[T] = rec.tmpl) \/ DeleteTemplate
    <2>1. /\ rec.pc \in {"release", "delete"} /\ UNCHANGED <<domains, claims, queue>>
          /\ rec'.pc \in {"delete", "unfinalize"} /\ rec'.d = d /\ rec'.obj = rec.obj
        BY <1>1, <1>9 DEF ReleaseTemplate, DeleteTemplate, Goto, Rec
    <2>2. /\ \A t \in Templates \ {T} : templates'[t] = templates[t]
          /\ templates'[T].phase # "absent" =>
                Exists(T) /\ templates'[T].owner = templates[T].owner
                /\ templates'[T].uid = templates[T].uid
          /\ rec'.pc = "unfinalize" => templates'[T].phase = "absent"
        <3>1. CASE ReleaseTemplate
            <4> DEFINE new == IF templates[T].phase = "deleting" THEN NoTemplate
                              ELSE [templates[T] EXCEPT !.fin = FALSE]
            <4>1. templates' = [templates EXCEPT ![T] = new] /\ rec'.pc = "delete"
                BY <1>1, <1>9, <3>1 DEF ReleaseTemplate, DeleteTemplate, Goto, Rec
            <4>2. new.phase # "absent" => Exists(T) /\ new.owner = templates[T].owner /\ new.uid = templates[T].uid
                BY <1>1 DEF NoTemplate, Template, Exists
            <4> HIDE DEF new
            <4>3. QED
                BY <1>0, <1>1, <4>1, <4>2 DEF TypeOK, Exists
        <3>2. CASE DeleteTemplate
            <4>1. templates' = [templates EXCEPT ![T] = DeletedTemplate(templates[T])] /\ ~templates[T].fin
                BY <1>0, <3>2 DEF DeleteTemplate, Removing
            <4>2. DeletedTemplate(templates[T]).phase = "absent"
                BY <4>1 DEF DeletedTemplate, NoTemplate
            <4>3. QED
                BY <1>0, <1>1, <4>1, <4>2 DEF TypeOK, Exists
        <3>3. QED
            BY <1>9, <3>1, <3>2
    <2>3. Exists(T) => /\ templates[T].owner = d /\ domains[d].fin /\ domains[d].uid = rec.obj.uid
                       /\ domains[d].phase # "live"
        BY <1>0, <1>2, <1>3, <2>1 DEF Owned, Informed, Removing, Follows
    <2>4. ASSUME NEW t \in Templates PROVE Owned(t)' /\ Remembered(t)'
        <3>1. Owned(t) /\ Remembered(t)
            BY DEF OwnInv
        <3>2. CASE t # T
            BY <1>0, <2>1, <2>2, <3>1, <3>2 DEF Owned, Remembered, Exists, Shows, OwnerExists
        <3>3. CASE t = T
            BY <1>0, <2>1, <2>2, <2>3, <3>1, <3>3 DEF Owned, Remembered, Exists, Shows, OwnerExists
        <3>4. QED
            BY <3>2, <3>3
    <2>5. ASSUME NEW e \in Domains PROVE Known(e)' /\ Expected(e)'
        <3>1. Known(e) /\ Expected(e) /\ TemplateOf[e] \in Templates /\ ~Preparing(e)
            BY <2>1, ComputeDomainControllerAssumption DEF OwnInv, Preparing
        <3>2. Exists(TemplateOf[e]) /\ domains[e].phase = "live" => Exists(TemplateOf[e])'
            <4>1. CASE TemplateOf[e] # T
                BY <2>2, <3>1, <4>1 DEF Exists
            <4>2. CASE TemplateOf[e] = T
                BY <1>3, <2>3, <4>2
            <4>3. QED
                BY <4>1, <4>2
        <3>3. QED
            BY <1>0, <2>1, <3>1, <3>2 DEF Known, Expected, Shows, Outdated
    <2>6. Informed'
        <3>1. Template0' = T
            BY <2>1 DEF Template0
        <3>2. QED
            BY <1>0, <1>2, <2>1, <2>2, <3>1 DEF Informed, Exists
    <2>7. QED
        BY <1>0, <2>4, <2>5, <2>6 DEF OwnInv
<1>10. CASE RemoveFinalizer /\ Current
    <2>1. /\ rec.pc = "unfinalize" /\ rec' = Idle /\ UNCHANGED <<templates, claims, queue>> /\ ~Exists(T)
          /\ \A e \in Domains \ {d} : domains'[e] = domains[e]
          /\ domains'[d].phase = "absent" /\ ~domains'[d].fin
        <3>1. /\ rec.pc = "unfinalize" /\ rec' = Idle /\ UNCHANGED <<templates, claims, queue>> /\ Current
            BY <1>10 DEF RemoveFinalizer, Done
        <3>2. domains' = [domains EXCEPT ![d].fin = FALSE, ![d].phase = "absent"]
            BY <1>10, <3>1 DEF RemoveFinalizer
        <3>3. domains'[d].phase = "absent" /\ ~domains'[d].fin
            <4>1. domains \in [Domains -> Domain]
                BY <1>0 DEF TypeOK
            <4>2. QED
                BY <1>1, <3>2, <4>1 DEF Domain
        <3>4. QED
            BY <1>0, <1>1, <1>2, <3>1, <3>2, <3>3 DEF TypeOK, Informed
    <2>2. ASSUME NEW t \in Templates PROVE Owned(t)' /\ Remembered(t)'
        <3>1. Owned(t) /\ Remembered(t)
            BY DEF OwnInv
        <3>2. Exists(t) => templates[t].owner # d
            BY <1>3, <2>1, <3>1 DEF Owned
        <3>3. QED
            BY <1>0, <2>1, <3>1, <3>2 DEF Owned, Remembered, Exists, Shows, OwnerExists
    <2>3. ASSUME NEW e \in Domains PROVE Known(e)' /\ Expected(e)'
        <3>1. Known(e) /\ Expected(e) /\ ~Preparing(e)
            BY <2>1 DEF OwnInv, Preparing
        <3>2. CASE e = d
            BY <2>1, <3>2 DEF Known, Expected
        <3>3. CASE e # d
            BY <1>0, <2>1, <3>1, <3>3 DEF Known, Expected, Exists, Shows, Outdated
        <3>4. QED
            BY <3>2, <3>3
    <2>4. Informed'
        BY <2>1 DEF Informed, Idle
    <2>5. QED
        BY <1>0, <2>2, <2>3, <2>4 DEF OwnInv
<1>11. QED
    BY <1>4, <1>5, <1>6, <1>7, <1>8, <1>9, <1>10
       DEF Reconcile, AddFinalizer, WriteStatus, ReleaseTemplate, RemoveFinalizer

\* Restart: every object's keys are back on the queue.
LEMMA OwnRestart == ASSUME OwnInv, Inv', Restart PROVE OwnInv'
<1>0. TypeOK
    BY DEF OwnInv, Inv
<1>1. /\ UNCHANGED server /\ rec' = Idle
      /\ cachedDomains' = domains /\ cachedTemplates' = templates
      /\ \A d \in Domains : domains[d].phase # "absent" => d \in queue'
    BY DEF Restart
<1>2. ASSUME NEW t \in Templates PROVE Owned(t)' /\ Remembered(t)'
    BY <1>1 DEF OwnInv, Owned, Remembered, Exists, Shows, OwnerExists
<1>3. ASSUME NEW d \in Domains PROVE Known(d)' /\ Expected(d)'
    BY <1>1 DEF Known, Expected
<1>4. Informed'
    BY <1>1 DEF Informed, Idle
<1>5. QED
    BY <1>2, <1>3, <1>4 DEF OwnInv

\* Every step keeps the template of a domain its own.
LEMMA OwnStep == ASSUME OwnInv, Inv', [Next]_vars, ~stale' PROVE OwnInv'
<1>1. CASE UNCHANGED vars
    <2>1. \A t \in Templates : Wanes(t)
        BY <1>1 DEF vars, Wanes
    <2>2. \A d \in Domains : Grows(d) /\ Steady(d)
        BY <1>1 DEF vars, Grows, Steady
    <2>3. QED
        BY <1>1, <2>1, <2>2, QuietStep DEF vars
<1>2. CASE WriteFails
    BY <1>2, OwnEnd DEF WriteFails, Fail
<1>3. QED
    BY <1>1, <1>2, OwnCluster, OwnSync, OwnTake, OwnReconcile, OwnRestart DEF Next

\* Initially no domain is known to anybody and no template exists.
LEMMA OwnInit == ASSUME OwnNames, Init PROVE OwnInv
<1>1. Inv
    BY InitInv
<1>2. rec.pc = "idle"
    BY DEF Init, Idle
<1>3. \A t \in Templates : Owned(t) /\ Remembered(t)
    BY DEF Init, Owned, Remembered, Exists, Shows, NoTemplate
<1>4. \A d \in Domains : Known(d) /\ Expected(d)
    BY <1>1 DEF Init, Known, Expected, NewDomain
<1>5. QED
    BY <1>1, <1>2, <1>3, <1>4 DEF OwnInv, Informed

\* Once nothing is left to do, a live domain has a template made for the very
\* incarnation that lives, for any number of domains of different template names and
\* any crashes, conflicts and stale caches of domains and claims: no template of an
\* earlier incarnation of the same name is taken for it.
THEOREM TemplatesAlwaysOwn == OwnNames /\ Spec => []DomainHasOwnTemplate
<1>1. OwnNames /\ Init => (~stale => OwnInv)
    BY OwnInit
<1>2. (~stale => OwnInv) /\ (~stale => Inv)' /\ [Next]_vars => (~stale => OwnInv)'
    BY OwnStep, StaleStays
<1>3. (~stale => OwnInv) => DomainHasOwnTemplate
    <2> SUFFICES ASSUME OwnInv, Settled, NEW d \in Domains, domains[d].phase = "live"
                 PROVE  templates[TemplateOf[d]].owner = d
                        /\ templates[TemplateOf[d]].uid = domains[d].uid
        BY DEF DomainHasOwnTemplate
    <2>1. TemplateOf[d] \in Templates
        BY ComputeDomainControllerAssumption
    <2>2. Expected(d) /\ Owned(TemplateOf[d]) /\ OwnNames
        BY <2>1 DEF OwnInv
    <2>3. Exists(TemplateOf[d])
        BY <2>2 DEF Expected, Shows, Exists, Outdated, Preparing, Settled, Idle
    <2>4. QED
        BY <2>2, <2>3 DEF Owned, OwnerExists, OwnNames
<1>4. QED
    BY <1>1, <1>2, <1>3, ControllerInvariance, PTL DEF Spec
-----------------------------------------------------------------------------
\* What a settled controller leaves is served.

\* The cache is behind the API server.
Older(d) ==
    /\ cachedDomains[d].uid <= domains[d].uid
    /\ cachedDomains[d].uid = domains[d].uid /\ cachedDomains[d].phase = "deleting" =>
          domains[d].phase # "live"

\* A domain is kept while it is deleted by nothing but its finalizer.
Held(obj) == obj.phase = "deleting" => obj.fin

Busy(d) == rec.pc # "idle" /\ rec.d = d

\* Unless its key is queued again, a Reconcile works on what the caches show; the
\* finalizer it may have added itself.
Reading ==
    rec.pc # "idle" /\ rec.d \notin queue =>
        /\ rec.obj \in {cachedDomains[rec.d], [cachedDomains[rec.d] EXCEPT !.fin = TRUE]}
        /\ rec.pc \in {"finalizer", "template", "create", "list", "status"} => rec.obj.phase = "live"
        /\ rec.pc = "status" => rec.nodes = NodesOf(rec.d, cachedClaims)

StatusTrue(d) ==
    /\ domains[d].nodes = NodesOf(d, cachedClaims)
    /\ domains[d].status = StatusOf(d, NodesOf(d, cachedClaims))

\* A domain that is neither queued nor in work, nor to be queued by the informer, is
\* served as far as the caches tell.
Served(d) ==
    d \notin queue /\ ~Busy(d) /\ cachedDomains[d] = domains[d] =>
        domains[d].phase # "deleting" /\ (domains[d].phase = "live" => StatusTrue(d))

ServedInv ==
    /\ \A d \in Domains : Older(d) /\ Held(domains[d]) /\ Held(cachedDomains[d]) /\ Served(d)
    /\ Reading

\* Initially there is nothing to serve.
LEMMA ServedInit == Init => ServedInv
<1> SUFFICES ASSUME Init PROVE ServedInv
    OBVIOUS
<1>1. ASSUME NEW d \in Domains
      PROVE  cachedDomains[d] = domains[d] /\ domains[d].phase = "absent" /\ domains[d].uid = 0
    BY DEF Init, NewDomain
<1>2. rec.pc = "idle"
    BY DEF Init, Idle
<1>3. QED
    BY <1>1, <1>2 DEF ServedInv, Older, Held, Served, Reading

\* Users and the garbage collector only take domains further on.
LEMMA ServedCluster == ASSUME TypeOK, ServedInv, Cluster PROVE ServedInv'
<1> USE DEF Change
<1>1. UNCHANGED <<caches, rec, queue>>
    BY DEF Cluster, CreateDomain, DeleteDomain, UserDeletesTemplate, CollectGarbage, CreateClaim,
           AllocateClaim, DeleteClaim
<1>2. ASSUME NEW d \in Domains PROVE Older(d)' /\ Held(domains[d])' /\ Held(cachedDomains[d])' /\ Served(d)'
    <2>0. /\ Older(d) /\ Held(domains[d]) /\ Held(cachedDomains[d]) /\ Served(d)
          /\ domains[d] \in Domain /\ cachedDomains[d] \in Domain
        BY DEF ServedInv, TypeOK
    <2>1. \/ domains'[d] = domains[d]
          \/ domains[d].phase = "absent" /\ domains'[d] = NewDomain(domains[d].uid + 1)
          \/ domains[d].phase = "live" /\ domains'[d] = DeletedDomain(domains[d])
        BY DEF Cluster, CreateDomain, DeleteDomain, UserDeletesTemplate, CollectGarbage, CreateClaim,
               AllocateClaim, DeleteClaim, TypeOK
    <2>2. CASE domains'[d] = domains[d]
        BY <1>1, <2>0, <2>2 DEF Older, Held, Served, Busy, StatusTrue
    <2>3. CASE domains'[d] = NewDomain(domains[d].uid + 1)
        <3>1. /\ domains'[d].uid = domains[d].uid + 1 /\ domains'[d].phase = "live"
              /\ cachedDomains[d].uid \in Nat /\ domains[d].uid \in Nat
            BY <2>0, <2>3, ComputeDomainControllerAssumption DEF NewDomain, Domain
        <3>2. cachedDomains'[d] = cachedDomains[d] /\ cachedDomains'[d].uid < domains'[d].uid
            BY <1>1, <2>0, <3>1 DEF Older
        <3>3. Older(d)' /\ Held(domains[d])' /\ Held(cachedDomains[d])'
            BY <2>0, <3>1, <3>2 DEF Older, Held
        <3>4. QED
            BY <3>1, <3>2, <3>3 DEF Served
    <2>4. CASE domains[d].phase = "live" /\ domains'[d] = DeletedDomain(domains[d])
        <3>1. /\ domains'[d].uid = domains[d].uid /\ domains'[d].phase \in {"deleting", "absent"}
              /\ domains'[d].fin = domains[d].fin
              /\ domains'[d].phase = "deleting" => domains[d].fin
            BY <2>0, <2>4 DEF DeletedDomain, Domain
        <3>2. Older(d)' /\ Held(domains[d])' /\ Held(cachedDomains[d])'
            BY <1>1, <2>0, <3>1 DEF Older, Held
        <3>3. cachedDomains'[d] = domains'[d] => domains'[d].phase = "absent"
            BY <1>1, <2>0, <2>4, <3>1 DEF Older
        <3>4. QED
            BY <3>2, <3>3 DEF Served
    <2>5. QED
        BY <2>1, <2>2, <2>3, <2>4
<1>3. Reading'
    BY <1>1 DEF ServedInv, Reading
<1>4. QED
    BY <1>2, <1>3 DEF ServedInv

\* The nodes of a domain change in the cache only if a claim comes to it or leaves it.
LEMMA NodesOfKept ==
    ASSUME TypeOK, NEW c \in Claims, NEW new, NEW d \in Domains,
           d \notin {cachedClaims[c].domain, new.domain}
    PROVE  NodesOf(d, [cachedClaims EXCEPT ![c] = new]) = NodesOf(d, cachedClaims)
<1> DEFINE view == [cachedClaims EXCEPT ![c] = new]
<1>1. cachedClaims \in [Claims -> Claim]
    BY DEF TypeOK
<1>2. view[c] = new /\ \A x \in Claims : x # c => view[x] = cachedClaims[x]
    BY <1>1
<1> HIDE DEF view
<1>3. {x \in Claims : view[x].domain = d} = {x \in Claims : cachedClaims[x].domain = d}
    BY <1>2
<1>4. \A x \in {y \in Claims : view[y].domain = d} : view[x] = cachedClaims[x]
    BY <1>2
<1>5. NodesOf(d, view) = NodesOf(d, cachedClaims)
    BY <1>3, <1>4 DEF NodesOf
<1>6. QED
    BY <1>5 DEF view

\* An informer enqueues every domain whose copy or whose claims it changes.
LEMMA ServedSync == ASSUME TypeOK, ServedInv, Sync PROVE ServedInv'
<1>0. UNCHANGED <<server, rec>>
    BY DEF Sync, SyncDomain, SyncTemplate, SyncClaim
<1>1. ASSUME NEW d \in Domains, SyncDomain(d) PROVE ServedInv'
    <2>1. /\ cachedDomains' = [cachedDomains EXCEPT ![d] = domains[d]] /\ queue' = queue \cup {d}
          /\ UNCHANGED <<domains, cachedClaims, rec>>
        BY <1>1 DEF SyncDomain
    <2>2. cachedDomains'[d] = domains[d] /\ \A e \in Domains : e # d => cachedDomains'[e] = cachedDomains[e]
        BY <2>1 DEF TypeOK
    <2>3. ASSUME NEW e \in Domains
          PROVE  Older(e)' /\ Held(domains[e])' /\ Held(cachedDomains[e])' /\ Served(e)'
        <3>1. /\ Older(e) /\ Held(domains[e]) /\ Held(cachedDomains[e]) /\ Served(e)
              /\ domains[e] \in Domain
            BY DEF ServedInv, TypeOK
        <3>2. Older(e)' /\ Held(domains[e])' /\ Held(cachedDomains[e])'
            BY <2>1, <2>2, <3>1, ComputeDomainControllerAssumption DEF Older, Held, Domain
        <3>3. Served(e)'
            BY <2>1, <2>2, <3>1 DEF Served, Busy, StatusTrue
        <3>4. QED
            BY <3>2, <3>3
    <2>4. Reading'
        <3> SUFFICES ASSUME rec.pc # "idle", rec.d \notin queue' PROVE Reading'
            BY <2>1 DEF Reading
        <3>1. rec.d # d /\ rec.d \in Domains /\ rec.d \notin queue
            BY <2>1, RecTypes
        <3>2. cachedDomains'[rec.d] = cachedDomains[rec.d]
            BY <2>2, <3>1
        <3>3. QED
            BY <2>1, <3>1, <3>2 DEF ServedInv, Reading
    <2>5. QED
        BY <2>3, <2>4 DEF ServedInv
<1>2. ASSUME NEW t \in Templates, SyncTemplate(t) PROVE ServedInv'
    <2>1. queue \subseteq queue' /\ UNCHANGED <<domains, cachedDomains, cachedClaims, rec>>
        BY <1>2 DEF SyncTemplate
    <2>2. ASSUME NEW d \in Domains
          PROVE  Older(d)' /\ Held(domains[d])' /\ Held(cachedDomains[d])' /\ Served(d)'
        BY <2>1 DEF ServedInv, Older, Held, Served, Busy, StatusTrue
    <2>3. QED
        BY <2>1, <2>2 DEF ServedInv, Reading
<1>3. ASSUME NEW c \in Claims, SyncClaim(c) PROVE ServedInv'
    <2>1. /\ cachedClaims' = [cachedClaims EXCEPT ![c] = claims[c]]
          /\ queue' = queue \cup ({cachedClaims[c].domain, claims[c].domain} \cap Domains)
          /\ UNCHANGED <<domains, cachedDomains, rec>>
        BY <1>3 DEF SyncClaim
    <2>2. ASSUME NEW d \in Domains, d \notin queue'
          PROVE  d \notin queue /\ NodesOf(d, cachedClaims') = NodesOf(d, cachedClaims)
        BY <2>1, <2>2, NodesOfKept
    <2>3. ASSUME NEW d \in Domains
          PROVE  Older(d)' /\ Held(domains[d])' /\ Held(cachedDomains[d])' /\ Served(d)'
        <3>1. Older(d) /\ Held(domains[d]) /\ Held(cachedDomains[d]) /\ Served(d)
            BY DEF ServedInv
        <3>2. Older(d)' /\ Held(domains[d])' /\ Held(cachedDomains[d])'
            BY <2>1, <3>1 DEF Older, Held
        <3>3. Served(d)'
            BY <2>1, <2>2, <3>1 DEF Served, Busy, StatusTrue, StatusOf
        <3>4. QED
            BY <3>2, <3>3
    <2>4. Reading'
        <3> SUFFICES ASSUME rec.pc # "idle", rec.d \notin queue' PROVE Reading'
            BY <2>1 DEF Reading
        <3>1. rec.d \in Domains
            BY RecTypes
        <3>2. QED
            BY <2>1, <2>2, <3>1 DEF ServedInv, Reading
    <2>5. QED
        BY <2>3, <2>4 DEF ServedInv
<1>4. QED
    BY <1>1, <1>2, <1>3 DEF Sync

\* A key leads to a Reconcile of what the cache shows; none is needed only for a
\* domain that the cache shows gone.
LEMMA ServedTake == ASSUME TypeOK, ServedInv, NEW d \in Domains, Take(d) PROVE ServedInv'
<1>1. rec = Idle /\ rec.pc = "idle" /\ queue' = queue \ {d} /\ UNCHANGED <<domains, caches>>
    BY DEF Take, Idle
<1>2. \/ FirstStep(cachedDomains[d]) = {} /\ rec' = rec
      \/ /\ rec'.pc \in FirstStep(cachedDomains[d]) /\ rec'.d = d /\ rec'.obj = cachedDomains[d]
         /\ rec'.pc # "idle"
    BY <1>1 DEF Take, FirstStep
<1>3. ASSUME NEW e \in Domains
      PROVE  Older(e)' /\ Held(domains[e])' /\ Held(cachedDomains[e])' /\ Served(e)'
    <2>1. Older(e) /\ Held(domains[e]) /\ Held(cachedDomains[e]) /\ Served(e) /\ cachedDomains[e] \in Domain
        BY DEF ServedInv, TypeOK
    <2>2. Older(e)' /\ Held(domains[e])' /\ Held(cachedDomains[e])'
        BY <1>1, <2>1 DEF Older, Held
    <2>3. CASE e # d
        BY <1>1, <1>2, <2>1, <2>2, <2>3 DEF Served, Busy, StatusTrue
    <2>4. CASE e = d /\ FirstStep(cachedDomains[d]) = {}
        <3>1. cachedDomains[d].phase = "absent"
            BY <2>1, <2>4 DEF FirstStep, Held, Domain, Phase
        <3>2. QED
            BY <1>1, <2>2, <2>4, <3>1 DEF Served
    <2>5. CASE e = d /\ FirstStep(cachedDomains[d]) # {}
        BY <1>2, <2>2, <2>5 DEF Served, Busy
    <2>6. QED
        BY <2>2, <2>3, <2>4, <2>5
<1>4. Reading'
    BY <1>1, <1>2 DEF Reading, FirstStep
<1>5. QED
    BY <1>3, <1>4 DEF ServedInv

\* A Reconcile ends: the other domains are as they were.
LEMMA ServedEnd ==
    ASSUME TypeOK, ServedInv, rec.pc # "idle", rec' = Idle, UNCHANGED caches, queue \subseteq queue',
           NEW e \in Domains, e = rec.d, \A d \in Domains : d # e => domains'[d] = domains[d],
           Older(e)', Held(domains[e])', Served(e)'
    PROVE  ServedInv'
<1>1. ASSUME NEW d \in Domains
      PROVE  Older(d)' /\ Held(domains[d])' /\ Held(cachedDomains[d])' /\ Served(d)'
    <2>0. Older(d) /\ Held(domains[d]) /\ Held(cachedDomains[d]) /\ Served(d)
        BY DEF ServedInv
    <2>1. CASE d # e
        <3>1. Older(d)' /\ Held(domains[d])' /\ Held(cachedDomains[d])'
            BY <2>0, <2>1 DEF Older, Held
        <3>2. Served(d)'
            BY <2>0, <2>1 DEF Served, Busy, StatusTrue
        <3>3. QED
            BY <3>1, <3>2
    <2>2. CASE d = e
        BY <2>0, <2>2 DEF Held
    <2>3. QED
        BY <2>1, <2>2
<1>2. Reading'
    BY DEF Reading, Idle
<1>3. QED
    BY <1>1, <1>2 DEF ServedInv

\* One that fails has its key queued again.
LEMMA ServedFail ==
    ASSUME TypeOK, ServedInv, rec.pc # "idle", Fail, UNCHANGED <<domains, caches>>
    PROVE  ServedInv'
<1>1. PICK e \in Domains : e = rec.d
    BY RecTypes
<1>2. rec' = Idle /\ queue' = queue \cup {e}
    BY <1>1 DEF Fail
<1>3. Older(e)' /\ Held(domains[e])'
    BY <1>1 DEF ServedInv, Older, Held
<1>4. Served(e)'
    BY <1>2 DEF Served
<1>5. QED
    BY <1>1, <1>2, <1>3, <1>4, ServedEnd

\* One that goes on has the domain it works on in hand.
LEMMA ServedGoesOn ==
    ASSUME TypeOK, ServedInv, rec.pc # "idle", rec'.pc # "idle", rec'.d = rec.d,
           UNCHANGED <<caches, queue>>,
           \A d \in Domains : Held(domains[d])' /\ Older(d)' /\ (d # rec.d => domains'[d] = domains[d]),
           Reading'
    PROVE  ServedInv'
<1>1. ASSUME NEW d \in Domains PROVE Held(cachedDomains[d])' /\ Served(d)'
    <2>1. Held(cachedDomains[d]) /\ Served(d)
        BY DEF ServedInv
    <2>2. QED
        BY <2>1 DEF Held, Served, Busy, StatusTrue
<1>2. QED
    BY <1>1 DEF ServedInv

\* Only the finalizer step and the two last ones write the domain, and only if it is
\* still as it was read; the status written differs from what the cache shows, so that
\* the informer will enqueue the domain.
LEMMA ServedReconcile == ASSUME TypeOK, ServedInv, Reconcile PROVE ServedInv'
<1>1. rec.pc # "idle" /\ UNCHANGED caches
    BY DEF Reconcile, AddFinalizer, FindTemplate, CreateTemplate, ListClaims, WriteStatus, FindOwned,
           ReleaseTemplate, DeleteTemplate, RemoveFinalizer
<1>2. rec \in Rec /\ rec.obj \in Domain
    BY <1>1, RecTypes
<1>3. PICK e \in Domains : e = rec.d
    BY <1>1, RecTypes
<1>4. /\ Older(e) /\ Held(domains[e]) /\ Held(cachedDomains[e]) /\ Served(e)
      /\ domains[e] \in Domain /\ cachedDomains[e] \in Domain
    BY DEF ServedInv, TypeOK
<1>5. CASE Fail /\ UNCHANGED domains
    BY <1>1, <1>5, ServedFail
<1>6. CASE AddFinalizer /\ Current
    <2>1. /\ domains' = [domains EXCEPT ![e] = [rec.obj EXCEPT !.fin = TRUE]]
          /\ rec' = [rec EXCEPT !.pc = "template", !.obj = [rec.obj EXCEPT !.fin = TRUE]]
          /\ domains[e] = rec.obj /\ UNCHANGED queue /\ rec.pc = "finalizer"
        BY <1>3, <1>6 DEF AddFinalizer, Current
    <2>2. /\ domains'[e] = [domains[e] EXCEPT !.fin = TRUE]
          /\ \A d \in Domains : d # e => domains'[d] = domains[d]
        BY <2>1 DEF TypeOK
    <2>3. rec'.pc = "template" /\ rec'.d = e /\ rec'.obj = [rec.obj EXCEPT !.fin = TRUE]
        BY <1>2, <1>3, <2>1 DEF Rec
    <2>4. Older(e)' /\ Held(domains[e])'
        BY <1>1, <1>4, <2>2 DEF Older, Held, Domain
    <2>5. ASSUME NEW d \in Domains, d # e PROVE Older(d)' /\ Held(domains[d])'
        BY <1>1, <2>2, <2>5 DEF ServedInv, Older, Held
    <2>6. Reading'
        <3> SUFFICES ASSUME e \notin queue PROVE Reading'
            BY <1>3, <2>1, <2>3 DEF Reading
        <3>1. /\ rec.obj \in {cachedDomains[e], [cachedDomains[e] EXCEPT !.fin = TRUE]}
              /\ rec.obj.phase = "live"
            BY <1>1, <1>3, <2>1 DEF ServedInv, Reading
        <3>2. rec'.obj = [cachedDomains[e] EXCEPT !.fin = TRUE] /\ rec'.obj.phase = "live"
            BY <1>4, <2>3, <3>1 DEF Domain
        <3>3. QED
            BY <1>1, <2>3, <3>2 DEF Reading
    <2>7. QED
        BY <1>1, <1>3, <2>1, <2>2, <2>3, <2>4, <2>5, <2>6, ServedGoesOn
<1>7. CASE FindTemplate \/ CreateTemplate \/ FindOwned \/ (ReleaseTemplate /\ ~Fail) \/ DeleteTemplate
    <2>1. UNCHANGED <<domains, queue>>
        BY <1>7 DEF FindTemplate, CreateTemplate, FindOwned, ReleaseTemplate, DeleteTemplate, Goto
    <2>2. /\ rec'.d = rec.d /\ rec'.obj = rec.obj
          /\ rec'.pc \in {"list", "create", "unfinalize", "release", "delete"}
          /\ rec'.pc \in {"list", "create"} => rec.pc \in {"template", "create"}
        BY <1>2, <1>7 DEF FindTemplate, CreateTemplate, FindOwned, ReleaseTemplate, DeleteTemplate, Goto, Rec
    <2>3. \A d \in Domains : Held(domains[d])' /\ Older(d)'
        BY <1>1, <2>1 DEF ServedInv, Held, Older
    <2>4. Reading'
        BY <1>1, <2>1, <2>2 DEF ServedInv, Reading
    <2>5. QED
        BY <1>1, <2>1, <2>2, <2>3, <2>4, ServedGoesOn
<1>8. CASE ListClaims
    <2>1. /\ UNCHANGED <<domains, queue>> /\ rec.pc = "list"
          /\ rec'.pc = "status" /\ rec'.d = rec.d /\ rec'.obj = rec.obj
          /\ rec'.nodes = NodesOf(rec.d, cachedClaims)
        BY <1>2, <1>8 DEF ListClaims, Rec
    <2>2. \A d \in Domains : Held(domains[d])' /\ Older(d)'
        BY <1>1, <2>1 DEF ServedInv, Held, Older
    <2>3. rec'.nodes = NodesOf(rec'.d, cachedClaims')
        BY <1>1, <2>1
    <2>4. Reading'
        BY <1>1, <2>1, <2>3 DEF ServedInv, Reading
    <2>5. QED
        BY <1>1, <2>1, <2>2, <2>4, ServedGoesOn
<1>9. CASE WriteStatus
    <2> DEFINE status == StatusOf(e, rec.nodes)
    <2>1. CASE StatusEqual(rec.obj, rec.nodes, status)
        <3>0. rec.pc = "status" /\ rec' = Idle /\ queue' = queue /\ domains' = domains
            BY <1>3, <1>9, <2>1 DEF WriteStatus, Done
        <3>1. Older(e)' /\ Held(domains[e])'
            BY <1>1, <1>4, <3>0 DEF Older, Held
        <3>2. ASSUME e \notin queue, cachedDomains[e] = domains[e]
              PROVE  domains[e].phase = "live" /\ StatusTrue(e)
            <4>1. /\ rec.obj \in {domains[e], [domains[e] EXCEPT !.fin = TRUE]} /\ rec.obj.phase = "live"
                  /\ rec.nodes = NodesOf(e, cachedClaims)
                BY <1>1, <1>3, <3>0, <3>2 DEF ServedInv, Reading
            <4>2. domains[e].phase = "live" /\ domains[e].nodes = rec.obj.nodes
                  /\ domains[e].status = rec.obj.status
                BY <1>4, <4>1 DEF Domain
            <4>3. QED
                BY <2>1, <4>1, <4>2 DEF StatusEqual, StatusTrue
        <3>3. Served(e)'
            BY <1>1, <3>0, <3>2 DEF Served, StatusTrue
        <3>4. QED
            BY <1>1, <1>3, <3>0, <3>1, <3>3, ServedEnd
    <2>2. CASE ~StatusEqual(rec.obj, rec.nodes, status) /\ Current
        <3>0. rec.pc = "status" /\ rec' = Idle /\ queue' = queue
            BY <1>3, <1>9, <2>2 DEF WriteStatus, Done
        <3>1. domains' = [domains EXCEPT ![e].status = status, ![e].nodes = rec.nodes] /\ domains[e] = rec.obj
            BY <1>3, <1>9, <2>2 DEF WriteStatus, Current
        <3>2. /\ domains'[e].status = status /\ domains'[e].nodes = rec.nodes
              /\ domains'[e].uid = domains[e].uid /\ domains'[e].phase = domains[e].phase
              /\ domains'[e].fin = domains[e].fin
              /\ \A d \in Domains : d # e => domains'[d] = domains[d]
            BY <1>4, <3>1 DEF TypeOK, Domain
        <3>3. Older(e)' /\ Held(domains[e])'
            BY <1>1, <1>4, <3>2 DEF Older, Held
        <3>4. ASSUME e \notin queue PROVE cachedDomains[e] # domains'[e]
            <4>1. rec.obj \in {cachedDomains[e], [cachedDomains[e] EXCEPT !.fin = TRUE]}
                BY <1>1, <1>3, <3>4 DEF ServedInv, Reading
            <4>2. rec.obj.status = cachedDomains[e].status /\ rec.obj.nodes = cachedDomains[e].nodes
                BY <1>4, <4>1 DEF Domain
            <4>3. QED
                BY <2>2, <3>2, <4>2 DEF StatusEqual
        <3>5. Served(e)'
            BY <1>1, <3>0, <3>4 DEF Served
        <3>6. QED
            BY <1>1, <1>3, <3>0, <3>2, <3>3, <3>5, ServedEnd
    <2>3. CASE ~StatusEqual(rec.obj, rec.nodes, status) /\ ~Current
        BY <1>3, <1>5, <1>9, <2>3 DEF WriteStatus
    <2>4. QED
        BY <2>1, <2>2, <2>3
<1>10. CASE RemoveFinalizer /\ Current
    <2>1. /\ domains' = [domains EXCEPT ![e].fin = FALSE, ![e].phase = "absent"]
          /\ rec' = Idle /\ queue' = queue
        BY <1>3, <1>10 DEF RemoveFinalizer, Done
    <2>2. /\ domains'[e].phase = "absent" /\ domains'[e].uid = domains[e].uid
          /\ \A d \in Domains : d # e => domains'[d] = domains[d]
        BY <1>4, <2>1 DEF TypeOK, Domain
    <2>3. Older(e)' /\ Held(domains[e])' /\ Served(e)'
        BY <1>1, <1>4, <2>2 DEF Older, Held, Served
    <2>4. QED
        BY <1>1, <1>3, <2>1, <2>2, <2>3, ServedEnd
<1>11. ReleaseTemplate => UNCHANGED domains
    BY DEF ReleaseTemplate
<1>12. (AddFinalizer \/ RemoveFinalizer) /\ ~Current => Fail /\ UNCHANGED domains
    BY DEF AddFinalizer, RemoveFinalizer
<1>13. QED
    BY <1>5, <1>6, <1>7, <1>8, <1>9, <1>10, <1>11, <1>12 DEF Reconcile

\* A controller that starts finds every key in its queue.
LEMMA ServedRestart == ASSUME TypeOK, ServedInv, Restart PROVE ServedInv'
<1>1. /\ rec' = Idle /\ UNCHANGED domains /\ cachedDomains' = domains
      /\ {d \in Domains : domains[d].phase # "absent"} \subseteq queue'
    BY DEF Restart
<1>2. ASSUME NEW d \in Domains
      PROVE  Older(d)' /\ Held(domains[d])' /\ Held(cachedDomains[d])' /\ Served(d)'
    <2>1. Held(domains[d]) /\ domains[d] \in Domain
        BY DEF ServedInv, TypeOK
    <2>2. Older(d)' /\ Held(domains[d])' /\ Held(cachedDomains[d])'
        BY <1>1, <2>1, ComputeDomainControllerAssumption DEF Older, Held, Domain
    <2>3. Served(d)'
        BY <1>1 DEF Served
    <2>4. QED
        BY <2>2, <2>3
<1>3. Reading'
    BY <1>1 DEF Reading, Idle
<1>4. QED
    BY <1>2, <1>3 DEF ServedInv

\* Every step of the cluster, the informers and the controller keeps the invariant.
LEMMA ServedNext == TypeOK /\ ServedInv /\ [Next]_vars => ServedInv'
<1> SUFFICES ASSUME TypeOK, ServedInv, [Next]_vars PROVE ServedInv'
    OBVIOUS
<1>1. CASE WriteFails
    <2>1. rec.pc # "idle" /\ Fail /\ UNCHANGED <<domains, caches>>
        BY <1>1 DEF WriteFails
    <2>2. QED
        BY <2>1, ServedFail
<1>2. CASE UNCHANGED vars
    <2>1. UNCHANGED <<domains, cachedDomains, cachedClaims, queue, rec>>
        BY <1>2 DEF vars
    <2>2. ASSUME NEW d \in Domains
          PROVE  Older(d)' /\ Held(domains[d])' /\ Held(cachedDomains[d])' /\ Served(d)'
        BY <2>1 DEF ServedInv, Older, Held, Served, Busy, StatusTrue
    <2>3. QED
        BY <2>1, <2>2 DEF ServedInv, Reading
<1>3. QED
    BY <1>1, <1>2, ServedCluster, ServedSync, ServedTake, ServedReconcile, ServedRestart DEF Next

\* Once nothing is left to do, no domain is being deleted and the status of every live
\* one is what its claims say, for any number of domains, claims and nodes and any
\* crashes, conflicts, failed writes and lagging caches, that of templates included:
\* each of them leaves the key in the queue or a change the informer has still to see.
THEOREM SettledAlwaysServed == Spec => []SettledIsServed
<1>1. TypeOK /\ ServedInv => SettledIsServed
    <2> SUFFICES ASSUME TypeOK, ServedInv, Settled, NEW d \in Domains
                 PROVE  /\ domains[d].phase # "deleting"
                        /\ domains[d].phase = "live" =>
                              /\ domains[d].nodes = NodesOf(d, claims)
                              /\ domains[d].status = "Ready" <=> Cardinality(NodesOf(d, claims)) >= NumNodes[d]
        BY DEF SettledIsServed
    <2>1. Served(d) /\ d \notin queue /\ ~Busy(d) /\ cachedDomains[d] = domains[d] /\ cachedClaims = claims
        BY DEF ServedInv, Settled, Busy, Idle
    <2>2. domains[d].phase # "deleting" /\ (domains[d].phase = "live" => StatusTrue(d))
        BY <2>1 DEF Served
    <2>3. NodesOf(d, claims) \subseteq Nodes
        BY DEF TypeOK, Claim, NodesOf
    <2>4. Cardinality(NodesOf(d, claims)) \in Nat /\ NumNodes[d] \in Nat
        BY <2>3, FS_Subset, FS_CardinalityType, ComputeDomainControllerAssumption
    <2>5. QED
        BY <2>1, <2>2, <2>4 DEF StatusTrue, StatusOf
<1>2. QED
    BY ServedInit, ServedNext, ControllerTypes, <1>1, PTL DEF Spec
=============================================================================
