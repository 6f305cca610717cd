----------------------- MODULE ComputeDomainController -----------------------
(***************************************************************************)
(* The ComputeDomain controller: a ComputeDomain gets a finalizer, a       *)
(* ResourceClaimTemplate and a status computed from the ResourceClaims     *)
(* that carry its name; its deletion waits for the template's.             *)
(*                                                                         *)
(* Source: internal/compute-domain-controller/computedomain_controller.go. *)
(*                                                                         *)
(* One worker reconciles one key at a time.  It reads from informer caches *)
(* that lag behind the API server, each object on its own, and writes with *)
(* the resource version it read: a write over a changed object is refused. *)
(* An error puts the key back on the queue.                                *)
(***************************************************************************)
EXTENDS Integers, FiniteSets

CONSTANTS
    Domains,        \* names of ComputeDomains, of one namespace
    NoDomain,
    Templates,      \* names of ResourceClaimTemplates
    TemplateOf,     \* TemplateOf[d]: templateName of a domain; its spec is immutable
    NumNodes,       \* NumNodes[d]: spec.numNodes
    Claims,         \* ResourceClaims
    Nodes,          \* the pools a claim may be allocated from
    NoNode,
    MaxUid,         \* bound: incarnations of a domain
    MaxChanges,     \* bound: what users, the scheduler and the claim controller do
    MaxFaults,      \* bound: failed writes
    MaxRestarts     \* bound: crashes of the controller

ASSUME ComputeDomainControllerAssumption ==
    /\ NoDomain \notin Domains /\ NoNode \notin Nodes
    /\ TemplateOf \in [Domains -> Templates]
    /\ NumNodes \in [Domains -> Nat]
    /\ IsFiniteSet(Nodes)
    /\ {MaxUid, MaxChanges, MaxFaults, MaxRestarts} \subseteq Nat

VARIABLES
    domains, templates, claims,                     \* objects at the API server
    cachedDomains, cachedTemplates, cachedClaims,   \* the manager's caches
    queue,      \* keys in the work queue
    rec,        \* the Reconcile in progress, or Idle
    changes, faults, restarts,
    stale       \* history: a key was taken while the template cache was behind

server == <<domains, templates, claims>>
caches == <<cachedDomains, cachedTemplates, cachedClaims>>
bounds == <<changes, faults, restarts>>
vars == <<server, caches, queue, rec, bounds, stale>>

Phase == {"absent", "live", "deleting"}
\* status: status.status; nodes: status.nodes, which is sorted by name
Domain == [uid : 0..MaxUid, phase : Phase, fin : BOOLEAN, nodes : SUBSET Nodes,
           status : {"none", "NotReady", "Ready"}]
Template == [phase : Phase, fin : BOOLEAN, owner : Domains \cup {NoDomain}, uid : 0..MaxUid]
\* domain: the claim's label; node: the pool of its allocation
Claim == [domain : Domains \cup {NoDomain}, node : Nodes \cup {NoNode}]

NewDomain(uid) == [uid |-> uid, phase |-> "live", fin |-> FALSE, nodes |-> {}, status |-> "none"]
NoTemplate == [phase |-> "absent", fin |-> FALSE, owner |-> NoDomain, uid |-> 0]
NoClaim == [domain |-> NoDomain, node |-> NoNode]

Idle == [pc |-> "idle"]
Step == {"finalizer", "template", "create", "list", "status",
         "owned", "release", "delete", "unfinalize"}
\* obj, tmpl: the objects as they were read; nodes: the nodes of the listed claims
Rec == [pc : Step, d : Domains, obj : Domain, tmpl : Template, nodes : SUBSET Nodes]

TypeOK ==
    /\ domains \in [Domains -> Domain] /\ cachedDomains \in [Domains -> Domain]
    /\ templates \in [Templates -> Template] /\ cachedTemplates \in [Templates -> Template]
    /\ claims \in [Claims -> Claim] /\ cachedClaims \in [Claims -> Claim]
    /\ queue \subseteq Domains
    /\ rec \in {Idle} \cup Rec
    /\ changes \in Nat /\ faults \in Nat /\ restarts \in Nat
    /\ stale \in BOOLEAN

Init ==
    /\ domains = [d \in Domains |-> [NewDomain(0) EXCEPT !.phase = "absent"]]
    /\ templates = [t \in Templates |-> NoTemplate]
    /\ claims = [c \in Claims |-> NoClaim]
    /\ cachedDomains = domains /\ cachedTemplates = templates /\ cachedClaims = claims
    /\ queue = {} /\ rec = Idle
    /\ changes = 0 /\ faults = 0 /\ restarts = 0
    /\ stale = FALSE
-----------------------------------------------------------------------------
(* The rest of the cluster                                                 *)

\* Deletion waits for the finalizer.
DeletedDomain(obj) == [obj EXCEPT !.phase = IF obj.fin THEN "deleting" ELSE "absent"]
DeletedTemplate(tmpl) == IF tmpl.fin THEN [tmpl EXCEPT !.phase = "deleting"] ELSE NoTemplate

Change ==
    /\ changes < MaxChanges /\ changes' = changes + 1
    /\ UNCHANGED <<caches, queue, rec, faults, restarts, stale>>

CreateDomain(d) ==
    /\ domains[d].phase = "absent" /\ domains[d].uid < MaxUid
    /\ domains' = [domains EXCEPT ![d] = NewDomain(@.uid + 1)]
    /\ Change /\ UNCHANGED <<templates, claims>>

DeleteDomain(d) ==
    /\ domains[d].phase = "live"
    /\ domains' = [domains EXCEPT ![d] = DeletedDomain(@)]
    /\ Change /\ UNCHANGED <<templates, claims>>

UserDeletesTemplate(t) ==
    /\ templates[t].phase = "live"
    /\ templates' = [templates EXCEPT ![t] = DeletedTemplate(@)]
    /\ Change /\ UNCHANGED <<domains, claims>>

\* A pod's claim is made from a template and gets the label in it.
CreateClaim(c, t) ==
    /\ claims[c] = NoClaim /\ templates[t].phase # "absent"
    /\ claims' = [claims EXCEPT ![c] = [NoClaim EXCEPT !.domain = templates[t].owner]]
    /\ Change /\ UNCHANGED <<domains, templates>>

AllocateClaim(c, n) ==
    /\ claims[c].domain # NoDomain /\ claims[c].node = NoNode
    /\ claims' = [claims EXCEPT ![c].node = n]
    /\ Change /\ UNCHANGED <<domains, templates>>

DeleteClaim(c) ==
    /\ claims[c] # NoClaim
    /\ claims' = [claims EXCEPT ![c] = NoClaim]
    /\ Change /\ UNCHANGED <<domains, templates>>

OwnerExists(tmpl) ==
    /\ tmpl.owner \in Domains
    /\ domains[tmpl.owner].uid = tmpl.uid
    /\ domains[tmpl.owner].phase # "absent"

\* The garbage collector deletes what its controller reference no longer owns.
CollectGarbage(t) ==
    /\ templates[t].phase = "live" /\ ~OwnerExists(templates[t])
    /\ templates' = [templates EXCEPT ![t] = DeletedTemplate(@)]
    /\ UNCHANGED <<domains, claims, caches, queue, rec, bounds, stale>>

\* An informer catches up with an object and enqueues the keys it maps to:
\* the domain itself, the owner of a template, the label of a claim.
SyncDomain(d) ==
    /\ cachedDomains[d] # domains[d]
    /\ cachedDomains' = [cachedDomains EXCEPT ![d] = domains[d]]
    /\ queue' = queue \cup {d}
    /\ UNCHANGED <<server, cachedTemplates, cachedClaims, rec, bounds, stale>>

SyncTemplate(t) ==
    /\ cachedTemplates[t] # templates[t]
    /\ cachedTemplates' = [cachedTemplates EXCEPT ![t] = templates[t]]
    /\ queue' = queue \cup ({cachedTemplates[t].owner, templates[t].owner} \cap Domains)
    /\ UNCHANGED <<server, cachedDomains, cachedClaims, rec, bounds, stale>>

\* Mutant: only the domain that a claim has now is enqueued.
SyncClaimOfNow(c) ==
    /\ cachedClaims[c] # claims[c]
    /\ cachedClaims' = [cachedClaims EXCEPT ![c] = claims[c]]
    /\ queue' = queue \cup ({claims[c].domain} \cap Domains)
    /\ UNCHANGED <<server, cachedDomains, cachedTemplates, rec, bounds, stale>>

SyncClaim(c) ==
    /\ cachedClaims[c] # claims[c]
    /\ cachedClaims' = [cachedClaims EXCEPT ![c] = claims[c]]
    /\ queue' = queue \cup ({cachedClaims[c].domain, claims[c].domain} \cap Domains)
    /\ UNCHANGED <<server, cachedDomains, cachedTemplates, rec, bounds, stale>>
-----------------------------------------------------------------------------
(* Reconcile                                                               *)

Template0 == TemplateOf[rec.d]

\* Mutant: the template is made before the finalizer is there.
FirstStepNoFinalizer(obj) ==
    CASE obj.phase = "live" -> {"template"}
      [] obj.phase = "deleting" /\ obj.fin -> {"owned"}
      [] OTHER -> {}

\* Reconcile's branches: what it does first for the domain it read, if anything.
FirstStep(obj) ==
    CASE obj.phase = "live" -> IF obj.fin THEN {"template"} ELSE {"finalizer"}
      [] obj.phase = "deleting" /\ obj.fin -> {"owned"}
      [] OTHER -> {}

\* The worker takes a key and reads the domain.
Take(d) ==
    /\ rec = Idle /\ d \in queue
    /\ stale' = (stale \/ cachedTemplates # templates)
    /\ queue' = queue \ {d}
    /\ IF FirstStep(cachedDomains[d]) = {} THEN UNCHANGED rec
       ELSE \E pc \in FirstStep(cachedDomains[d]) :
               rec' = [pc |-> pc, d |-> d, obj |-> cachedDomains[d], tmpl |-> NoTemplate, nodes |-> {}]
    /\ UNCHANGED <<server, caches, bounds>>

Goto(pc) == rec' = [rec EXCEPT !.pc = pc] /\ UNCHANGED queue
Done == rec' = Idle /\ UNCHANGED queue

\* Mutant: an error is not returned.
FailSilently == rec' = Idle /\ UNCHANGED queue

\* Reconcile returns an error.
Fail == rec' = Idle /\ queue' = queue \cup {rec.d}

\* The domain is still the one that was read.
Current == domains[rec.d] = rec.obj

\* ensureFinalizer
AddFinalizer ==
    LET new == [rec.obj EXCEPT !.fin = TRUE]
    IN  /\ rec.pc = "finalizer"
        /\ IF Current
           THEN /\ domains' = [domains EXCEPT ![rec.d] = new]
                /\ rec' = [rec EXCEPT !.pc = "template", !.obj = new] /\ UNCHANGED queue
           ELSE Fail /\ UNCHANGED domains
        /\ UNCHANGED <<templates, claims>>

\* ensureTemplate: a template of that name, anybody's, is enough.
FindTemplate ==
    /\ rec.pc = "template"
    /\ Goto(IF cachedTemplates[Template0].phase # "absent" THEN "list" ELSE "create")
    /\ UNCHANGED server

\* One that exists by now is no error.
CreateTemplate ==
    /\ rec.pc = "create"
    /\ templates' = IF templates[Template0].phase # "absent" THEN templates
                    ELSE [templates EXCEPT ![Template0] =
                             [phase |-> "live", fin |-> TRUE, owner |-> rec.d, uid |-> rec.obj.uid]]
    /\ Goto("list")
    /\ UNCHANGED <<domains, claims>>

\* Mutant: claims that are not allocated count.
NodesOfAllClaims(d, view) == {view[c].node : c \in {x \in Claims : view[x].domain = d}}

\* The nodes of the claims labelled with the domain's name.
NodesOf(d, view) == {view[c].node : c \in {x \in Claims : view[x].domain = d}} \ {NoNode}

\* Mutant: more nodes than asked for are needed.
StatusOfMore(d, nodes) ==
    IF NumNodes[d] = 0 \/ Cardinality(nodes) > NumNodes[d] THEN "Ready" ELSE "NotReady"

StatusOf(d, nodes) ==
    IF NumNodes[d] = 0 \/ Cardinality(nodes) >= NumNodes[d] THEN "Ready" ELSE "NotReady"

\* updateStatus, the List.
ListClaims ==
    /\ rec.pc = "list"
    /\ rec' = [rec EXCEPT !.pc = "status", !.nodes = NodesOf(rec.d, cachedClaims)]
    /\ UNCHANGED <<server, queue>>

StatusEqual(obj, nodes, status) == obj.status = status /\ obj.nodes = nodes

\* updateStatus, the write.
WriteStatus ==
    LET status == StatusOf(rec.d, rec.nodes)
    IN  /\ rec.pc = "status"
        /\ IF StatusEqual(rec.obj, rec.nodes, status) THEN Done /\ UNCHANGED domains
           ELSE IF Current
           THEN /\ domains' = [domains EXCEPT ![rec.d].status = status, ![rec.d].nodes = rec.nodes]
                /\ Done
           ELSE Fail /\ UNCHANGED domains
        /\ UNCHANGED <<templates, claims>>

\* isOwnedBy: by name, whatever the incarnation.
IsOwnedBy(tmpl, d) == tmpl.owner = d

\* deleteResourceClaimTemplates: the Get, and what it leads to.
FindOwned ==
    LET tmpl == cachedTemplates[Template0]
    IN  /\ rec.pc = "owned"
        /\ rec' = [rec EXCEPT !.tmpl = tmpl,
                       !.pc = CASE tmpl.phase = "absent" \/ ~IsOwnedBy(tmpl, rec.d) -> "unfinalize"
                                [] tmpl.phase # "absent" /\ IsOwnedBy(tmpl, rec.d) /\ tmpl.fin -> "release"
                                [] OTHER -> "delete"]
        /\ UNCHANGED <<server, queue>>

\* Mutant: the template is left to the garbage collector.
ReleaseTemplateOnly ==
    /\ rec.pc = "release"
    /\ IF templates[Template0] = rec.tmpl
       THEN /\ templates' = [templates EXCEPT ![Template0].fin = FALSE]
            /\ Goto("unfinalize")
       ELSE Fail /\ UNCHANGED templates
    /\ UNCHANGED <<domains, claims>>

\* The template's finalizer goes, and the template if it waited for that.
ReleaseTemplate ==
    /\ rec.pc = "release"
    /\ IF templates[Template0] = rec.tmpl
       THEN /\ templates' = [templates EXCEPT ![Template0] =
                                IF @.phase = "deleting" THEN NoTemplate ELSE [@ EXCEPT !.fin = FALSE]]
            /\ Goto("delete")
       ELSE Fail /\ UNCHANGED templates
    /\ UNCHANGED <<domains, claims>>

\* One that is gone by now is no error.
DeleteTemplate ==
    /\ rec.pc = "delete"
    /\ templates' = [templates EXCEPT ![Template0] = DeletedTemplate(@)]
    /\ Goto("unfinalize")
    /\ UNCHANGED <<domains, claims>>

\* handleDeletion's last step: the domain is gone.
RemoveFinalizer ==
    /\ rec.pc = "unfinalize"
    /\ IF Current
       THEN domains' = [domains EXCEPT ![rec.d].fin = FALSE, ![rec.d].phase = "absent"] /\ Done
       ELSE Fail /\ UNCHANGED domains
    /\ UNCHANGED <<templates, claims>>

Reconcile ==
    /\ \/ AddFinalizer \/ FindTemplate \/ CreateTemplate \/ ListClaims \/ WriteStatus
       \/ FindOwned \/ ReleaseTemplate \/ DeleteTemplate \/ RemoveFinalizer
    /\ UNCHANGED <<caches, bounds, stale>>

\* A write fails.
WriteFails ==
    /\ faults < MaxFaults /\ faults' = faults + 1
    /\ rec.pc \in {"finalizer", "create", "status", "release", "delete", "unfinalize"}
    /\ Fail
    /\ UNCHANGED <<server, caches, changes, restarts, stale>>

\* The caches are filled before the worker starts, and every object enqueues.
Restart ==
    /\ restarts < MaxRestarts /\ restarts' = restarts + 1
    /\ rec' = Idle
    /\ cachedDomains' = domains /\ cachedTemplates' = templates /\ cachedClaims' = claims
    /\ queue' = {d \in Domains : domains[d].phase # "absent"}
                \cup ({templates[t].owner : t \in Templates} \cap Domains)
                \cup ({claims[c].domain : c \in Claims} \cap Domains)
    /\ UNCHANGED <<server, changes, faults, stale>>

Cluster ==
    \/ \E d \in Domains : CreateDomain(d) \/ DeleteDomain(d)
    \/ \E t \in Templates : UserDeletesTemplate(t) \/ CollectGarbage(t)
    \/ \E c \in Claims : \/ \E t \in Templates : CreateClaim(c, t)
                         \/ \E n \in Nodes : AllocateClaim(c, n)
                         \/ DeleteClaim(c)

Sync ==
    \/ \E d \in Domains : SyncDomain(d)
    \/ \E t \in Templates : SyncTemplate(t)
    \/ \E c \in Claims : SyncClaim(c)

Next ==
    \/ Cluster \/ Sync
    \/ \E d \in Domains : Take(d)
    \/ Reconcile \/ WriteFails \/ Restart

Spec == Init /\ [][Next]_vars

\* Informers catch up, the worker runs and takes every key in its turn.
Fairness ==
    /\ WF_vars(Reconcile) /\ WF_vars(Sync)
    /\ \A d \in Domains : SF_vars(Take(d))
FairSpec == Spec /\ Fairness
-----------------------------------------------------------------------------
\* A template that carries the controller's finalizer belongs to an incarnation
\* of a domain that exists and carries it too: nothing else would ever remove the
\* template, whatever crash or failed write interrupts Reconcile.
TemplateGuarded ==
    \A t \in Templates : templates[t].fin =>
        OwnerExists(templates[t]) /\ domains[templates[t].owner].fin

\* ... as long as no key was taken while the cache of templates was behind.
GuardedWhileFresh == ~stale => TemplateGuarded

\* Nothing is left to do.
Settled ==
    /\ queue = {} /\ rec = Idle
    /\ cachedDomains = domains /\ cachedTemplates = templates /\ cachedClaims = claims

\* Every live domain has a template of its own in the end: a claim made from it names
\* the incarnation that exists, although a template left by an earlier incarnation of
\* the same name would be accepted; if the cache of templates was never behind.
DomainHasOwnTemplate ==
    ~stale /\ Settled => \A d \in Domains : domains[d].phase = "live" =>
        templates[TemplateOf[d]].owner = d /\ templates[TemplateOf[d]].uid = domains[d].uid

\* What Settled leaves is served: nobody enqueues a domain again once the caches are
\* up to date, so a status computed from a list that went out of date before it was
\* written, a refused or failed write and a restart must each have left its key there
\* (computedomain_controller.go:67-115, 235-309).
SettledIsServed ==
    Settled => \A d \in Domains :
        /\ domains[d].phase # "deleting"
        /\ domains[d].phase = "live" =>
              /\ domains[d].nodes = NodesOf(d, claims)
              /\ domains[d].status = "Ready" <=> Cardinality(NodesOf(d, claims)) >= NumNodes[d]

\* The status of a live domain settles at what its claims say, although it is
\* computed from a list that may be stale when it is written.
StatusSettles ==
    <>[](\A d \in Domains : domains[d].phase = "live" =>
            /\ domains[d].nodes = NodesOf(d, claims)
            /\ domains[d].status = "Ready" <=> Cardinality(NodesOf(d, claims)) >= NumNodes[d])

\* A deleted domain goes away, template first, whatever conflicts it meets.
DeletionCompletes == \A d \in Domains : domains[d].phase = "deleting" ~> domains[d].phase # "deleting"
=============================================================================
