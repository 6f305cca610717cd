------------------------- MODULE ComputeDomainPlugin -------------------------
(***************************************************************************)
(* The ComputeDomain DRA kubelet plugin of one node: Prepare and Unprepare *)
(* of resource claims, the checkpoint file they keep on disk, the CDI spec *)
(* file of each prepared claim and the device directories of the domains.  *)
(*                                                                         *)
(* Sources: internal/compute-domain-dra-plugin/{state,checkpoint,cdi,      *)
(* nvcdi_device,discovery,driver}.go.                                      *)
(*                                                                         *)
(* One mutex serialises the calls.  The process may crash between any two  *)
(* accesses to the disk; each file is replaced atomically.  The kubelet    *)
(* repeats a call until it succeeds; a call it gave up on still runs,      *)
(* since the plugin ignores the call's context.                            *)
(***************************************************************************)
EXTENDS Integers, FiniteSets, Sequences, SequencesExt

CONSTANTS
    Claims,      \* UIDs of ResourceClaims
    Domains,     \* ComputeDomain IDs
    NoDomain,    \* a claim without domainID parameter
    DomainOf,    \* DomainOf[c]: the domainID in the claim's opaque parameters
    HasClass,    \* HasClass[c]: a request of the claim names a device class
    AllMode,     \* AllMode[c]: the claim's allocationMode is "All"
    Channels,    \* the allocatable devices
    Channel0,    \* the one used when the mode is not "All"
    MaxFaults,   \* bound: failed accesses to the disk
    MaxCrashes,  \* bound: crashes of the plugin
    MaxTimeouts  \* bound: calls the kubelet gives up on

ASSUME ComputeDomainPluginAssumption ==
    /\ NoDomain \notin Domains
    /\ DomainOf \in [Claims -> Domains \cup {NoDomain}]
    /\ HasClass \in [Claims -> BOOLEAN]
    /\ AllMode \in [Claims -> BOOLEAN]
    /\ Channel0 \in Channels
    /\ {MaxFaults, MaxCrashes, MaxTimeouts} \subseteq Nat

VARIABLES
    prepared,   \* checkpoint: PreparedClaims, the devices of each claim ({}: no entry)
    domains,    \* checkpoint: Domains, the claims of each domain (<<>>: no entry)
    spec,       \* disk: the devices in the claim's CDI spec file ({}: no file)
    dirs,       \* disk: the domains whose device directory exists
    up,         \* the plugin runs
    calls,      \* calls waiting for the mutex
    op,         \* the call that holds the mutex, or Idle
    kubelet,    \* the kubelet's view of each claim
    faults, crashes, timeouts

disk == <<prepared, domains, spec, dirs>>
bounds == <<faults, crashes, timeouts>>
vars == <<disk, up, calls, op, kubelet, bounds>>

\* id 0: the kubelet waits for the answer; otherwise it gave up on the call.
Call == [type : {"prepare", "unprepare"}, claim : Claims, id : Nat]
Step == {"read", "spec", "write", "forget", "delete"}
Idle == [pc |-> "idle"]
Busy(call, pc, devices, known) == [call |-> call, pc |-> pc, devices |-> devices, known |-> known]

TypeOK ==
    /\ prepared \in [Claims -> SUBSET Channels]
    /\ domains \in [Domains -> Seq(Claims)]
    /\ spec \in [Claims -> SUBSET Channels]
    /\ dirs \subseteq Domains
    /\ up \in BOOLEAN
    /\ calls \subseteq Call
    /\ op \in {Idle} \cup [call : Call, pc : Step, devices : SUBSET Channels, known : BOOLEAN]
    /\ kubelet \in [Claims -> {"none", "preparing", "prepared", "unpreparing"}]
    /\ faults \in Nat /\ crashes \in Nat /\ timeouts \in Nat

Init ==
    /\ prepared = [c \in Claims |-> {}] /\ domains = [d \in Domains |-> <<>>]
    /\ spec = [c \in Claims |-> {}] /\ dirs = {}
    /\ up = FALSE /\ calls = {} /\ op = Idle
    /\ kubelet = [c \in Claims |-> "none"]
    /\ faults = 0 /\ crashes = 0 /\ timeouts = 0
-----------------------------------------------------------------------------
(* The kubelet                                                             *)

\* The calls in the plugin, waiting or running.
InPlugin == calls \cup (IF op = Idle THEN {} ELSE {op.call})
Awaited(c) == \E call \in InPlugin : call.claim = c /\ call.id = 0

\* A pod that uses the claim starts, or the last such pod is gone.
KubeletWants(c) ==
    /\ ~Awaited(c)
    /\ \/ kubelet[c] = "none" /\ kubelet' = [kubelet EXCEPT ![c] = "preparing"]
       \/ /\ kubelet[c] \in {"preparing", "prepared"}
          /\ kubelet' = [kubelet EXCEPT ![c] = "unpreparing"]
    /\ UNCHANGED <<disk, up, calls, op, bounds>>

\* NodePrepareResources or NodeUnprepareResources, first call or retry.
KubeletCalls(c) ==
    /\ up /\ ~Awaited(c)
    /\ \/ kubelet[c] = "preparing" /\ calls' = calls \cup {[type |-> "prepare", claim |-> c, id |-> 0]}
       \/ kubelet[c] = "unpreparing" /\ calls' = calls \cup {[type |-> "unprepare", claim |-> c, id |-> 0]}
    /\ UNCHANGED <<disk, up, op, kubelet, bounds>>

\* The kubelet gives up on a call: it stays in the plugin.
KubeletTimeout(c) ==
    /\ timeouts < MaxTimeouts /\ timeouts' = timeouts + 1
    /\ \/ \E call \in calls :
             /\ call.claim = c /\ call.id = 0
             /\ calls' = (calls \ {call}) \cup {[call EXCEPT !.id = timeouts + 1]}
             /\ UNCHANGED op
       \/ /\ op # Idle
          /\ op.call.claim = c /\ op.call.id = 0
          /\ op' = [op EXCEPT !.call.id = timeouts + 1]
          /\ UNCHANGED calls
    /\ UNCHANGED <<disk, up, kubelet, faults, crashes>>
-----------------------------------------------------------------------------
(* Prepare and Unprepare                                                   *)

\* s.Lock()
Lock(call) ==
    /\ up /\ op = Idle /\ call \in calls
    /\ calls' = calls \ {call}
    /\ op' = Busy(call, "read", {}, FALSE)
    /\ UNCHANGED <<disk, up, kubelet, bounds>>

At(type, pc) == op # Idle /\ op.call.type = type /\ op.pc = pc

\* The call succeeds: s.Unlock(), and the kubelet learns of it if it waits.
Return ==
    /\ op' = Idle
    /\ kubelet' = IF op.call.id # 0 THEN kubelet
                  ELSE [kubelet EXCEPT ![op.call.claim] =
                            IF op.call.type = "prepare" THEN "prepared" ELSE "none"]

\* Mutant: an error path that does not release the mutex.
ReturnErrorLocked == UNCHANGED <<op, kubelet>>

\* The call fails: s.Unlock(), and the kubelet will repeat it.
ReturnError == op' = Idle /\ UNCHANGED kubelet

\* getDeviceClassName and extractComputeDomainParams find what they look for.
WellFormed(c) == HasClass[c] /\ DomainOf[c] # NoDomain

\* Mutant: one channel too many.
ChosenDevicesOneMore(c) == IF AllMode[c] THEN 0..Cardinality(Channels) ELSE {Channel0}

\* The devices Prepare chooses.
ChosenDevices(c) == IF AllMode[c] THEN Channels ELSE {Channel0}

\* ensureDomainDeviceNodes: the directory and its channel link, made once.
WithDomainDir(c) == dirs \cup {DomainOf[c]}

\* CreateClaimSpecFile, one CDI device for each device, or DeleteClaimSpecFile.
WithClaimSpec(c, devices) == [spec EXCEPT ![c] = devices]

\* getOrCreateDomain: the claim is appended to its domain, unconditionally.
JoinDomain(c) == [domains EXCEPT ![DomainOf[c]] = Append(@, c)]

\* Unprepare's loop: the first entry goes, in every domain that has one.
LeaveDomains(c) == [d \in Domains |-> RemoveFirst(domains[d], c)]

\* Mutant: the checkpoint's entry of the claim is not looked up.
PrepareReadAlways ==
    LET c == op.call.claim
    IN  /\ At("prepare", "read")
        /\ IF WellFormed(c)
           THEN /\ op' = Busy(op.call, "spec", ChosenDevices(c), FALSE)
                /\ dirs' = WithDomainDir(c)
                /\ UNCHANGED kubelet
           ELSE ReturnError /\ UNCHANGED dirs
        /\ UNCHANGED <<prepared, domains, spec>>

\* Reads the checkpoint.  A claim it has is returned as it is, after its spec
\* file is written again; for a new one the domain's device directory is made.
PrepareRead ==
    LET c == op.call.claim
    IN  /\ At("prepare", "read")
        /\ CASE prepared[c] # {} ->
                  op' = Busy(op.call, "spec", prepared[c], TRUE) /\ UNCHANGED <<dirs, kubelet>>
             [] prepared[c] = {} /\ WellFormed(c) ->
                  /\ op' = Busy(op.call, "spec", ChosenDevices(c), FALSE)
                  /\ dirs' = WithDomainDir(c)
                  /\ UNCHANGED kubelet
             [] OTHER -> ReturnError /\ UNCHANGED dirs
        /\ UNCHANGED <<prepared, domains, spec>>

\* Mutant: the call returns without a checkpoint.
PrepareSpecOnly ==
    /\ At("prepare", "spec")
    /\ spec' = WithClaimSpec(op.call.claim, op.devices)
    /\ Return
    /\ UNCHANGED <<prepared, domains, dirs>>

\* ensureClaimCDIArtifacts
PrepareSpec ==
    /\ At("prepare", "spec")
    /\ spec' = WithClaimSpec(op.call.claim, op.devices)
    /\ IF op.known THEN Return ELSE op' = [op EXCEPT !.pc = "write"] /\ UNCHANGED kubelet
    /\ UNCHANGED <<prepared, domains, dirs>>

\* getOrCreateDomain's entry and the claim's own go to disk together.
PrepareWrite ==
    LET c == op.call.claim
    IN  /\ At("prepare", "write")
        /\ prepared' = [prepared EXCEPT ![c] = op.devices]
        /\ domains' = JoinDomain(c)
        /\ Return
        /\ UNCHANGED <<spec, dirs>>

\* Mutant: the spec file is deleted before the checkpoint is written.
UnprepareReadSpecFirst ==
    /\ At("unprepare", "read")
    /\ IF prepared[op.call.claim] = {} THEN Return
       ELSE op' = [op EXCEPT !.pc = "delete"] /\ UNCHANGED kubelet
    /\ UNCHANGED disk

\* Reads the checkpoint; a claim it does not have is left alone.
UnprepareRead ==
    /\ At("unprepare", "read")
    /\ IF prepared[op.call.claim] = {} THEN Return
       ELSE op' = [op EXCEPT !.pc = "forget"] /\ UNCHANGED kubelet
    /\ UNCHANGED disk

\* The claim leaves its domains, its own entry goes, and the checkpoint is written.
UnprepareWrite ==
    LET c == op.call.claim
    IN  /\ At("unprepare", "forget")
        /\ prepared' = [prepared EXCEPT ![c] = {}]
        /\ domains' = LeaveDomains(c)
        /\ op' = [op EXCEPT !.pc = "delete"]
        /\ UNCHANGED <<spec, dirs, kubelet>>

\* DeleteClaimSpecFile
UnprepareDelete ==
    /\ At("unprepare", "delete")
    /\ spec' = WithClaimSpec(op.call.claim, {})
    /\ Return
    /\ UNCHANGED <<prepared, domains, dirs>>

PluginStep ==
    /\ \/ PrepareRead \/ PrepareSpec \/ PrepareWrite
       \/ UnprepareRead \/ UnprepareWrite \/ UnprepareDelete
    /\ UNCHANGED <<up, calls, bounds>>

\* An access to the disk fails: an error, but for a spec file that cannot be
\* deleted, which is only logged.
DiskFails ==
    /\ faults < MaxFaults /\ faults' = faults + 1
    /\ op # Idle
    /\ IF op.pc = "delete" THEN Return ELSE ReturnError
    /\ UNCHANGED <<disk, up, calls, crashes, timeouts>>
-----------------------------------------------------------------------------
(* The process: NewComputeDomainState finds the checkpoint or creates it   *)

Start == ~up /\ up' = TRUE /\ UNCHANGED <<disk, calls, op, kubelet, bounds>>

Crash ==
    /\ up /\ up' = FALSE
    /\ crashes < MaxCrashes /\ crashes' = crashes + 1
    /\ calls' = {} /\ op' = Idle
    /\ UNCHANGED <<disk, kubelet, faults, timeouts>>

Next ==
    \/ \E c \in Claims : KubeletWants(c) \/ KubeletCalls(c) \/ KubeletTimeout(c)
    \/ \E call \in calls : Lock(call)
    \/ PluginStep \/ DiskFails
    \/ Start \/ Crash

Spec == Init /\ [][Next]_vars

\* The plugin is restarted and runs; the kubelet repeats its calls; a call that
\* waits for the mutex gets it (Go's mutex is fair in starvation mode).
Fairness ==
    /\ WF_vars(PluginStep) /\ WF_vars(Start)
    /\ \A c \in Claims :
          /\ WF_vars(KubeletCalls(c))
          /\ SF_vars(\E call \in calls : call.claim = c /\ Lock(call))
FairSpec == Spec /\ Fairness
-----------------------------------------------------------------------------
\* A claim in the checkpoint has its CDI spec file, with exactly the devices the
\* checkpoint has, and its domain's device directory: whatever crash or failed write
\* separates the three, a prepared claim can be injected into a container.
PreparedHasSpec ==
    \A c \in Claims : prepared[c] # {} => spec[c] = prepared[c] /\ DomainOf[c] \in dirs

\* The two halves of the checkpoint agree: a domain lists each of its prepared
\* claims once, and no other claim, however often calls are repeated.
DomainsAgree ==
    \A d \in Domains :
        /\ IsInjective(domains[d])
        /\ Range(domains[d]) = {c \in Claims : prepared[c] # {} /\ DomainOf[c] = d}

\* What the kubelet was told is prepared is in the checkpoint, so that a later
\* Unprepare finds it, and can be injected; unless a call the kubelet gave up on
\* is still to run and undoes it.
ToldPreparedIsPrepared ==
    timeouts = 0 =>
        \A c \in Claims : kubelet[c] = "prepared" => prepared[c] # {} /\ spec[c] = prepared[c]

\* Once a claim was prepared, an Unprepare that succeeds leaves no CDI spec file of it
\* (state_test.go:183-189), whatever crash made the kubelet repeat the call.
UnpreparedHasNoSpec ==
    \A c \in Claims :
        [](kubelet[c] = "prepared" => [](kubelet[c] = "none" => spec[c] = {}))

\* Every call for a well-formed claim is answered in the end, whatever claims
\* that cannot be prepared are retried beside it.
CallsConclude ==
    \A c \in Claims : WellFormed(c) =>
        (kubelet[c] \in {"preparing", "unpreparing"} ~> kubelet[c] \in {"prepared", "none"})
=============================================================================
