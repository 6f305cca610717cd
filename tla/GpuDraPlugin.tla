------------------------------ MODULE GpuDraPlugin ------------------------------
(***************************************************************************)
(* The GPU DRA plugin of a node (internal/dra-plugin-gpu) and the kubelet  *)
(* that calls it.  The plugin keeps no checkpoint: what is prepared is     *)
(* what has a CDI spec file.  The devices are read from the topology       *)
(* server (cmd/topology-server) once, after the plugin was registered.     *)
(*                                                                         *)
(* A claim is allocated as [results, configs]: the set of pairs            *)
(* <<request, device>> and the sequence of opaque configurations           *)
(* [requests, kind], an empty set of requests meaning all of them.  The    *)
(* container edits of a device are the kind of the configuration applied.  *)
(* Prepare and Unprepare of the state are exclusive (its mutex): each is   *)
(* one step here and its answer another.                                   *)
(***************************************************************************)
EXTENDS Bounds, Sequences, FiniteSets, FiniteSetsExt

CONSTANTS Claims,
          DeviceSets,   \* what the topology server may answer: sets of devices
          NotServed,    \* no answer, or one without usable devices
          Allocations,  \* [claim -> its allocation, if it is allocated]
          NoSpec, DefaultConfig,
          OtherDriver,  \* kind: the configuration of another driver
          Garbled,      \* kind: cannot be decoded
          Rejected      \* kind: does not normalize, validate or apply

VARIABLES served,      \* what the topology server answers
          plugin,      \* "starting", "registered" (no state yet) or "ready"
          allocatable, \* the devices of the state
          published,   \* the devices of the node's ResourceSlice
          common,      \* the common CDI spec file exists
          specs,       \* [claim -> its CDI spec: device -> edits, or NoSpec]
          phase,       \* [claim -> what the kubelet has to do for it]
          answer       \* [claim -> the answer on its way to the kubelet]

draVars == <<served, plugin, allocatable, published, common, specs, phase, answer>>

NoAnswer == [ok |-> FALSE, pending |-> FALSE, devices |-> {}]
Succeeds(ds) == [ok |-> TRUE, pending |-> TRUE, devices |-> ds]
Error == [ok |-> FALSE, pending |-> TRUE, devices |-> {}]
Answer(c, a) == answer' = [answer EXCEPT ![c] = a]
Unanswered(c) == ~ answer[c].pending

DraInit ==
  /\ served = NotServed
  /\ plugin = "starting" /\ allocatable = {} /\ published = {} /\ common = FALSE
  /\ specs = [c \in Claims |-> NoSpec]
  /\ phase = [c \in Claims |-> "free"]
  /\ answer = [c \in Claims |-> NoAnswer]

-----------------------------------------------------------------------------
\* GetOpaqueDeviceConfigs and prepareDevices

\* The configurations of this driver that name the request, or none.
Applicable(claim, request) ==
  {i \in DOMAIN claim.configs : /\ claim.configs[i].kind # OtherDriver
                                /\ \/ claim.configs[i].requests = {}
                                   \/ request \in claim.configs[i].requests}

\* Mutant: the first one wins.
FirstConfigOf(claim, request) ==
  LET is == Applicable(claim, request)
  IN  IF is = {} THEN DefaultConfig ELSE claim.configs[Min(is)].kind

\* The last one wins; the default stands in front of them all.
ConfigOf(claim, request) ==
  LET is == Applicable(claim, request)
  IN  IF is = {} THEN DefaultConfig ELSE claim.configs[Max(is)].kind

\* A configuration that cannot be decoded spoils the claim, used or not; one
\* that is rejected only where it is used.
Preparable(claim) ==
  /\ \A i \in DOMAIN claim.configs : claim.configs[i].kind # Garbled
  /\ \A r \in claim.results : r[2] \in allocatable /\ ConfigOf(claim, r[1]) # Rejected

DevicesOf(claim) == {r[2] : r \in claim.results}

\* One device of the spec per result, with the edits of its configuration.
PreparedDevices(claim) ==
  [d \in DevicesOf(claim) |->
     LET r == CHOOSE r \in claim.results : r[2] = d IN ConfigOf(claim, r[1])]

\* The configurations are a sequence, and the scheduler allocates a device to
\* one request only.
ASSUME AllocationsAssumption ==
  \A c \in Claims :
    /\ DOMAIN Allocations[c].configs \subseteq Nat
    /\ \A r, s \in Allocations[c].results : r[2] = s[2] => r = s

\* No spec file is not a spec file.
ASSUME NoSpecAssumption == \A c \in Claims : PreparedDevices(Allocations[c]) # NoSpec

-----------------------------------------------------------------------------
\* The CDI handler: each spec is one file, written or removed at once.
CreateCommonSpecFile == common' = TRUE
CreateClaimSpecFile(c, devices) == specs' = [specs EXCEPT ![c] = devices]
DeleteClaimSpecFile(c) == specs' = [specs EXCEPT ![c] = NoSpec]

\* The devices of the served topology, if there is one with IDs for all GPUs.
EnumerateAllPossibleDevices == served # NotServed /\ allocatable' = served

-----------------------------------------------------------------------------
\* The topology changes: another set of GPUs, or new IDs.
ChangeServed ==
  /\ Spend
  /\ served' \in (DeviceSets \cup {NotServed}) \ {served}
  /\ UNCHANGED <<plugin, allocatable, published, common, specs, phase, answer>>

\* NewDriver: the helper registers the plugin first ...
StartHelper ==
  /\ plugin = "starting" /\ plugin' = "registered"
  /\ UNCHANGED <<served, allocatable, published, common, specs, phase, answer, boundVars>>

\* ... the state follows once the topology server answers, asked every 3 s,
\* with the common spec file ...
NewDeviceState ==
  /\ plugin = "registered"
  /\ EnumerateAllPossibleDevices
  /\ CreateCommonSpecFile
  /\ plugin' = "ready"
  /\ UNCHANGED <<served, published, specs, phase, answer, boundVars>>

\* ... and then the devices are published.
PublishResources ==
  /\ plugin = "ready" /\ published # allocatable
  /\ published' = allocatable
  /\ UNCHANGED <<served, plugin, allocatable, common, specs, phase, answer, boundVars>>

-----------------------------------------------------------------------------
\* The scheduler and the kubelet

\* A claim is allocated from the published devices that are free.
Allocate(c) ==
  /\ phase[c] = "free"
  /\ DevicesOf(Allocations[c]) \subseteq published
  /\ \A o \in Claims : phase[o] # "free" =>
       DevicesOf(Allocations[o]) \cap DevicesOf(Allocations[c]) = {}
  /\ phase' = [phase EXCEPT ![c] = "prepare"]
  /\ UNCHANGED <<served, plugin, allocatable, published, common, specs, answer, boundVars>>

\* The pod ends, or is deleted before it started.
EndPod(c) ==
  /\ Unanswered(c)
  /\ phase[c] \in {"prepare", "running"}
  /\ phase' = [phase EXCEPT ![c] = "unprepare"]
  /\ UNCHANGED <<served, plugin, allocatable, published, common, specs, answer, boundVars>>

\* The kubelet has the answer; after an error it calls again.
Receive(c) ==
  /\ ~ Unanswered(c)
  /\ phase' = [phase EXCEPT ![c] =
       IF ~ answer[c].ok THEN @ ELSE IF @ = "prepare" THEN "running" ELSE "free"]
  /\ Answer(c, NoAnswer)
  /\ UNCHANGED <<served, plugin, allocatable, published, common, specs, boundVars>>

Called(c, p) == plugin = "ready" /\ Unanswered(c) /\ phase[c] = p

-----------------------------------------------------------------------------
\* The driver

\* Prepare: all devices of the claim, then its spec file; the answer names
\* the devices by their CDI ids.
Prepare(c) ==
  /\ Called(c, "prepare")
  /\ LET claim == Allocations[c]
     IN  \/ /\ Preparable(claim)
            /\ CreateClaimSpecFile(c, PreparedDevices(claim))
            /\ Answer(c, Succeeds(DevicesOf(claim)))
            /\ UNCHANGED boundVars
         \/ ~ Preparable(claim) /\ Answer(c, Error) /\ UNCHANGED <<specs, boundVars>>
         \/ Preparable(claim) /\ Mishap /\ Answer(c, Error) /\ UNCHANGED specs
  /\ UNCHANGED <<served, plugin, allocatable, published, common, phase>>

\* Unprepare: the spec file is removed; none is as good.
Unprepare(c) ==
  /\ Called(c, "unprepare")
  /\ \/ DeleteClaimSpecFile(c) /\ Answer(c, Succeeds({})) /\ UNCHANGED boundVars
     \/ specs[c] # NoSpec /\ Mishap /\ Answer(c, Error) /\ UNCHANGED specs
  /\ UNCHANGED <<served, plugin, allocatable, published, common, phase>>

\* The process dies: the calls it was answering fail, the files stay.
Die ==
  /\ plugin' = "starting" /\ allocatable' = {}
  /\ answer' = [c \in Claims |-> NoAnswer]
  /\ UNCHANGED <<served, published, common, specs, phase>>

\* A call that arrives between registration and state finds a nil pointer.
CallWithoutState ==
  /\ plugin = "registered"
  /\ \E c \in Claims : phase[c] \in {"prepare", "unprepare"}
  /\ Die
  /\ UNCHANGED boundVars

PluginCrash == Mishap /\ Die

DraNext ==
  \/ ChangeServed \/ StartHelper \/ NewDeviceState \/ PublishResources
  \/ CallWithoutState \/ PluginCrash
  \/ \E c \in Claims : Allocate(c) \/ EndPod(c) \/ Receive(c) \/ Prepare(c) \/ Unprepare(c)
=============================================================================
