------------------------------ MODULE FleetProofs ------------------------------
(***************************************************************************)
(* What is proved of the fleet, for any pools, profiles, claims, bounds    *)
(* and faults: the mock controller never rolls out a configuration before  *)
(* the ConfigMap holds it, the GPU DRA plugin's spec files are those its   *)
(* running claims were promised, no component of the KWOK nodes forgets a  *)
(* node, and every variable has its type.                                  *)
(***************************************************************************)
EXTENDS Fleet, WellFoundedInduction, TLAPS

\* What a pass holds in each of its parts.
PassShape ==
  \/ pass = NoPass
  \/ pass = [at |-> "render", config |-> pass.config, left |-> pass.left, desired |-> pass.desired]
  \/ pass = [at |-> "cms", desired |-> pass.desired, todo |-> pass.todo]
  \/ pass = [at |-> "sets", desired |-> pass.desired, todo |-> pass.todo]

ObjectShape ==
  /\ DOMAIN cms = Pools
  /\ DOMAIN sets = Pools
  /\ \A p \in Pools : sets[p] = Absent \/ sets[p] = [hash |-> sets[p].hash, built |-> sets[p].built]

\* While the ConfigMaps are applied, what is not yet as desired is still to do.
ConfigMapsUnderway ==
  PassAt("cms") =>
    \A p \in Pools : cms[p] = pass.desired[p] \/ \E o \in pass.todo : o[2] = p

\* Once the DaemonSets are applied, every ConfigMap is as desired.
ConfigMapsApplied == PassAt("sets") => \A p \in Pools : cms[p] = pass.desired[p]

MockInv == PassShape /\ ObjectShape /\ ConfigMapsUnderway /\ ConfigMapsApplied

\* The mock controller starts with no pass and no objects.
LEMMA MockInvInit == Init => MockInv
  BY DEF Init, MockInit, MockInv, PassShape, ObjectShape, ConfigMapsUnderway,
         ConfigMapsApplied, PassAt, NoPass

\* Nothing the other components do touches the mock controller's state.
LEMMA MockInvUnchanged ==
  ASSUME MockInv, UNCHANGED mockVars
  PROVE  MockInv' /\ UNCHANGED sets
  BY DEF mockVars, MockInv, PassShape, ObjectShape, ConfigMapsUnderway,
         ConfigMapsApplied, PassAt, NoPass

\* What the difference of the ConfigMaps leaves out is as desired.
LEMMA DiffCoversConfigMaps ==
  ASSUME NEW p \in Pools, cms[p] # pass.desired[p]
  PROVE  \E o \in DiffConfigMaps : o[2] = p
<1>1. CASE pass.desired[p] # Absent /\ cms[p] = Absent
  <2>1. <<"create", p>> \in DiffConfigMaps  BY <1>1 DEF DiffConfigMaps, Diff
  <2> QED  BY <2>1
<1>2. CASE pass.desired[p] # Absent /\ cms[p] # Absent
  <2>1. <<"update", p>> \in DiffConfigMaps  BY <1>2 DEF DiffConfigMaps, Diff
  <2> QED  BY <2>1
<1>3. CASE pass.desired[p] = Absent /\ cms[p] # Absent
  <2>1. <<"delete", p>> \in DiffConfigMaps  BY <1>3 DEF DiffConfigMaps, Diff
  <2> QED  BY <2>1
<1> QED  BY <1>1, <1>2, <1>3

\* The steps of others that change what the mock controller reads or wrote.
LEMMA MockInvCluster ==
  ASSUME MockInv,
         ChangeConfig \/ ChangeProfile \/ \E p \in Pools : EditDaemonSet(p)
  PROVE  MockInv' /\ \A p \in Pools : sets'[p] # Absent =>
                       sets[p] # Absent /\ sets'[p].hash = sets[p].hash
<1>1. CASE ChangeConfig \/ ChangeProfile
  BY <1>1 DEF ChangeConfig, ChangeProfile, MockInv, PassShape, ObjectShape,
              ConfigMapsUnderway, ConfigMapsApplied, PassAt, NoPass
<1>2. CASE \E p \in Pools : EditDaemonSet(p)
  <2>1. PICK p \in Pools : EditDaemonSet(p)  BY <1>2
  <2>2. UNCHANGED <<cms, pass>>  BY <2>1 DEF EditDaemonSet
  <2>3. sets[p] = [hash |-> sets[p].hash, built |-> sets[p].built]
    BY <2>1 DEF EditDaemonSet, MockInv, ObjectShape
  <2>4. \/ sets' = [sets EXCEPT ![p] = Absent]
        \/ sets' = [sets EXCEPT ![p] = [hash |-> sets[p].hash, built |-> FALSE]]
    BY <2>1, <2>3 DEF EditDaemonSet
  <2>5. \A q \in Pools : q # p => sets'[q] = sets[q]
    BY <2>4 DEF MockInv, ObjectShape
  <2>6. sets'[p] = Absent \/ sets'[p] = [hash |-> sets[p].hash, built |-> FALSE]
    BY <2>4 DEF MockInv, ObjectShape
  <2>7. ObjectShape'
    BY <2>2, <2>4, <2>5, <2>6 DEF MockInv, ObjectShape
  <2>8. PassShape' /\ ConfigMapsUnderway' /\ ConfigMapsApplied'
    BY <2>2 DEF MockInv, PassShape, ConfigMapsUnderway, ConfigMapsApplied, PassAt, NoPass
  <2> QED
    BY <2>1, <2>3, <2>5, <2>6, <2>7, <2>8 DEF MockInv, EditDaemonSet
<1> QED  BY <1>1, <1>2

\* Rendering one more profile keeps the shape of the pass.
LEMMA RenderingShape ==
  ASSUME NEW r, NEW c, NEW left, NEW desired, NEW l, NEW d,
         r = [at |-> "render", config |-> c, left |-> left, desired |-> desired]
  PROVE  [r EXCEPT !.left = l, !.desired = d] =
         [at |-> "render", config |-> c, left |-> l, desired |-> d]
<1>1. PICK r1 : r1 = [r EXCEPT !.left = l]
  OBVIOUS
<1>2. r1 = [at |-> "render", config |-> c, left |-> l, desired |-> desired]
  BY <1>1
<1>3. [r1 EXCEPT !.desired = d] = [at |-> "render", config |-> c, left |-> l, desired |-> d]
  BY <1>2
<1>4. [r EXCEPT !.left = l, !.desired = d] = [r1 EXCEPT !.desired = d]
  BY <1>1
<1> QED
  BY <1>3, <1>4

\* A pass reads, renders and lists; it changes no object.
LEMMA MockInvPassReads ==
  ASSUME MockInv,
         BeginPass \/ RenderConfig \/ ListConfigMaps \/ ListDaemonSets \/ FinishPass \/ PassFails
  PROVE  MockInv' /\ UNCHANGED sets
<1>0. UNCHANGED <<cms, sets>>
  BY DEF BeginPass, RenderConfig, ListConfigMaps, ListDaemonSets, FinishPass, PassFails
<1>1. ObjectShape'
  BY <1>0 DEF MockInv, ObjectShape
<1>2. CASE pass' = NoPass
  BY <1>0, <1>1, <1>2 DEF MockInv, PassShape, ConfigMapsUnderway, ConfigMapsApplied, PassAt, NoPass
<1>3. CASE BeginPass
  <2>1. pass' = [at |-> "render", config |-> config, left |-> {p \in Pools : config[p] # NotMock},
                 desired |-> [p \in Pools |-> Absent]]
    BY <1>3 DEF BeginPass
  <2> QED
    BY <1>0, <1>1, <2>1 DEF MockInv, PassShape, ConfigMapsUnderway, ConfigMapsApplied, PassAt
<1>4. CASE RenderConfig /\ pass' # NoPass
  <2>1. pass = [at |-> "render", config |-> pass.config, left |-> pass.left, desired |-> pass.desired]
    BY <1>4 DEF RenderConfig, MockInv, PassShape, PassAt, NoPass
  <2> DEFINE p == CHOOSE q \in pass.left : \A r \in pass.left : q <= r
             l == pass.left \ {p}
             d == [pass.desired EXCEPT ![p] = Rendered(pass.config[p])]
  <2>2. pass' = [pass EXCEPT !.left = l, !.desired = d]
    <3>1. pass' = NoPass \/ pass' = [pass EXCEPT !.left = @ \ {p}, !.desired = [@ EXCEPT ![p] = Rendered(pass.config[p])]]
      BY <1>4, Zenon DEF RenderConfig, EndPass
    <3> QED  BY <1>4, <3>1, Zenon
  <2> HIDE DEF p, l, d
  <2>3. PICK c, left, desired : pass = [at |-> "render", config |-> c, left |-> left, desired |-> desired]
    BY <2>1
  <2>4. pass' = [at |-> "render", config |-> c, left |-> l, desired |-> d]
    BY <2>2, <2>3, RenderingShape, Zenon
  <2> QED
    BY <1>0, <1>1, <2>4 DEF MockInv, PassShape, ConfigMapsUnderway, ConfigMapsApplied, PassAt
<1>5. CASE ListConfigMaps
  <2>1. pass' = [at |-> "cms", desired |-> pass.desired, todo |-> DiffConfigMaps]
    BY <1>5 DEF ListConfigMaps
  <2>2. \A p \in Pools : cms[p] = pass.desired[p] \/ \E o \in DiffConfigMaps : o[2] = p
    BY DiffCoversConfigMaps
  <2> QED
    BY <1>0, <1>1, <2>1, <2>2 DEF MockInv, PassShape, ConfigMapsUnderway, ConfigMapsApplied, PassAt
<1>6. CASE ListDaemonSets
  <2>1. pass' = [at |-> "sets", desired |-> pass.desired, todo |-> DiffDaemonSets]
    BY <1>6 DEF ListDaemonSets
  <2>2. \A p \in Pools : cms[p] = pass.desired[p]
    BY <1>6 DEF ListDaemonSets, MockInv, ConfigMapsUnderway
  <2> QED
    BY <1>0, <1>1, <2>1, <2>2 DEF MockInv, PassShape, ConfigMapsUnderway, ConfigMapsApplied, PassAt
<1>7. FinishPass \/ PassFails => pass' = NoPass
  BY DEF FinishPass, PassFails, EndPass
<1> QED
  BY <1>0, <1>2, <1>3, <1>4, <1>5, <1>6, <1>7

\* The next ConfigMap becomes what is desired of it, and is no longer to do.
LEMMA MockInvConfigMap ==
  ASSUME MockInv, ApplyConfigMap
  PROVE  MockInv' /\ UNCHANGED sets
<1>1. PICK o \in pass.todo :
        /\ cms' = [cms EXCEPT ![o[2]] = pass.desired[o[2]]]
        /\ pass' = [pass EXCEPT !.todo = @ \ {o}]
  BY DEF ApplyConfigMap, NextOf
<1>2. pass = [at |-> "cms", desired |-> pass.desired, todo |-> pass.todo] /\ UNCHANGED sets
  BY DEF ApplyConfigMap, MockInv, PassShape, PassAt, NoPass
<1>3. pass' = [at |-> "cms", desired |-> pass.desired, todo |-> pass.todo \ {o}]
  BY <1>1, <1>2
<1>4. ObjectShape'
  BY <1>1, <1>2 DEF MockInv, ObjectShape
<1>5. ASSUME NEW p \in Pools
      PROVE  cms'[p] = pass.desired[p] \/ \E q \in pass.todo \ {o} : q[2] = p
  <2>1. CASE p = o[2]
    BY <1>1, <2>1 DEF MockInv, ObjectShape
  <2>2. CASE p # o[2]
    <3>1. cms'[p] = cms[p]
      BY <1>1, <2>2 DEF MockInv, ObjectShape
    <3>2. cms[p] = pass.desired[p] \/ \E q \in pass.todo : q[2] = p
      BY DEF MockInv, ConfigMapsUnderway, ApplyConfigMap
    <3> QED  BY <2>2, <3>1, <3>2
  <2> QED  BY <2>1, <2>2
<1> QED
  BY <1>2, <1>3, <1>4, <1>5 DEF MockInv, PassShape, ConfigMapsUnderway, ConfigMapsApplied, PassAt

\* What RolloutReadsItsConfig says of one step.
Rollout ==
  \A p \in Pools :
    sets'[p] # Absent /\ (sets[p] = Absent \/ sets'[p].hash # sets[p].hash)
      => cms'[p] = sets'[p].hash

\* A DaemonSet is written only when its ConfigMap is as desired.
LEMMA MockInvDaemonSet ==
  ASSUME MockInv, ApplyDaemonSet
  PROVE  MockInv' /\ Rollout
<1>1. PICK o \in pass.todo :
        IF Accepted(o)
        THEN /\ sets' = [sets EXCEPT ![o[2]] =
                           IF o[1] = "delete" THEN Absent ELSE BuildDaemonSet(pass.desired[o[2]])]
             /\ pass' = [pass EXCEPT !.todo = @ \ {o}]
        ELSE EndPass /\ UNCHANGED sets
  BY DEF ApplyDaemonSet, NextOf
<1>2. /\ pass = [at |-> "sets", desired |-> pass.desired, todo |-> pass.todo]
      /\ UNCHANGED cms
  BY DEF ApplyDaemonSet, MockInv, PassShape, PassAt, NoPass
<1>3. \A p \in Pools : cms[p] = pass.desired[p]
  BY DEF ApplyDaemonSet, MockInv, ConfigMapsApplied
<1>4. CASE ~ Accepted(o)
  BY <1>1, <1>2, <1>4 DEF EndPass, MockInv, PassShape, ObjectShape, ConfigMapsUnderway,
                          ConfigMapsApplied, PassAt, NoPass, Rollout
<1>5. CASE Accepted(o)
  <2>1. pass' = [at |-> "sets", desired |-> pass.desired, todo |-> pass.todo \ {o}]
    BY <1>1, <1>2, <1>5
  <2>2. \A p \in Pools : p # o[2] => sets'[p] = sets[p]
    BY <1>1, <1>5 DEF MockInv, ObjectShape
  <2>3. o[2] \in Pools => \/ sets'[o[2]] = Absent
                          \/ sets'[o[2]] = [hash |-> pass.desired[o[2]], built |-> TRUE]
    BY <1>1, <1>5 DEF MockInv, ObjectShape, BuildDaemonSet
  <2>4. DOMAIN sets' = Pools
    BY <1>1, <1>5 DEF MockInv, ObjectShape
  <2>5. ObjectShape'
    BY <1>2, <2>2, <2>3, <2>4 DEF MockInv, ObjectShape
  <2>6. PassShape' /\ ConfigMapsUnderway' /\ ConfigMapsApplied'
    BY <1>2, <1>3, <2>1 DEF PassShape, ConfigMapsUnderway, ConfigMapsApplied, PassAt
  <2>7. Rollout
    BY <1>2, <1>3, <2>2, <2>3 DEF Rollout
  <2> QED  BY <2>5, <2>6, <2>7 DEF MockInv
<1> QED  BY <1>4, <1>5

\* The invariant is inductive, and every step of it rolls out what is there.
LEMMA MockInvNext == MockInv /\ [Next]_vars => MockInv' /\ (Rollout \/ UNCHANGED sets)
<1> SUFFICES ASSUME MockInv, [Next]_vars PROVE MockInv' /\ (Rollout \/ UNCHANGED sets)
  OBVIOUS
<1>1. CASE MockRuns(MockNext)
  <2>0. MockNext
    BY <1>1 DEF MockRuns
  <2>1. CASE ChangeConfig \/ ChangeProfile \/ \E p \in Pools : EditDaemonSet(p)
    BY <2>1, MockInvCluster DEF Rollout
  <2>2. CASE BeginPass \/ RenderConfig \/ ListConfigMaps \/ ListDaemonSets \/ FinishPass \/ PassFails
    BY <2>2, MockInvPassReads
  <2>3. CASE ApplyConfigMap
    BY <2>3, MockInvConfigMap
  <2>4. CASE ApplyDaemonSet
    BY <2>4, MockInvDaemonSet
  <2> QED  BY <2>0, <2>1, <2>2, <2>3, <2>4 DEF MockNext, Pass
<1>2. CASE ~ MockRuns(MockNext)
  <2>1. UNCHANGED mockVars
    BY <1>2 DEF Next, KwokRuns, DraRuns, vars
  <2> QED  BY <2>1, MockInvUnchanged
<1> QED  BY <1>1, <1>2

\* The shape of a pass and how far its ConfigMaps are, at every instant.
THEOREM MockInvariance == Spec => []MockInv
BY MockInvInit, MockInvNext, PTL DEF Spec

\* A DaemonSet never gets the hash of a configuration its ConfigMap does not
\* hold, whatever fails between the two and whoever else edits the DaemonSets.
THEOREM RolloutsReadTheirConfig == Spec => RolloutReadsItsConfig
<1>1. MockInv /\ [Next]_vars =>
        [\A p \in Pools :
           sets'[p] # Absent /\ (sets[p] = Absent \/ sets'[p].hash # sets[p].hash)
             => cms'[p] = sets'[p].hash]_sets
  BY MockInvNext DEF Rollout
<1> QED
  BY MockInvariance, <1>1, PTL DEF Spec, RolloutReadsItsConfig

-----------------------------------------------------------------------------
\* The GPU DRA plugin.

Phases == {"free", "prepare", "running", "unprepare"}

\* What the kubelet is told, or about to be told, is what is on disk.
AnswersHold ==
  \A c \in Claims :
    answer[c].ok => \/ phase[c] = "prepare" /\ specs[c] = PreparedDevices(Allocations[c]) /\ common
                    \/ phase[c] = "unprepare" /\ specs[c] = NoSpec

PhasesHold ==
  \A c \in Claims :
    /\ phase[c] = "free" => specs[c] = NoSpec
    /\ phase[c] = "running" => specs[c] = PreparedDevices(Allocations[c]) /\ common

DraShape ==
  /\ DOMAIN specs = Claims
  /\ phase \in [Claims -> Phases]
  /\ answer \in [Claims -> [ok : BOOLEAN, pending : BOOLEAN, devices : SUBSET UNION {DevicesOf(Allocations[c]) : c \in Claims}]]
  /\ \A c \in Claims : answer[c].ok => answer[c].pending
  /\ plugin = "ready" => common

DraInv == DraShape /\ AnswersHold /\ PhasesHold

\* The plugin starts with nothing prepared.
LEMMA DraInvInit == Init => DraInv
  BY DEF Init, DraInit, DraInv, DraShape, AnswersHold, PhasesHold, NoAnswer, Phases

\* Nothing the other components do touches the plugin's state.
LEMMA DraInvUnchanged ==
  ASSUME DraInv, UNCHANGED draVars
  PROVE  DraInv'
  BY DEF draVars, DraInv, DraShape, AnswersHold, PhasesHold

\* Starting, publishing and a changed topology leave claims alone.
LEMMA DraInvProcess ==
  ASSUME DraInv, ChangeServed \/ StartHelper \/ NewDeviceState \/ PublishResources
  PROVE  DraInv'
  BY DEF ChangeServed, StartHelper, NewDeviceState, PublishResources, CreateCommonSpecFile,
         DraInv, DraShape, AnswersHold, PhasesHold

\* A death drops the answers on their way and nothing else of the claims.
LEMMA DraInvDeath ==
  ASSUME DraInv, CallWithoutState \/ PluginCrash
  PROVE  DraInv'
<1>1. Die
  BY DEF CallWithoutState, PluginCrash
<1> QED
  BY <1>1 DEF Die, DraInv, DraShape, AnswersHold, PhasesHold, NoAnswer

\* The kubelet moves a claim on only by what it was told.
LEMMA DraInvKubelet ==
  ASSUME DraInv, NEW c \in Claims, Allocate(c) \/ EndPod(c) \/ Receive(c)
  PROVE  DraInv'
<1>1. UNCHANGED <<specs, common, plugin>>
  BY DEF Allocate, EndPod, Receive
<1>2. CASE Allocate(c)
  <2>1. phase[c] = "free" /\ phase' = [phase EXCEPT ![c] = "prepare"] /\ UNCHANGED answer
    BY <1>2 DEF Allocate
  <2>2. ~ answer[c].ok
    BY <2>1 DEF DraInv, AnswersHold
  <2> QED
    BY <1>1, <2>1, <2>2 DEF DraInv, DraShape, AnswersHold, PhasesHold, Phases
<1>3. CASE EndPod(c)
  <2>1. ~ answer[c].ok /\ phase' = [phase EXCEPT ![c] = "unprepare"] /\ UNCHANGED answer
    BY <1>3 DEF EndPod, Unanswered, DraInv, DraShape
  <2> QED
    BY <1>1, <2>1 DEF DraInv, DraShape, AnswersHold, PhasesHold, Phases
<1>4. CASE Receive(c)
  <2>1. phase' = [phase EXCEPT ![c] = IF ~ answer[c].ok THEN phase[c]
                                      ELSE IF phase[c] = "prepare" THEN "running" ELSE "free"]
    BY <1>4 DEF Receive
  <2>2. answer' = [answer EXCEPT ![c] = NoAnswer]
    BY <1>4 DEF Receive, Answer
  <2>3. DraShape'
    BY <1>1, <2>1, <2>2 DEF DraInv, DraShape, NoAnswer, Phases
  <2>4. AnswersHold' /\ PhasesHold'
    BY <1>1, <2>1, <2>2 DEF DraInv, DraShape, AnswersHold, PhasesHold, NoAnswer, Phases
  <2> QED
    BY <2>3, <2>4 DEF DraInv
<1> QED
  BY <1>2, <1>3, <1>4

\* A call changes the claim's file and answers accordingly, or fails.
LEMMA DraInvCall ==
  ASSUME DraInv, NEW c \in Claims, Prepare(c) \/ Unprepare(c)
  PROVE  DraInv'
<1>1. UNCHANGED <<phase, common, plugin>> /\ plugin = "ready"
  BY DEF Prepare, Unprepare, Called
<1>2. CASE answer' = [answer EXCEPT ![c] = Error] /\ UNCHANGED specs
  BY <1>1, <1>2 DEF DraInv, DraShape, AnswersHold, PhasesHold, Error
<1>3. CASE /\ phase[c] = "prepare"
           /\ specs' = [specs EXCEPT ![c] = PreparedDevices(Allocations[c])]
           /\ answer' = [answer EXCEPT ![c] = Succeeds(DevicesOf(Allocations[c]))]
  <2>1. DraShape'
    BY <1>1, <1>3 DEF DraInv, DraShape, Succeeds
  <2>2. specs'[c] = PreparedDevices(Allocations[c]) /\ \A d \in Claims : d # c => specs'[d] = specs[d]
    BY <1>3 DEF DraInv, DraShape
  <2>3. common'
    BY <1>1 DEF DraInv, DraShape
  <2>4. \A d \in Claims : d # c => answer'[d] = answer[d]
    BY <1>3 DEF DraInv, DraShape
  <2>5. ASSUME NEW d \in Claims, answer'[d].ok
        PROVE  \/ phase'[d] = "prepare" /\ specs'[d] = PreparedDevices(Allocations[d]) /\ common'
               \/ phase'[d] = "unprepare" /\ specs'[d] = NoSpec
    <3>1. CASE d = c
      BY <1>1, <1>3, <2>2, <2>3, <3>1
    <3>2. CASE d # c
      BY <1>1, <2>2, <2>3, <2>4, <2>5, <3>2 DEF DraInv, AnswersHold
    <3> QED  BY <3>1, <3>2
  <2>6. PhasesHold'
    BY <1>1, <1>3, <2>2, <2>3 DEF DraInv, PhasesHold
  <2>7. \A d \in Claims : answer'[d].ok =>
          \/ phase'[d] = "prepare" /\ specs'[d] = PreparedDevices(Allocations[d]) /\ common'
          \/ phase'[d] = "unprepare" /\ specs'[d] = NoSpec
    BY <2>5
  <2>8. AnswersHold'
    BY <2>7 DEF AnswersHold
  <2> QED
    BY <2>1, <2>6, <2>8 DEF DraInv
<1>4. CASE /\ phase[c] = "unprepare"
           /\ specs' = [specs EXCEPT ![c] = NoSpec]
           /\ answer' = [answer EXCEPT ![c] = Succeeds({})]
  <2>1. DraShape'
    BY <1>1, <1>4 DEF DraInv, DraShape, Succeeds
  <2>2. AnswersHold' /\ PhasesHold'
    BY <1>1, <1>4 DEF DraInv, DraShape, AnswersHold, PhasesHold
  <2> QED
    BY <2>1, <2>2 DEF DraInv
<1> QED
  BY <1>2, <1>3, <1>4 DEF Prepare, Unprepare, Called, Answer, CreateClaimSpecFile, DeleteClaimSpecFile

\* The invariant is inductive.
LEMMA DraInvNext == DraInv /\ [Next]_vars => DraInv'
<1> SUFFICES ASSUME DraInv, [Next]_vars PROVE DraInv'
  OBVIOUS
<1>1. CASE DraRuns(DraNext)
  <2>0. DraNext
    BY <1>1 DEF DraRuns
  <2> QED
    BY <2>0, DraInvProcess, DraInvDeath, DraInvKubelet, DraInvCall DEF DraNext
<1>2. CASE ~ DraRuns(DraNext)
  <2>1. UNCHANGED draVars
    BY <1>2 DEF Next, KwokRuns, MockRuns, vars
  <2> QED
    BY <2>1, DraInvUnchanged
<1> QED
  BY <1>1, <1>2

\* The last configuration that applies is the one the plugin chooses.
LEMMA LastConfigWins ==
  ASSUME NEW c \in Claims, NEW request, NEW i \in Applicable(Allocations[c], request),
         \A j \in Applicable(Allocations[c], request) : j <= i
  PROVE  ConfigOf(Allocations[c], request) = Allocations[c].configs[i].kind
<1> DEFINE S == Applicable(Allocations[c], request)
<1>1. S \subseteq Nat
  BY AllocationsAssumption DEF Applicable
<1>2. \A x, y \in S : (\A z \in S : x >= z) /\ (\A z \in S : y >= z) => x = y
  BY <1>1
<1>3. \A z \in S : i >= z
  BY <1>1
<1>4. Max(S) = i
  BY <1>2, <1>3 DEF Max
<1> QED
  BY <1>4 DEF ConfigOf

\* A prepared claim has the edits of the last configuration that applies.
LEMMA PreparedAsConfigured ==
  ASSUME NEW c \in Claims, NEW r \in Allocations[c].results
  PROVE  PreparedDevices(Allocations[c])[r[2]] = ConfigOf(Allocations[c], r[1])
<1>1. r[2] \in DevicesOf(Allocations[c])
  BY DEF DevicesOf
<1>2. (CHOOSE s \in Allocations[c].results : s[2] = r[2]) = r
  BY AllocationsAssumption
<1> QED
  BY <1>1, <1>2 DEF PreparedDevices

\* What the plugin keeps of its claims follows what the kubelet was told.
THEOREM DraInvariance == Spec => []DraInv
BY DraInvInit, DraInvNext, PTL DEF Spec

\* A running pod's devices carry the edits of the last configuration that applies
\* to them, and an unprepared claim leaves no spec file: for any claims, devices
\* and configurations, deaths of the plugin and changes of the topology.
THEOREM SpecsAlwaysFollowClaims == Spec => []SpecsFollowClaims
<1>1. DraInv => SpecsFollowClaims
  <2> SUFFICES ASSUME DraInv, NEW c \in Claims
               PROVE  /\ phase[c] = "free" => specs[c] = NoSpec
                      /\ phase[c] = "running" =>
                           /\ common /\ specs[c] # NoSpec
                           /\ DOMAIN specs[c] = DevicesOf(Allocations[c])
                           /\ \A r \in Allocations[c].results :
                                \A i \in Applicable(Allocations[c], r[1]) :
                                  (\A j \in Applicable(Allocations[c], r[1]) : j <= i)
                                    => specs[c][r[2]] = Allocations[c].configs[i].kind
    BY Zenon DEF SpecsFollowClaims, Applicable
  <2>1. phase[c] = "free" => specs[c] = NoSpec
    BY DEF DraInv, PhasesHold
  <2>2. phase[c] = "running" => specs[c] = PreparedDevices(Allocations[c]) /\ common
    BY Zenon DEF DraInv, PhasesHold
  <2>3. PreparedDevices(Allocations[c]) # NoSpec
    BY NoSpecAssumption
  <2>4. DOMAIN PreparedDevices(Allocations[c]) = DevicesOf(Allocations[c])
    BY DEF PreparedDevices
  <2>5. ASSUME NEW r \in Allocations[c].results, NEW i \in Applicable(Allocations[c], r[1]),
               \A j \in Applicable(Allocations[c], r[1]) : j <= i
        PROVE  PreparedDevices(Allocations[c])[r[2]] = Allocations[c].configs[i].kind
    BY <2>5, LastConfigWins, PreparedAsConfigured
  <2> QED
    BY <2>1, <2>2, <2>3, <2>4, <2>5, Zenon
<1> QED
  BY DraInvariance, <1>1, PTL

-----------------------------------------------------------------------------
\* Types: the components of the KWOK nodes.

\* What the worker holds: a node in every part of its work, and series to write
\* as long as it writes series.
WorkShape(w) ==
  /\ "at" \in DOMAIN w
  /\ w.at # "idle" => "node" \in DOMAIN w /\ w.node \in KwokNodes
  /\ w.at \in {"set", "delete"} => "left" \in DOMAIN w /\ w.left # {}

MaybeTopology == Topologies \cup {NoTopology}
KwokShape ==
  /\ obj \in [KwokNodes -> MaybeTopology]
  /\ seen \in [KwokNodes -> MaybeTopology]
  /\ known \in [KwokNodes -> MaybeTopology]
  /\ queue \subseteq KwokNodes /\ excused \subseteq KwokNodes
  /\ \A p \in patches : p[1] \in KwokNodes

\* What the exporter knows is what its informer saw last, or is about to be;
\* the other components know nothing.
KnownIsSeen ==
  \A n \in KwokNodes :
    known[n] # NoTopology => component = "exporter" /\ (known[n] = seen[n] \/ n \in queue)

KwokInv == KwokShape /\ WorkShape(work) /\ KnownIsSeen

\* Initially the exporter knows no ConfigMap and has no work.
LEMMA KwokInvInit == Init => KwokInv
  BY DEF Init, KwokInit, KwokInv, KwokShape, WorkShape, KnownIsSeen, MaybeTopology, Idle

\* Nothing the other components do touches the state of these.
LEMMA KwokInvUnchanged ==
  ASSUME KwokInv, UNCHANGED kwokVars
  PROVE  KwokInv'
  BY DEF kwokVars, exporterVars, KwokInv, KwokShape, WorkShape, KnownIsSeen

\* A node is forgotten only with an orphan of its own.
LEMMA OrphanNode ==
  ASSUME NEW n \in KwokNodes
  PROVE  Orphan(n) \subseteq KwokNodes
  BY DEF Orphan

\* The cluster changes objects and nodes, never what the worker works on.
LEMMA KwokInvCluster ==
  ASSUME KwokInv, NEW n \in KwokNodes, ChangeObject(n) \/ ChangeNode(n) \/ DeleteNode(n)
  PROVE  KwokInv'
<1>1. CASE ChangeObject(n)
  <2>1. obj' \in [KwokNodes -> MaybeTopology]
    BY <1>1 DEF ChangeObject, KwokInv, KwokShape, MaybeTopology
  <2>2. excused' \subseteq KwokNodes
    BY <1>1, OrphanNode DEF ChangeObject, KwokInv, KwokShape
  <2> QED
    BY <1>1, <2>1, <2>2 DEF ChangeObject, exporterVars, KwokInv, KwokShape, KnownIsSeen
<1>2. CASE ChangeNode(n) \/ DeleteNode(n)
  <2>1. work' = work \/ work' = [work EXCEPT !.fresh = FALSE]
    BY <1>2 DEF ChangeNode, DeleteNode
  <2>2. WorkShape(work')
    BY <2>1 DEF KwokInv, WorkShape
  <2>3. UNCHANGED <<component, obj, seen, queue, known, patches, excused>>
    BY <1>2 DEF ChangeNode, DeleteNode, exporterVars
  <2> QED
    BY <2>2, <2>3 DEF KwokInv, KwokShape, KnownIsSeen
<1> QED
  BY <1>1, <1>2

\* An event queues the node for the worker, or starts a patch.
LEMMA KwokInvObserve ==
  ASSUME KwokInv, NEW n \in KwokNodes, Observe(n)
  PROVE  KwokInv'
<1>1. seen' = [seen EXCEPT ![n] = obj[n]] /\ UNCHANGED <<component, obj, work, known>>
  BY DEF Observe, exporterVars
<1>2. CASE component = "capacity"
  <2>1. UNCHANGED queue /\ StartPatch(n)
    BY <1>2 DEF Observe
  <2>2. excused' \subseteq KwokNodes /\ \A p \in patches' : p[1] \in KwokNodes
    BY <2>1 DEF StartPatch, KwokInv, KwokShape
  <2> QED
    BY <1>1, <1>2, <2>1, <2>2 DEF KwokInv, KwokShape, KnownIsSeen
<1>3. CASE component # "capacity"
  <2>1. queue' = queue \cup {n} /\ excused' \subseteq excused /\ UNCHANGED patches
    BY <1>3 DEF Observe
  <2> QED
    BY <1>1, <2>1 DEF KwokInv, KwokShape, KnownIsSeen
<1> QED
  BY <1>2, <1>3

\* The worker takes a node, writes its series one by one, and then its labels.
LEMMA KwokInvWork ==
  ASSUME KwokInv, Work \/ LabelsFail
  PROVE  KwokInv'
<1>1. CASE \E n \in KwokNodes : SetMetricsForNode(n)
  <2>1. PICK n \in KwokNodes : SetMetricsForNode(n)
    BY <1>1
  <2>2. seen[n] \in Topologies /\ Series(n, seen[n]) # {}
    BY <2>1, GpusAssumption DEF SetMetricsForNode, KwokInv, KwokShape, MaybeTopology, Series
  <2>3. WorkShape([at |-> "set", node |-> n, topo |-> seen[n], left |-> Series(n, seen[n])])
    BY <2>2 DEF WorkShape
  <2>4. WorkShape(work')
    BY <2>1, <2>3 DEF SetMetricsForNode
  <2>5. known' = [known EXCEPT ![n] = seen[n]] /\ queue' = queue \ {n} /\ component = "exporter"
        /\ UNCHANGED <<component, obj, seen, patches, excused>>
    BY <2>1 DEF SetMetricsForNode
  <2> QED
    BY <2>2, <2>4, <2>5 DEF KwokInv, KwokShape, KnownIsSeen, MaybeTopology
<1>2. CASE \E n \in KwokNodes : DeleteMetricsOfNode(n)
  <2>1. PICK n \in KwokNodes : DeleteMetricsOfNode(n)
    BY <1>2
  <2>2. known[n] # NoTopology => Series(n, known[n]) # {}
    BY GpusAssumption DEF KwokInv, KwokShape, MaybeTopology, Series
  <2>3. known[n] # NoTopology => WorkShape([at |-> "delete", node |-> n, left |-> Series(n, known[n])])
    BY <2>2 DEF WorkShape
  <2>4. WorkShape(Idle)
    BY DEF WorkShape, Idle
  <2>5. WorkShape(work')
    BY <2>1, <2>3, <2>4 DEF DeleteMetricsOfNode
  <2>6. known' = [known EXCEPT ![n] = NoTopology] /\ queue' = queue \ {n}
        /\ UNCHANGED <<component, obj, seen, patches, excused>>
    BY <2>1 DEF DeleteMetricsOfNode
  <2> QED
    BY <2>5, <2>6 DEF KwokInv, KwokShape, KnownIsSeen, MaybeTopology
<1>3. CASE WriteSeries
  <2>1. PICK s \in work.left :
          work' = IF work.left # {s} THEN [work EXCEPT !.left = work.left \ {s}]
                  ELSE IF At("delete") THEN Idle
                  ELSE [at |-> "get", node |-> work.node, topo |-> work.topo, tries |-> Attempts]
    BY <1>3 DEF WriteSeries, NextSeries
  <2>2. WorkShape(work')
    <3>1. work.at \in {"set", "delete"}
      BY <1>3 DEF WriteSeries
    <3>2. CASE work.left # {s}
      <4>1. work' = [work EXCEPT !.left = work.left \ {s}] /\ work.left \ {s} # {}
        BY <2>1, <3>2
      <4> QED
        BY <3>1, <4>1 DEF KwokInv, WorkShape
    <3>3. CASE work.left = {s}
      BY <2>1, <3>1, <3>3 DEF KwokInv, WorkShape, Idle
    <3> QED
      BY <3>2, <3>3
  <2> QED
    BY <1>3, <2>2 DEF WriteSeries, KwokInv, KwokShape, KnownIsSeen
<1>4. CASE GetLabels \/ UpdateLabels \/ LabelsFail
  <2>1. work.node \in KwokNodes
    BY <1>4 DEF GetLabels, UpdateLabels, LabelsFail, At, KwokInv, WorkShape
  <2>2. WorkShape(work')
    BY <1>4, <2>1 DEF GetLabels, UpdateLabels, LabelsFail, WorkShape, Idle
  <2>3. excused' \subseteq KwokNodes
    BY <1>4, <2>1 DEF GetLabels, UpdateLabels, LabelsFail, KwokInv, KwokShape
  <2> QED
    BY <1>4, <2>2, <2>3 DEF GetLabels, UpdateLabels, LabelsFail, exporterVars, KwokInv, KwokShape, KnownIsSeen
<1>5. CASE \E n \in KwokNodes : ReconcileSlice(n)
  <2>1. PICK n \in KwokNodes : ReconcileSlice(n)
    BY <1>5
  <2>2. WorkShape([at |-> "write", node |-> n, devices |-> Devices(seen[n])])
    BY DEF WorkShape
  <2>3. WorkShape(work')
    BY <2>1, <2>2 DEF ReconcileSlice, KwokInv
  <2> QED
    BY <2>1, <2>3 DEF ReconcileSlice, Slicing, exporterVars, KwokInv, KwokShape, KnownIsSeen
<1>6. CASE WriteGpuSlice \/ WriteChannelSlice
  BY <1>6 DEF WriteGpuSlice, WriteChannelSlice, StoreSlice, exporterVars, Idle, KwokInv, KwokShape,
     WorkShape, KnownIsSeen
<1> QED
  BY <1>1, <1>2, <1>3, <1>4, <1>5, <1>6 DEF Work

\* A refresh, a patch and a failed call leave what is known alone; a death
\* leaves nothing known.
LEMMA KwokInvRest ==
  ASSUME KwokInv, Refresh \/ ApplyPatch \/ Crash \/ \E n \in KwokNodes : SliceCallFails(n)
  PROVE  KwokInv'
<1>1. CASE Refresh
  BY <1>1 DEF Refresh, StartRefresh, RefreshSeries, KwokInv, KwokShape, WorkShape, KnownIsSeen
<1>2. CASE ApplyPatch
  <2>1. patches' \subseteq patches /\ excused' \subseteq KwokNodes
    BY <1>2 DEF ApplyPatch, KwokInv, KwokShape
  <2> QED
    BY <1>2, <2>1 DEF ApplyPatch, exporterVars, KwokInv, KwokShape, KnownIsSeen
<1>3. CASE Crash
  <2>1. excused' \subseteq KwokNodes
    BY <1>3, OrphanNode DEF Crash, KwokInv, KwokShape
  <2> QED
    BY <1>3, <2>1 DEF Crash, KwokInv, KwokShape, WorkShape, KnownIsSeen, MaybeTopology, Idle
<1>4. CASE \E n \in KwokNodes : SliceCallFails(n)
  <2>1. WorkShape(work')
    BY <1>4 DEF SliceCallFails, KwokInv, WorkShape, Idle
  <2>2. queue \subseteq queue' /\ queue' \subseteq KwokNodes
    BY <1>4 DEF SliceCallFails, KwokInv, KwokShape
  <2> QED
    BY <1>4, <2>1, <2>2 DEF SliceCallFails, exporterVars, KwokInv, KwokShape, KnownIsSeen
<1> QED
  BY <1>1, <1>2, <1>3, <1>4

\* Every step of the fleet keeps what the KWOK exporter's parts hold.
LEMMA KwokInvNext == KwokInv /\ [Next]_vars => KwokInv'
<1> SUFFICES ASSUME KwokInv, [Next]_vars PROVE KwokInv'
  OBVIOUS
<1>1. CASE KwokRuns(KwokNext)
  BY <1>1, KwokInvCluster, KwokInvObserve, KwokInvWork, KwokInvRest DEF KwokRuns, KwokNext
<1>2. CASE ~ KwokRuns(KwokNext)
  <2>1. UNCHANGED kwokVars
    BY <1>2 DEF Next, MockRuns, DraRuns, vars
  <2> QED
    BY <2>1, KwokInvUnchanged
<1> QED
  BY <1>1, <1>2

-----------------------------------------------------------------------------
\* Types: the mock controller.

\* The configurations a pool can be given.
Rendereds == Versions \X {s.overrides : s \in PoolSpecs}
Desired == [Pools -> Rendereds \cup {Absent}]

\* A pass has read a configuration, desires rendered ones, and has operations to
\* do on pools; what it creates or updates is desired.
PassTypes ==
  /\ profile \in [Profiles -> Versions \cup {Missing}]
  /\ config # NoConfig => config \in [Pools -> PoolSpecs \cup {NotMock}]
  /\ PassAt("render") =>
       /\ pass.config \in [Pools -> PoolSpecs \cup {NotMock}]
       /\ pass.left \subseteq {p \in Pools : pass.config[p] # NotMock}
  /\ pass.at # "idle" => pass.desired \in Desired
  /\ PassAt("sets") =>
       \A o \in pass.todo : o[2] \in Pools /\ (o[1] # "delete" => pass.desired[o[2]] # Absent)
  /\ \A p \in Pools : sets[p] # Absent => sets[p].hash \in Rendereds
  /\ touched \subseteq Pools

MockTypes == MockInv /\ PassTypes

\* Initially the mock controller has read nothing and desires nothing.
LEMMA MockTypesInit == Init => MockTypes
  BY MockInvInit DEF Init, MockInit, MockTypes, PassTypes, PassAt, NoPass

\* Administrators change configurations within their types.
LEMMA PassTypesCluster ==
  ASSUME MockTypes, ChangeConfig \/ ChangeProfile \/ \E p \in Pools : EditDaemonSet(p)
  PROVE  PassTypes'
<1>1. CASE ChangeConfig
  BY <1>1 DEF ChangeConfig, MockTypes, PassTypes, PassAt
<1>2. CASE ChangeProfile
  <2>1. profile' \in [Profiles -> Versions \cup {Missing}]
    BY <1>2 DEF ChangeProfile, MockTypes, PassTypes
  <2> QED
    BY <1>2, <2>1 DEF ChangeProfile, MockTypes, PassTypes, PassAt
<1>3. CASE \E p \in Pools : EditDaemonSet(p)
  <2>1. \A p \in Pools : sets'[p] # Absent => sets[p] # Absent /\ sets'[p].hash = sets[p].hash
    BY <1>3, MockInvCluster DEF MockTypes
  <2>2. touched' \subseteq Pools /\ UNCHANGED <<config, profile, pass>>
    BY <1>3 DEF EditDaemonSet, MockTypes, PassTypes
  <2> QED
    BY <2>1, <2>2 DEF MockTypes, PassTypes, PassAt
<1> QED
  BY <1>1, <1>2, <1>3

\* Only operations on pools come out of a difference.
LEMMA DiffTypes ==
  ASSUME NEW desired, NEW have, NEW outdated \in SUBSET Pools, NEW o \in Diff(desired, have, outdated)
  PROVE  o[2] \in Pools /\ (o[1] # "delete" => desired[o[2]] # Absent)
  BY DEF Diff

\* There is a first pool among those left.
LEMMA FirstPool ==
  ASSUME NEW S \in SUBSET Pools, S # {}
  PROVE  (CHOOSE q \in S : \A r \in S : q <= r) \in S
<1>1. S \in SUBSET Nat
  BY PoolSpecsAssumption
<1>2. PICK x \in S : \A y \in S : ~(<<y, x>> \in OpToRel(<, Nat))
  BY <1>1, WFMin, NatLessThanWellFounded
<1>3. \A y \in S : ~ (y < x)
  BY <1>1, <1>2 DEF OpToRel
<1>4. \A y \in S : x <= y
  BY <1>1, <1>3
<1> QED
  BY <1>4

\* A profile that is there is rendered with the overrides of the pool.
LEMMA RenderedType ==
  ASSUME NEW s \in PoolSpecs, profile[s.profile] \in Versions
  PROVE  Rendered(s) \in Rendereds
  BY DEF Rendered, Rendereds

\* A pass renders what it read and takes up what differs.
LEMMA PassTypesReads ==
  ASSUME MockTypes,
         BeginPass \/ RenderConfig \/ ListConfigMaps \/ ListDaemonSets \/ FinishPass \/ PassFails
  PROVE  PassTypes'
<1>0. UNCHANGED <<config, profile, sets>> /\ touched' \subseteq Pools
  BY DEF BeginPass, RenderConfig, ListConfigMaps, ListDaemonSets, FinishPass, PassFails, MockTypes, PassTypes
<1>1. CASE pass' = NoPass
  BY <1>0, <1>1 DEF MockTypes, PassTypes, PassAt, NoPass
<1>2. CASE BeginPass
  <2>1. pass' = [at |-> "render", config |-> config, left |-> {p \in Pools : config[p] # NotMock},
                 desired |-> [p \in Pools |-> Absent]]
    BY <1>2 DEF BeginPass
  <2>2. config \in [Pools -> PoolSpecs \cup {NotMock}] /\ [p \in Pools |-> Absent] \in Desired
    BY <1>2 DEF BeginPass, MockTypes, PassTypes, Desired
  <2> QED
    BY <1>0, <2>1, <2>2 DEF MockTypes, PassTypes, PassAt
<1>3. CASE RenderConfig /\ pass' # NoPass
  <2>1. /\ pass = [at |-> "render", config |-> pass.config, left |-> pass.left, desired |-> pass.desired]
        /\ pass.config \in [Pools -> PoolSpecs \cup {NotMock}]
        /\ pass.left \subseteq {p \in Pools : pass.config[p] # NotMock}
        /\ pass.desired \in Desired
    BY <1>3 DEF RenderConfig, MockTypes, PassTypes, MockInv, PassShape, PassAt, NoPass
  <2> DEFINE p == CHOOSE q \in pass.left : \A r \in pass.left : q <= r
             l == pass.left \ {p}
             d == [pass.desired EXCEPT ![p] = Rendered(pass.config[p])]
  <2>2. pass' = [pass EXCEPT !.left = l, !.desired = d] /\ profile[pass.config[p].profile] # Missing
    <3>1. pass' = NoPass \/ (/\ pass' = [pass EXCEPT !.left = @ \ {p}, !.desired = [@ EXCEPT ![p] = Rendered(pass.config[p])]]
                             /\ profile[pass.config[p].profile] # Missing)
      BY <1>3, Zenon DEF RenderConfig, EndPass
    <3> QED  BY <1>3, <3>1, Zenon
  <2>3. d \in Desired
    <3>1. p \in Pools /\ pass.config[p] # NotMock
      <4>1. pass.left \in SUBSET Pools /\ pass.left # {}
        BY <1>3, <2>1 DEF RenderConfig
      <4>2. p \in pass.left
        BY <4>1, FirstPool
      <4> QED
        BY <2>1, <4>2
    <3>2. Rendered(pass.config[p]) \in Rendereds
      <4>1. pass.config[p] \in PoolSpecs \ {NotMock} /\ profile[pass.config[p].profile] \in Versions
        BY <2>1, <2>2, <3>1, PoolSpecsAssumption DEF MockTypes, PassTypes
      <4> QED
        BY <4>1, RenderedType
    <3> HIDE DEF p
    <3> QED
      BY <2>1, <3>1, <3>2 DEF Desired
  <2> HIDE DEF p, d
  <2>4. PICK c, left, desired : pass = [at |-> "render", config |-> c, left |-> left, desired |-> desired]
    BY <2>1
  <2>5. pass' = [at |-> "render", config |-> c, left |-> l, desired |-> d] /\ c = pass.config
    BY <2>2, <2>4, RenderingShape, Zenon
  <2> QED
    BY <1>0, <2>1, <2>3, <2>5 DEF MockTypes, PassTypes, PassAt
<1>4. CASE ListConfigMaps
  <2>1. pass' = [at |-> "cms", desired |-> pass.desired, todo |-> DiffConfigMaps] /\ PassAt("render")
    BY <1>4 DEF ListConfigMaps
  <2> QED
    BY <1>0, <2>1 DEF MockTypes, PassTypes, PassAt
<1>5. CASE ListDaemonSets
  <2>1. pass' = [at |-> "sets", desired |-> pass.desired, todo |-> DiffDaemonSets] /\ PassAt("cms")
    BY <1>5 DEF ListDaemonSets
  <2>2. \A o \in DiffDaemonSets : o[2] \in Pools /\ (o[1] # "delete" => pass.desired[o[2]] # Absent)
    BY DiffTypes DEF DiffDaemonSets
  <2> QED
    BY <1>0, <2>1, <2>2 DEF MockTypes, PassTypes, PassAt
<1>6. FinishPass \/ PassFails => pass' = NoPass
  BY DEF FinishPass, PassFails, EndPass
<1> QED
  BY <1>1, <1>2, <1>3, <1>4, <1>5, <1>6

\* What a pass writes into the objects is what it desired.
LEMMA PassTypesApply ==
  ASSUME MockTypes, ApplyConfigMap \/ ApplyDaemonSet
  PROVE  PassTypes'
<1>1. CASE ApplyConfigMap
  <2>1. PICK o : pass' = [pass EXCEPT !.todo = pass.todo \ {o}]
    BY <1>1 DEF ApplyConfigMap
  <2>2. pass = [at |-> "cms", desired |-> pass.desired, todo |-> pass.todo]
    BY <1>1 DEF ApplyConfigMap, MockTypes, MockInv, PassShape, PassAt, NoPass
  <2>3. pass' = [at |-> "cms", desired |-> pass.desired, todo |-> pass.todo \ {o}]
    BY <2>1, <2>2
  <2> QED
    BY <1>1, <2>2, <2>3 DEF ApplyConfigMap, MockTypes, PassTypes, PassAt
<1>2. CASE ApplyDaemonSet
  <2>1. PICK o \in pass.todo :
          IF Accepted(o)
          THEN /\ sets' = [sets EXCEPT ![o[2]] =
                             IF o[1] = "delete" THEN Absent ELSE BuildDaemonSet(pass.desired[o[2]])]
               /\ pass' = [pass EXCEPT !.todo = @ \ {o}]
          ELSE EndPass /\ UNCHANGED sets
    BY <1>2 DEF ApplyDaemonSet, NextOf
  <2>2. pass = [at |-> "sets", desired |-> pass.desired, todo |-> pass.todo]
    BY <1>2 DEF ApplyDaemonSet, MockTypes, MockInv, PassShape, PassAt, NoPass
  <2>3. UNCHANGED <<config, profile, touched>>
    BY <1>2 DEF ApplyDaemonSet
  <2>4. CASE ~ Accepted(o)
    BY <2>1, <2>3, <2>4 DEF EndPass, MockTypes, PassTypes, PassAt, NoPass
  <2>5. CASE Accepted(o)
    <3>1. pass' = [at |-> "sets", desired |-> pass.desired, todo |-> pass.todo \ {o}]
      BY <2>1, <2>2, <2>5
    <3>2. o[2] \in Pools /\ (o[1] # "delete" => pass.desired[o[2]] \in Rendereds)
      BY <2>2 DEF MockTypes, PassTypes, PassAt, Desired
    <3>3. \A p \in Pools : p # o[2] => sets'[p] = sets[p]
      BY <2>1, <2>5 DEF MockTypes, MockInv, ObjectShape
    <3>4. \/ sets'[o[2]] = Absent
          \/ o[1] # "delete" /\ sets'[o[2]] = [hash |-> pass.desired[o[2]], built |-> TRUE]
      BY <2>1, <2>5, <3>2 DEF MockTypes, MockInv, ObjectShape, BuildDaemonSet
    <3>5. \A p \in Pools : sets'[p] # Absent => sets'[p].hash \in Rendereds
      BY <3>2, <3>3, <3>4 DEF MockTypes, PassTypes
    <3> QED
      BY <2>2, <2>3, <3>1, <3>5 DEF MockTypes, PassTypes, PassAt
  <2> QED
    BY <2>4, <2>5
<1> QED
  BY <1>1, <1>2

\* Every step of the fleet keeps the types of the mock controller's pass.
LEMMA MockTypesNext == MockTypes /\ [Next]_vars => MockTypes'
<1> SUFFICES ASSUME MockTypes, [Next]_vars PROVE MockTypes'
  OBVIOUS
<1>0. MockInv'
  BY MockInvNext DEF MockTypes
<1>1. CASE MockRuns(MockNext)
  BY <1>0, <1>1, PassTypesCluster, PassTypesReads, PassTypesApply DEF MockRuns, MockNext, Pass, MockTypes
<1>2. CASE ~ MockRuns(MockNext)
  <2>1. UNCHANGED mockVars
    BY <1>2 DEF Next, KwokRuns, DraRuns, vars
  <2> QED
    BY <1>0, <2>1 DEF mockVars, MockTypes, PassTypes, PassAt
<1> QED
  BY <1>1, <1>2

-----------------------------------------------------------------------------
\* Types: the GPU DRA plugin, and all of them.

\* The state of a plugin that is ready has the devices of some answer.
Enumerated ==
  /\ served \in DeviceSets \cup {NotServed}
  /\ plugin = "ready" => allocatable \in DeviceSets

\* Initially the GPU DRA plugin is not ready.
LEMMA EnumeratedInit == Init => Enumerated
  BY DEF Init, DraInit, Enumerated

\* Only NewDeviceState gives the plugin its devices, from an answer of the
\* topology server.
LEMMA EnumeratedNext == Enumerated /\ [Next]_vars => Enumerated'
<1> SUFFICES ASSUME Enumerated, [Next]_vars PROVE Enumerated'
  OBVIOUS
<1>1. CASE DraRuns(DraNext)
  BY <1>1 DEF DraRuns, DraNext, ChangeServed, StartHelper, NewDeviceState, EnumerateAllPossibleDevices,
     PublishResources, CallWithoutState, PluginCrash, Die, Allocate, EndPod, Receive, Prepare, Unprepare,
     Enumerated
<1>2. CASE ~ DraRuns(DraNext)
  <2>1. UNCHANGED draVars
    BY <1>2 DEF Next, KwokRuns, MockRuns, vars
  <2> QED
    BY <2>1 DEF draVars, Enumerated
<1> QED
  BY <1>1, <1>2

\* What every worker, pass and call holds is of its type, whichever component is
\* observed; in particular what the exporter knows of a node is never older than
\* its cache unless the node is queued.
THEOREM FleetTypes == Spec => []TypeOK
<1>1. Spec => [](KwokInv /\ MockTypes /\ DraInv /\ Enumerated)
  BY KwokInvInit, KwokInvNext, MockTypesInit, MockTypesNext, DraInvInit, DraInvNext,
     EnumeratedInit, EnumeratedNext, PTL DEF Spec
<1>2. KwokInv /\ MockTypes /\ DraInv /\ Enumerated => TypeOK
  <2> SUFFICES ASSUME KwokInv, MockTypes, DraInv, Enumerated PROVE TypeOK
    OBVIOUS
  <2>1. /\ queue \subseteq KwokNodes /\ excused \subseteq KwokNodes
        /\ \A n \in KwokNodes : {seen[n], known[n]} \subseteq Topologies \cup {NoTopology}
        /\ work.at \in {"set", "delete"} => work.left # {}
        /\ \A n \in KwokNodes : known[n] # NoTopology => known[n] = seen[n] \/ n \in queue
    BY DEF KwokInv, KwokShape, WorkShape, KnownIsSeen, MaybeTopology
  <2>2. /\ \A p \in Pools : sets[p] # Absent => sets[p].hash \in Versions \X {s.overrides : s \in PoolSpecs}
        /\ touched \subseteq Pools
    BY DEF MockTypes, PassTypes, Rendereds
  <2>3. pass.at \in {"idle", "render", "cms", "sets"}
    BY DEF MockTypes, MockInv, PassShape, NoPass
  <2>4. plugin = "ready" => allocatable \in DeviceSets /\ common
    BY DEF DraInv, DraShape, Enumerated
  <2>5. \A c \in Claims : answer[c].ok => phase[c] \in {"prepare", "unprepare"}
    BY DEF DraInv, AnswersHold
  <2> QED
    BY <2>1, <2>2, <2>3, <2>4, <2>5 DEF TypeOK
<1> QED
  BY <1>1, <1>2, PTL

-----------------------------------------------------------------------------
\* No node of the KWOK components is forgotten: the labels.

\* The exporter works on a node until its labels are written or given up.
Labelling == work.at \in {"set", "get", "update"}

\* A node the informer has shown, and that is neither queued nor in work, has
\* the labels of what was shown.
LabelsKept(n) ==
  n \notin queue /\ seen[n] # NoTopology /\ ~ (Labelling /\ work.node = n) =>
    labels[n] \in {Len(seen[n]), NoNode} \/ n \in excused

\* What the exporter writes is what its informer saw last, or the node is queued.
LabelsInv ==
  /\ DOMAIN labels = KwokNodes
  /\ work.at \in {"idle", "set", "delete", "get", "update"}
  /\ Labelling => "topo" \in DOMAIN work /\ (work.node \notin queue => work.topo = seen[work.node])
  /\ \A n \in KwokNodes : LabelsKept(n)

\* A step that leaves cache, work and labels alone and takes no excuse back.
LEMMA LabelsUntouched ==
  ASSUME LabelsInv, UNCHANGED <<seen, queue, work, labels>>, excused \subseteq excused'
  PROVE  LabelsInv'
  BY DEF LabelsInv, LabelsKept, Labelling

\* An event queues the node; a stage of KWOK or a deletion changes the Node.
LEMMA LabelsCluster ==
  ASSUME KwokInv, component = "exporter", LabelsInv, NEW n \in KwokNodes,
         ChangeNode(n) \/ DeleteNode(n) \/ Observe(n)
  PROVE  LabelsInv'
<1>1. CASE ChangeNode(n) \/ DeleteNode(n)
  <2>1. work' = work \/ work' = [work EXCEPT !.fresh = FALSE]
    BY <1>1 DEF ChangeNode, DeleteNode
  <2>2. /\ work'.at = work.at /\ (work.at # "idle" => work'.node = work.node)
        /\ "topo" \in DOMAIN work => work'.topo = work.topo /\ "topo" \in DOMAIN work'
    BY <2>1 DEF KwokInv, WorkShape
  <2>3. labels' = labels \/ labels' = [labels EXCEPT ![n] = NoNode]
    BY <1>1 DEF ChangeNode, DeleteNode, exporterVars
  <2>4. UNCHANGED <<seen, queue, excused>>
    BY <1>1 DEF ChangeNode, DeleteNode
  <2> QED
    BY <2>2, <2>3, <2>4 DEF LabelsInv, LabelsKept, Labelling
<1>2. CASE Observe(n)
  <2>1. /\ seen' = [seen EXCEPT ![n] = obj[n]] /\ queue' = queue \cup {n}
        /\ UNCHANGED <<work, labels, excused>>
    BY <1>2 DEF Observe, exporterVars
  <2>2. \A m \in KwokNodes : m # n => seen'[m] = seen[m]
    BY <2>1 DEF KwokInv, KwokShape
  <2>3. Labelling => work.node \in KwokNodes
    BY DEF KwokInv, WorkShape, Labelling
  <2> QED
    BY <2>1, <2>2, <2>3 DEF LabelsInv, LabelsKept, Labelling
<1> QED
  BY <1>1, <1>2

\* The worker: series, then labels, then the next node.
LEMMA LabelsWork ==
  ASSUME KwokInv, component = "exporter", LabelsInv, Work \/ LabelsFail
  PROVE  LabelsInv'
<1>1. ASSUME NEW n \in KwokNodes, SetMetricsForNode(n) PROVE LabelsInv'
  <2>1. /\ work' = [at |-> "set", node |-> n, topo |-> seen[n], left |-> Series(n, seen[n])]
        /\ queue' = queue \ {n} /\ UNCHANGED <<seen, labels, excused>> /\ work.at = "idle"
    BY <1>1 DEF SetMetricsForNode, At
  <2>2. work'.at = "set" /\ work'.node = n /\ work'.topo = seen[n] /\ "topo" \in DOMAIN work'
    BY <2>1
  <2> QED
    BY <2>1, <2>2 DEF LabelsInv, LabelsKept, Labelling
<1>2. ASSUME NEW n \in KwokNodes, DeleteMetricsOfNode(n) PROVE LabelsInv'
  <2>1. /\ work'.at \in {"idle", "delete"} /\ queue' = queue \ {n} /\ seen[n] = NoTopology
        /\ UNCHANGED <<seen, labels, excused>> /\ work.at = "idle"
    BY <1>2 DEF DeleteMetricsOfNode, At, Idle
  <2> QED
    BY <2>1 DEF LabelsInv, LabelsKept, Labelling
<1>3. CASE WriteSeries
  <2>1. PICK s :
          work' = IF work.left # {s} THEN [work EXCEPT !.left = work.left \ {s}]
                  ELSE IF At("delete") THEN Idle
                  ELSE [at |-> "get", node |-> work.node, topo |-> work.topo, tries |-> Attempts]
    BY <1>3 DEF WriteSeries
  <2>2. work.at \in {"set", "delete"} /\ UNCHANGED <<seen, queue, labels, excused>>
    BY <1>3 DEF WriteSeries
  <2>3. CASE work.at = "set"
    <3>1. /\ work'.at \in {"set", "get"} /\ work'.node = work.node /\ work'.topo = work.topo
          /\ "topo" \in DOMAIN work'
      BY <2>1, <2>3 DEF At, LabelsInv, Labelling, KwokInv, WorkShape
    <3> QED
      BY <2>2, <2>3, <3>1 DEF LabelsInv, LabelsKept, Labelling
  <2>4. CASE work.at = "delete"
    <3>1. work'.at \in {"delete", "idle"}
      BY <2>1, <2>4 DEF At, KwokInv, WorkShape, Idle
    <3> QED
      BY <2>2, <2>4, <3>1 DEF LabelsInv, LabelsKept, Labelling
  <2> QED
    BY <2>2, <2>3, <2>4
<1>4. CASE GetLabels
  <2>0. work.at = "get" /\ work.node \in KwokNodes
    BY <1>4 DEF GetLabels, At, KwokInv, WorkShape
  <2>1. UNCHANGED <<seen, queue, labels>> /\ excused' = excused \ {work.node}
    BY <1>4 DEF GetLabels, exporterVars
  <2>2. CASE labels[work.node] = NoNode
    <3>1. work'.at = "idle"
      BY <1>4, <2>2 DEF GetLabels, Idle
    <3> QED
      BY <2>0, <2>1, <2>2, <3>1 DEF LabelsInv, LabelsKept, Labelling
  <2>3. CASE labels[work.node] # NoNode
    <3>1. /\ work'.at = "update" /\ work'.node = work.node /\ work'.topo = work.topo
          /\ "topo" \in DOMAIN work'
      BY <1>4, <2>3 DEF GetLabels
    <3> QED
      BY <2>0, <2>1, <3>1 DEF LabelsInv, LabelsKept, Labelling
  <2> QED
    BY <2>2, <2>3
<1>5. CASE UpdateLabels
  <2>0. work.at = "update" /\ work.node \in KwokNodes /\ UNCHANGED <<seen, queue>>
    BY <1>5 DEF UpdateLabels, At, KwokInv, WorkShape
  <2>1. CASE work.fresh
    <3>1. /\ labels' = [labels EXCEPT ![work.node] = Len(work.topo)] /\ work'.at = "idle"
          /\ UNCHANGED excused
      BY <1>5, <2>1 DEF UpdateLabels, Idle
    <3> QED
      BY <2>0, <3>1 DEF LabelsInv, LabelsKept, Labelling
  <2>2. CASE ~ work.fresh /\ work.tries > 1 /\ labels[work.node] # NoNode
    <3>1. /\ work'.at = "get" /\ work'.node = work.node /\ work'.topo = work.topo
          /\ "topo" \in DOMAIN work' /\ UNCHANGED <<labels, excused>>
      BY <1>5, <2>2 DEF UpdateLabels
    <3> QED
      BY <2>0, <3>1 DEF LabelsInv, LabelsKept, Labelling
  <2>3. CASE ~ work.fresh /\ ~ (work.tries > 1 /\ labels[work.node] # NoNode)
    <3>1. work'.at = "idle" /\ excused' = excused \cup {work.node} /\ UNCHANGED labels
      BY <1>5, <2>3 DEF UpdateLabels, Idle
    <3> QED
      BY <2>0, <3>1 DEF LabelsInv, LabelsKept, Labelling
  <2> QED
    BY <2>1, <2>2, <2>3
<1>6. CASE LabelsFail
  <2>1. /\ work.at \in {"get", "update"} /\ work'.at = "idle" /\ excused' = excused \cup {work.node}
        /\ UNCHANGED <<seen, queue, labels>>
    BY <1>6 DEF LabelsFail, exporterVars, Idle
  <2> QED
    BY <2>1 DEF LabelsInv, LabelsKept, Labelling
<1> QED
  BY <1>1, <1>2, <1>3, <1>4, <1>5, <1>6
     DEF Work, WriteGpuSlice, WriteChannelSlice, ReconcileSlice, Slicing

\* Every step while the exporter is observed.
LEMMA LabelsNext ==
  ASSUME KwokInv, component = "exporter", LabelsInv, KwokNext
  PROVE  LabelsInv'
<1>1. CASE (\E n \in KwokNodes : ChangeObject(n)) \/ Refresh \/ ApplyPatch
  <2>1. UNCHANGED <<seen, queue, work, labels>> /\ excused \subseteq excused'
    BY <1>1 DEF ChangeObject, Refresh, StartRefresh, RefreshSeries, ApplyPatch, exporterVars
  <2> QED
    BY <2>1, LabelsUntouched
<1>2. CASE Crash
  BY <1>2 DEF Crash, LabelsInv, LabelsKept, Labelling, Idle
<1> QED
  BY <1>1, <1>2, LabelsCluster, LabelsWork DEF KwokNext, SliceCallFails, Slicing

-----------------------------------------------------------------------------
\* The slices.

\* A node that is neither queued nor about to be written has the slice of what
\* the informer has shown.  Of one it has not shown, only an object that exists
\* will still be: a slice that is left without one is an excuse.
SliceKept(n) ==
  n \notin queue /\ ~ (At("write") /\ work.node = n) =>
    IF seen[n] # NoTopology THEN slice[n] = Devices(seen[n])
    ELSE Present(n) \/ slice[n] = NoSlice \/ n \in excused

\* What a reconciler is about to write is what was shown last, or the node is queued.
SlicesInv ==
  /\ DOMAIN slice = KwokNodes
  /\ work.at \in {"idle", "write"}
  /\ At("write") /\ work.node \notin queue =>
       seen[work.node] # NoTopology /\ work.devices = Devices(seen[work.node])
  /\ \A n \in KwokNodes : SliceKept(n)

\* The cluster and the informer: what is shown is queued, what goes unseen is excused.
LEMMA SlicesCluster ==
  ASSUME KwokInv, Slicing, SlicesInv, NEW n \in KwokNodes, ChangeObject(n) \/ Observe(n)
  PROVE  SlicesInv'
<1>0. component' = component /\ At("write")' = At("write") /\ work' = work /\ slice' = slice
  BY DEF ChangeObject, Observe, At
<1>1. CASE ChangeObject(n)
  <2>1. PICK t \in Topologies \cup {NoTopology} :
          /\ obj' = [obj EXCEPT ![n] = t]
          /\ excused' = IF t = NoTopology /\ seen[n] = NoTopology THEN excused \cup Orphan(n) ELSE excused
    BY <1>1 DEF ChangeObject
  <2>2. UNCHANGED <<seen, queue>>
    BY <1>1 DEF ChangeObject
  <2>3. obj'[n] = t /\ \A m \in KwokNodes : m # n => obj'[m] = obj[m]
    BY <2>1 DEF KwokInv, KwokShape
  <2>4. ASSUME NEW m \in KwokNodes PROVE SliceKept(m)'
    <3>1. SliceKept(m)
      BY DEF SlicesInv
    <3>2. CASE seen[m] # NoTopology
      BY <1>0, <2>2, <3>1, <3>2 DEF SliceKept, Devices
    <3>3. CASE seen[m] = NoTopology /\ m # n
      BY <1>0, <2>1, <2>2, <2>3, <3>1, <3>3 DEF SliceKept, Present
    <3>4. CASE seen[m] = NoTopology /\ m = n
      <4>1. t = NoTopology => slice[n] = NoSlice \/ n \in excused'
        BY <2>1, <3>4 DEF Orphan
      <4> QED
        BY <1>0, <2>2, <2>3, <3>4, <4>1 DEF SliceKept, Present
    <3> QED
      BY <3>2, <3>3, <3>4
  <2> QED
    BY <1>0, <2>2, <2>4 DEF SlicesInv, Devices, At
<1>2. CASE Observe(n)
  <2>1. /\ seen' = [seen EXCEPT ![n] = obj[n]] /\ queue' = queue \cup {n} /\ UNCHANGED obj
        /\ excused \ {n} \subseteq excused'
    BY <1>2 DEF Observe, Slicing
  <2>2. \A m \in KwokNodes : m # n => seen'[m] = seen[m]
    BY <2>1 DEF KwokInv, KwokShape
  <2>3. At("write") => work.node \in KwokNodes
    BY DEF KwokInv, WorkShape, At
  <2>4. ASSUME NEW m \in KwokNodes PROVE SliceKept(m)'
    BY <1>0, <2>1, <2>2 DEF SlicesInv, SliceKept, Devices, Present
  <2> QED
    BY <1>0, <2>1, <2>2, <2>3, <2>4 DEF SlicesInv, Devices, At
<1> QED
  BY <1>1, <1>2

\* The reconcilers: a node leaves the queue with its slice deleted or about to be
\* written, and a call that fails puts it back.
LEMMA SlicesWork ==
  ASSUME KwokInv, Slicing, SlicesInv, Work \/ \E n \in KwokNodes : SliceCallFails(n)
  PROVE  SlicesInv'
<1>1. ASSUME NEW n \in KwokNodes, ReconcileSlice(n) PROVE SlicesInv'
  <2>1. /\ queue' = queue \ {n} /\ UNCHANGED <<component, obj, seen, excused>> /\ work.at = "idle"
    BY <1>1 DEF ReconcileSlice, At
  <2>2. CASE seen[n] = NoTopology
    <3>1. slice' = [slice EXCEPT ![n] = NoSlice] /\ work' = work
      BY <1>1, <2>2 DEF ReconcileSlice
    <3> QED
      BY <2>1, <2>2, <3>1 DEF SlicesInv, SliceKept, Devices, Present, At
  <2>3. CASE seen[n] # NoTopology
    <3>1. slice' = slice /\ work' = [at |-> "write", node |-> n, devices |-> Devices(seen[n])]
      BY <1>1, <2>3 DEF ReconcileSlice
    <3>2. work'.at = "write" /\ work'.node = n /\ work'.devices = Devices(seen[n])
      BY <3>1
    <3>3. \A t : Devices(t)' = Devices(t)
      BY <2>1 DEF Devices, GpuDevices, ChannelDevices
    <3> QED
      BY <2>1, <2>3, <3>1, <3>2 DEF SlicesInv, SliceKept, Devices, Present, At
  <2> QED
    BY <2>2, <2>3
<1>2. CASE WriteGpuSlice \/ WriteChannelSlice
  <2>1. /\ slice' = [slice EXCEPT ![work.node] = work.devices] /\ work.at = "write" /\ work'.at = "idle"
        /\ UNCHANGED <<component, obj, seen, queue, excused>>
    BY <1>2 DEF WriteGpuSlice, WriteChannelSlice, StoreSlice, At, Idle
  <2> QED
    BY <2>1 DEF SlicesInv, SliceKept, Devices, Present, At
<1>3. ASSUME NEW n \in KwokNodes, SliceCallFails(n) PROVE SlicesInv'
  <2>1. /\ UNCHANGED <<component, obj, seen, slice, excused>>
        /\ \/ queue' = queue /\ work' = work
           \/ work.at = "write" /\ work.node = n /\ work'.at = "idle" /\ queue' = queue \cup {n}
    BY <1>3 DEF SliceCallFails, At, Idle
  <2> QED
    BY <2>1 DEF SlicesInv, SliceKept, Devices, Present, At
<1> QED
  BY <1>1, <1>2, <1>3
     DEF Work, SetMetricsForNode, DeleteMetricsOfNode, WriteSeries, GetLabels, UpdateLabels,
         Slicing, SlicesInv, At

\* Every step while one of the two DRA plugins is observed.
LEMMA SlicesNext ==
  ASSUME KwokInv, Slicing, SlicesInv, KwokNext
  PROVE  SlicesInv'
<1>1. CASE Refresh \/ ApplyPatch
  <2>1. UNCHANGED <<component, obj, seen, queue, work, slice>> /\ excused \subseteq excused'
    BY <1>1 DEF Refresh, StartRefresh, RefreshSeries, ApplyPatch, exporterVars
  <2> QED
    BY <2>1 DEF SlicesInv, SliceKept, Devices, Present, At
<1>2. CASE Crash
  <2>1. /\ UNCHANGED <<obj, slice>> /\ work'.at = "idle"
        /\ \A n \in KwokNodes : seen'[n] = NoTopology
        /\ excused' = excused \cup UNION {Orphan(n) : n \in {m \in KwokNodes : ~ Present(m)}}
    BY <1>2 DEF Crash, Idle
  <2>2. ASSUME NEW n \in KwokNodes PROVE Present(n) \/ slice[n] = NoSlice \/ n \in excused'
    <3>1. ~ Present(n) /\ slice[n] # NoSlice => n \in Orphan(n)
      BY DEF Orphan
    <3> QED
      BY <2>1, <3>1
  <2> QED
    BY <2>1, <2>2 DEF SlicesInv, SliceKept, Present, At
<1> QED
  BY <1>1, <1>2, SlicesCluster, SlicesWork
     DEF KwokNext, ChangeNode, DeleteNode, LabelsFail, Slicing

-----------------------------------------------------------------------------
\* The capacities.

\* Unless it is excused, a node the informer has shown has the capacity of what
\* was shown, or the goroutine that sets it is still to run.
CapacityKept(n) ==
  seen[n] # NoTopology /\ n \notin excused =>
    /\ \A p \in patches : p[1] = n => p[2] = Len(seen[n])
    /\ (\A p \in patches : p[1] # n) => capacity[n] = Len(seen[n])

CapacityInv ==
  /\ DOMAIN capacity = KwokNodes
  /\ work.at = "idle"
  /\ \A n \in KwokNodes : CapacityKept(n)

\* Every step while the GPU device plugin of the KWOK nodes is observed.
LEMMA CapacityNext ==
  ASSUME KwokInv, component = "capacity", CapacityInv, KwokNext
  PROVE  CapacityInv'
<1>1. CASE (\E n \in KwokNodes : ChangeObject(n)) \/ Refresh
  <2>1. UNCHANGED <<seen, work, patches, capacity>> /\ excused \subseteq excused'
    BY <1>1 DEF ChangeObject, Refresh, StartRefresh, RefreshSeries, exporterVars
  <2> QED
    BY <2>1 DEF CapacityInv, CapacityKept
<1>2. ASSUME NEW n \in KwokNodes, Observe(n) PROVE CapacityInv'
  <2>1. /\ seen' = [seen EXCEPT ![n] = obj[n]] /\ seen[n] # obj[n]
        /\ UNCHANGED <<work, capacity>> /\ StartPatch(n)
    BY <1>2 DEF Observe
  <2>2. seen'[n] = obj[n] /\ \A m \in KwokNodes : m # n => seen'[m] = seen[m]
    BY <2>1 DEF KwokInv, KwokShape
  <2>3. ASSUME NEW m \in KwokNodes PROVE CapacityKept(m)'
    <3>0. CapacityKept(m)
      BY DEF CapacityInv
    <3>1. CASE m # n
      <4>1. /\ m \in excused' <=> m \in excused
            /\ \A p : p[1] = m => (p \in patches' <=> p \in patches)
        BY <2>1, <3>1 DEF StartPatch
      <4> QED
        BY <2>1, <2>2, <3>0, <3>1, <4>1 DEF CapacityKept
    <3>2. CASE m = n /\ seen[n] = NoTopology
      <4>1. CASE \E p \in patches : p[1] = n
        BY <2>1, <3>2, <4>1 DEF StartPatch, CapacityKept
      <4>2. CASE \A p \in patches : p[1] # n
        <5>1. patches' = patches \cup {<<n, Len(obj[n])>>}
          BY <2>1, <3>2 DEF StartPatch
        <5>2. PICK q \in patches' : q = <<n, Len(obj[n])>>
          BY <5>1
        <5>3. q[1] = n /\ q[2] = Len(obj[n])
          BY <5>2
        <5>4. \A p \in patches' : p[1] = n => p[2] = Len(obj[n])
          BY <4>2, <5>1, <5>3, <5>2
        <5> QED
          BY <2>2, <3>2, <5>3, <5>4 DEF CapacityKept
      <4> QED
        BY <4>1, <4>2
    <3>3. CASE m = n /\ seen[n] # NoTopology
      <4>1. patches' = patches /\ (n \in excused => n \in excused')
        BY <2>1, <3>3 DEF StartPatch
      <4>2. obj[n] # NoTopology /\ n \notin excused' => Len(seen[n]) = Len(obj[n])
        BY <2>1, <3>3 DEF StartPatch, Present
      <4> QED
        BY <2>1, <2>2, <3>0, <3>3, <4>1, <4>2 DEF CapacityKept
    <3> QED
      BY <3>1, <3>2, <3>3
  <2> QED
    BY <2>1, <2>3 DEF CapacityInv
<1>3. CASE ApplyPatch
  <2>1. PICK p \in patches :
          /\ patches' = patches \ {p}
          /\ \/ capacity' = [capacity EXCEPT ![p[1]] = p[2]] /\ UNCHANGED excused
             \/ excused' = excused \cup {p[1]} /\ UNCHANGED capacity
    BY <1>3 DEF ApplyPatch
  <2>2. UNCHANGED <<seen, work>> /\ p[1] \in KwokNodes
    BY <1>3 DEF ApplyPatch, KwokInv, KwokShape
  <2>3. ASSUME NEW m \in KwokNodes PROVE CapacityKept(m)'
    <3>0. CapacityKept(m)
      BY DEF CapacityInv
    <3>1. CASE m # p[1]
      BY <2>1, <2>2, <3>0, <3>1 DEF CapacityKept, CapacityInv
    <3>2. CASE m = p[1]
      BY <2>1, <2>2, <3>0, <3>2 DEF CapacityKept, CapacityInv
    <3> QED
      BY <3>1, <3>2
  <2> QED
    BY <2>1, <2>2, <2>3 DEF CapacityInv
<1>4. CASE Crash
  BY <1>4 DEF Crash, CapacityInv, CapacityKept, Idle
<1> QED
  BY <1>1, <1>2, <1>3, <1>4
     DEF KwokNext, Work, WriteSeries, GetLabels, UpdateLabels, WriteGpuSlice, WriteChannelSlice,
         SetMetricsForNode, DeleteMetricsOfNode, ReconcileSlice, LabelsFail, ChangeNode, DeleteNode,
         SliceCallFails, Slicing, CapacityInv, At

-----------------------------------------------------------------------------
\* What each of the components owes its nodes.
Remembers ==
  /\ component = "exporter" => LabelsInv
  /\ Slicing => SlicesInv
  /\ component = "capacity" => CapacityInv

\* Initially nothing has been shown.
LEMMA RemembersInit == Init => Remembers
  BY DEF Init, KwokInit, Remembers, LabelsInv, LabelsKept, Labelling, SlicesInv, SliceKept,
     CapacityInv, CapacityKept, Idle, At

\* Which component is observed never changes; the others leave these alone.
LEMMA RemembersNext == KwokInv /\ Remembers /\ [Next]_vars => Remembers'
<1> SUFFICES ASSUME KwokInv, Remembers, [Next]_vars PROVE Remembers'
  OBVIOUS
<1>1. CASE KwokNext
  <2>1. component' = component
    BY <1>1 DEF KwokNext, Work, Refresh, StartRefresh, RefreshSeries, ApplyPatch, LabelsFail, Crash,
       ChangeObject, ChangeNode, DeleteNode, Observe, SliceCallFails, WriteSeries, GetLabels,
       UpdateLabels, WriteGpuSlice, WriteChannelSlice, StoreSlice, SetMetricsForNode,
       DeleteMetricsOfNode, ReconcileSlice
  <2> QED
    BY <1>1, <2>1, LabelsNext, SlicesNext, CapacityNext DEF Remembers, Slicing
<1>2. CASE ~ KwokNext
  <2>1. UNCHANGED kwokVars
    BY <1>2 DEF Next, KwokRuns, MockRuns, DraRuns, vars
  <2>2. UNCHANGED <<component, obj, seen, queue, work, labels, slice, patches, capacity, excused>>
    BY <2>1 DEF kwokVars, exporterVars
  <2> QED
    BY <2>2 DEF Remembers, Slicing, LabelsInv, LabelsKept, Labelling, SlicesInv, SliceKept, Devices,
       Present, CapacityInv, CapacityKept, At
<1> QED
  BY <1>1, <1>2

\* A KWOK node for which nothing is under way has the labels, slice or capacity of
\* its object, or is one of those for which the code makes no promise: for any number
\* of nodes, changes, failed calls, conflicts and restarts, however far the informer
\* is behind.
THEOREM NothingEverForgotten == Spec => []NothingForgotten
<1>1. KwokInv /\ Remembers => NothingForgotten
  <2> SUFFICES ASSUME KwokInv, Remembers, NEW n \in KwokNodes, UpToDate(n)
               PROVE  IF component = "exporter"
                      THEN Present(n) => labels[n] \in {Len(obj[n]), NoNode} \/ n \in excused
                      ELSE Mirrors(n)
    BY DEF NothingForgotten
  <2>1. /\ seen[n] = obj[n] /\ n \notin queue /\ (work.at = "idle" \/ work.node # n)
        /\ \A p \in patches : p[1] # n
    BY DEF UpToDate, At
  <2>2. CASE component = "exporter"
    <3>1. LabelsKept(n)
      BY <2>2 DEF Remembers, LabelsInv
    <3> QED
      BY <2>1, <2>2, <3>1 DEF LabelsKept, Labelling, Present
  <2>3. CASE Slicing
    <3>1. SliceKept(n)
      BY <2>3 DEF Remembers, SlicesInv
    <3>2. IF Present(n) THEN slice[n] = Devices(obj[n]) ELSE slice[n] = NoSlice \/ n \in excused
      BY <2>1, <3>1 DEF SliceKept, Present, At
    <3> QED
      BY <2>3, <3>2 DEF Mirrors, Slicing
  <2>4. CASE component = "capacity"
    <3>1. CapacityKept(n)
      BY <2>4 DEF Remembers, CapacityInv
    <3> QED
      BY <2>1, <2>4, <3>1 DEF CapacityKept, Mirrors, Present
  <2>5. CASE component \notin {"exporter", "gpu", "channel", "capacity"}
    BY <2>5 DEF Mirrors
  <2> QED
    BY <2>2, <2>3, <2>4, <2>5 DEF Slicing
<1>2. Spec => [](KwokInv /\ Remembers)
  BY KwokInvInit, KwokInvNext, RemembersInit, RemembersNext, PTL DEF Spec
<1> QED
  BY <1>1, <1>2, PTL
=============================================================================
