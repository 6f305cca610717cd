---------------------------- MODULE MockController ----------------------------
(***************************************************************************)
(* The mock controller of the status updater                               *)
(* (status-updater/controllers/mock): for every pool with the mock backend *)
(* a ConfigMap with the rendered GPU profile and a DaemonSet that carries  *)
(* its hash.  Each pass reads the cluster configuration and the profiles   *)
(* again, lists what exists, and applies the difference; it ends at the    *)
(* first error, and the informer's resync starts the next one.             *)
(*                                                                         *)
(* A rendered configuration is <<contents of the profile, overrides>>; its *)
(* hash is the configuration itself.  The other compared fields of a       *)
(* DaemonSet (image, command, arguments, lifecycle) are one flag: as built *)
(* or not.  Other clients change or delete DaemonSets; the managed         *)
(* ConfigMaps are the controller's alone here.                             *)
(***************************************************************************)
EXTENDS Bounds, FiniteSets, Sequences

CONSTANTS Pools,       \* 1..N: the pools in the order of their names
          PoolSpecs,   \* [profile, overrides] of a mock pool, or NotMock
          NotMock,     \* a pool with another backend, or no such pool
          Profiles,    \* names of profile ConfigMaps
          Versions,    \* contents a profile may have
          Missing,     \* no profile ConfigMap
          NoConfig,    \* no cluster ConfigMap
          Absent       \* no such ConfigMap or DaemonSet

\* The profile a pool asks for may be missing; its name is among those observed.
ASSUME PoolSpecsAssumption ==
  /\ Pools \subseteq Nat
  /\ \A s \in PoolSpecs \ {NotMock} : s.profile \in Profiles

VARIABLES config,   \* [pool -> its spec], or NoConfig
          profile,  \* [profile -> its contents, or Missing]
          cms,      \* [pool -> the data of its managed ConfigMap, or Absent]
          sets,     \* [pool -> [hash, built] of its DaemonSet, or Absent]
          pass,     \* where the running pass is, and with what
          touched   \* DaemonSets changed by others since the pass listed them

mockVars == <<config, profile, cms, sets, pass, touched>>

NoPass == [at |-> "idle"]
PassAt(l) == pass.at = l

MockInit ==
  /\ config = NoConfig
  /\ profile \in [Profiles -> Versions]
  /\ cms = [p \in Pools |-> Absent] /\ sets = [p \in Pools |-> Absent]
  /\ pass = NoPass /\ touched = {}

-----------------------------------------------------------------------------
\* Administrators change the pools, a profile or a DaemonSet.
ChangeConfig ==
  /\ Spend
  /\ config' \in ([Pools -> PoolSpecs \cup {NotMock}] \cup {NoConfig}) \ {config}
  /\ UNCHANGED <<profile, cms, sets, pass, touched>>

ChangeProfile ==
  /\ Spend
  /\ \E f \in Profiles, v \in Versions \cup {Missing} :
       v # profile[f] /\ profile' = [profile EXCEPT ![f] = v]
  /\ UNCHANGED <<config, cms, sets, pass, touched>>

EditDaemonSet(p) ==
  /\ Spend
  /\ sets[p] # Absent
  /\ \/ sets' = [sets EXCEPT ![p] = Absent]
     \/ sets' = [sets EXCEPT ![p].built = FALSE]
  /\ touched' = touched \cup {p}
  /\ UNCHANGED <<config, profile, cms, pass>>

-----------------------------------------------------------------------------
\* A pass.

\* An event or the resync of 30 s: readTopologyConfig.
BeginPass ==
  /\ PassAt("idle") /\ config # NoConfig
  /\ pass' = [at |-> "render", config |-> config, left |-> {p \in Pools : config[p] # NotMock},
              desired |-> [p \in Pools |-> Absent]]
  /\ UNCHANGED <<config, profile, cms, sets, touched, boundVars>>

EndPass == pass' = NoPass

\* The profile as it is read, with the pool's overrides merged into it.
Rendered(spec) == <<profile[spec.profile], spec.overrides>>

\* ComputeMockPoolResources: one profile after the other is loaded and merged
\* with the pool's overrides; one that is missing ends the pass.
RenderConfig ==
  /\ PassAt("render") /\ pass.left # {}
  /\ LET p    == CHOOSE q \in pass.left : \A r \in pass.left : q <= r
         spec == pass.config[p]
     IN  IF profile[spec.profile] = Missing THEN EndPass
         ELSE pass' = [pass EXCEPT !.left = @ \ {p},
                                    !.desired = [@ EXCEPT ![p] = Rendered(spec)]]
  /\ UNCHANGED <<config, profile, cms, sets, touched, boundVars>>

\* Mutant: only the hash is compared.
NeedsUpdateByHash(want, have) == have.hash # want

NeedsUpdate(want, have) == have.hash # want \/ ~ have.built

\* What Diff makes of the desired and the listed objects.
Diff(desired, have, outdated) ==
  {<<"create", p>> : p \in {q \in Pools : desired[q] # Absent /\ have[q] = Absent}}
  \cup {<<"update", p>> : p \in {q \in outdated : desired[q] # Absent /\ have[q] # Absent}}
  \cup {<<"delete", p>> : p \in {q \in Pools : desired[q] = Absent /\ have[q] # Absent}}

DiffConfigMaps ==
  Diff(pass.desired, cms, {p \in Pools : cms[p] # pass.desired[p]})
DiffDaemonSets ==
  Diff(pass.desired, sets,
       {p \in Pools : sets[p] # Absent /\ NeedsUpdate(pass.desired[p], sets[p])})

\* Creations first, then updates, then deletions, each in any order.
NextOf(todo) ==
  LET rank == [create |-> 1, update |-> 2, delete |-> 3]
  IN  {o \in todo : \A q \in todo : rank[o[1]] <= rank[q[1]]}

ListConfigMaps ==
  /\ PassAt("render") /\ pass.left = {}
  /\ pass' = [at |-> "cms", desired |-> pass.desired, todo |-> DiffConfigMaps]
  /\ UNCHANGED <<config, profile, cms, sets, touched, boundVars>>

ApplyConfigMap ==
  /\ PassAt("cms")
  /\ \E o \in NextOf(pass.todo) :
       /\ cms' = [cms EXCEPT ![o[2]] = pass.desired[o[2]]]
       /\ pass' = [pass EXCEPT !.todo = @ \ {o}]
  /\ UNCHANGED <<config, profile, sets, touched, boundVars>>

ListDaemonSets ==
  /\ PassAt("cms") /\ pass.todo = {}
  /\ pass' = [at |-> "sets", desired |-> pass.desired, todo |-> DiffDaemonSets]
  /\ touched' = {}
  /\ UNCHANGED <<config, profile, cms, sets, boundVars>>

BuildDaemonSet(hash) == [hash |-> hash, built |-> TRUE]

\* The update carries the listed version; a creation needs the name free, a
\* deletion the object.  Otherwise it fails and the pass ends.
Accepted(o) ==
  CASE o[1] = "create" -> sets[o[2]] = Absent
    [] o[1] = "update" -> o[2] \notin touched
    [] o[1] = "delete" -> sets[o[2]] # Absent

ApplyDaemonSet ==
  /\ PassAt("sets")
  /\ \E o \in NextOf(pass.todo) :
       IF Accepted(o)
       THEN /\ sets' = [sets EXCEPT ![o[2]] =
                          IF o[1] = "delete" THEN Absent
                          ELSE BuildDaemonSet(pass.desired[o[2]])]
            /\ pass' = [pass EXCEPT !.todo = @ \ {o}]
       ELSE EndPass /\ UNCHANGED sets
  /\ UNCHANGED <<config, profile, cms, touched, boundVars>>

FinishPass ==
  /\ PassAt("sets") /\ pass.todo = {}
  /\ EndPass
  /\ UNCHANGED <<config, profile, cms, sets, touched, boundVars>>

\* Mutant: an error of one resource does not end the pass.
PassSkips ==
  /\ pass.at \in {"cms", "sets"}
  /\ Mishap
  /\ \E o \in pass.todo : pass' = [pass EXCEPT !.todo = @ \ {o}]
  /\ UNCHANGED <<config, profile, cms, sets, touched>>

\* Any call fails, or the process dies: what was applied stays.
PassFails ==
  /\ ~ PassAt("idle")
  /\ Mishap
  /\ EndPass
  /\ UNCHANGED <<config, profile, cms, sets, touched>>

Pass == BeginPass \/ RenderConfig \/ ListConfigMaps \/ ApplyConfigMap
        \/ ListDaemonSets \/ ApplyDaemonSet \/ FinishPass

MockNext ==
  \/ ChangeConfig \/ ChangeProfile \/ Pass \/ PassFails
  \/ \E p \in Pools : EditDaemonSet(p)
=============================================================================
