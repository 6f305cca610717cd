------------------------------- MODULE MigFaker -------------------------------
(***************************************************************************)
(* The MIG faker (internal/migfaker): an informer that hands the node's    *)
(* run.ai/mig.config annotation to a loop through a mutex and a condition  *)
(* variable, and the loop that writes the state label and the mapping      *)
(* annotation.  It shares the Node object with the status exporter, whose  *)
(* product label it reads.                                                 *)
(*                                                                         *)
(* A configuration is a number, 0 for no annotation; ConfigKind says what  *)
(* becomes of it.  A mapping is the number of its configuration.           *)
(***************************************************************************)
EXTENDS NodeObject, Sequences

CONSTANTS ConfigKind,  \* sequence: "valid", "unknown" (instance name) or "garbled" (YAML)
          NoProduct,   \* the node's GPU labels before the status exporter set them
          EmptyMapping \* the mapping of no selected devices

ASSUME ConfigAssumption == ConfigKind \in Seq({"valid", "unknown", "garbled"})

VARIABLES next,      \* the number of the next configuration set on the node
          notices,   \* annotation changes the informer has not handled
          current,   \* SyncableMigConfig.current
          lastRead,  \* SyncableMigConfig.lastRead
          loop,      \* where the loop is
          failed     \* the loop's last round ended without a mapping

migVars == <<next, notices, current, lastRead, loop, failed>>

MigInit ==
  /\ next = 1 /\ notices = <<0>>
  /\ current = 0 /\ lastRead = 0
  /\ loop = "get" /\ failed = FALSE

\* Someone sets a new configuration or removes the annotation.
Annotate ==
  /\ Spend
  /\ \E v \in {0} \cup ({next} \cap DOMAIN ConfigKind) :
       /\ v # node.ann
       /\ Store([node EXCEPT !.ann = v])
       /\ next' = IF v = 0 THEN next ELSE next + 1
       /\ notices' = Append(notices, v)
  /\ next \in DOMAIN ConfigKind
  /\ UNCHANGED <<copy, current, lastRead, loop, failed>>

\* Mutant: the condition variable is not signalled.
SetSilently(v) ==
  /\ current' = v
  /\ UNCHANGED loop

\* Set: the loop is woken unless the annotation was removed.
Set(v) ==
  /\ current' = v
  /\ loop' = IF v # 0 /\ loop = "waiting" THEN "woken" ELSE loop

HandleNotice ==
  /\ notices # <<>>
  /\ Set(Head(notices))
  /\ notices' = Tail(notices)
  /\ UNCHANGED <<nodeVars, next, lastRead, failed, boundVars>>

\* Get: one wait at most, then whatever is current.
Get ==
  /\ \/ loop = "get" /\ lastRead = current /\ loop' = "waiting" /\ UNCHANGED lastRead
     \/ /\ loop = "woken" \/ (loop = "get" /\ lastRead # current)
        /\ lastRead' = current
        /\ loop' = "map"
  /\ UNCHANGED <<nodeVars, next, notices, current, failed, boundVars>>

EndRound(ok) == loop' = "get" /\ failed' = ~ok

\* FakeMapping up to its first write: the product label is read for each
\* selected device, and the instance names are looked up.
ComputeMapping ==
  /\ loop = "map"
  /\ IF \/ lastRead = 0
        \/ ConfigKind[lastRead] = "valid" /\ node.gpu # NoProduct
     THEN loop' = "readLabels" /\ UNCHANGED failed
     ELSE EndRound(FALSE)
  /\ UNCHANGED <<nodeVars, next, notices, current, lastRead, boundVars>>

ReadNodeForMig ==
  /\ \/ loop = "readLabels" /\ loop' = "setLabels"
     \/ loop = "readAnnotations" /\ loop' = "setAnnotations"
  /\ GetNode("mig")
  /\ UNCHANGED <<next, notices, current, lastRead, failed, boundVars>>

\* The state label goes first, the mapping follows; a conflict ends the round.
SetStateLabel ==
  /\ loop = "setLabels"
  /\ \/ UpdateNode("mig", [copy["mig"] EXCEPT !.migState = TRUE])
        /\ loop' = "readAnnotations" /\ UNCHANGED failed
     \/ UpdateConflicts("mig") /\ EndRound(FALSE)
  /\ UNCHANGED <<next, notices, current, lastRead, boundVars>>

Mapping == IF lastRead = 0 THEN EmptyMapping ELSE lastRead

SetMappingAnnotation ==
  /\ loop = "setAnnotations"
  /\ \/ UpdateNode("mig", [copy["mig"] EXCEPT !.mig = Mapping]) /\ EndRound(TRUE)
     \/ UpdateConflicts("mig") /\ EndRound(FALSE)
  /\ UNCHANGED <<next, notices, current, lastRead, boundVars>>

\* A call fails: the error is logged, and the next round waits for a change.
MigCallFails ==
  /\ loop \in {"map", "readLabels", "setLabels", "readAnnotations", "setAnnotations"}
  /\ loop = "map" => lastRead # 0
  /\ Mishap
  /\ EndRound(FALSE)
  /\ DropCopy("mig")
  /\ UNCHANGED <<next, notices, current, lastRead>>

\* The process dies; the new one's informer starts with the node as it is.
MigRestart ==
  /\ Mishap
  /\ notices' = <<node.ann>>
  /\ current' = 0 /\ lastRead' = 0
  /\ EndRound(TRUE)
  /\ DropCopy("mig")
  /\ UNCHANGED next

MigStep == Get \/ ComputeMapping \/ ReadNodeForMig \/ SetStateLabel \/ SetMappingAnnotation

MigNext == Annotate \/ HandleNotice \/ MigStep \/ MigCallFails \/ MigRestart
=============================================================================
