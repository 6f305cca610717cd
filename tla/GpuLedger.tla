------------------------------ MODULE GpuLedger ------------------------------
(***************************************************************************)
(* What the topology ConfigMap of a node promises to those who read it     *)
(* (exporters, topology server, device plugins): who owns each GPU.  A pod *)
(* gets everything it was granted in one step and gives all of it back in  *)
(* one step; a GPU never passes from one pod to another without being free *)
(* in between, and a pod that owns GPUs is given no more.                  *)
(***************************************************************************)
CONSTANTS GPU, Pods, NoPod,
          Grant     \* Grant[p]: the sets of GPUs that satisfy p

VARIABLE owner

OwnedBy(p) == {g \in GPU : owner[g] = p}

LedgerInit == owner = [g \in GPU |-> NoPod]

Acquire(p) ==
    /\ OwnedBy(p) = {}
    /\ \E S \in Grant[p] :
          /\ S \subseteq OwnedBy(NoPod)
          /\ owner' = [g \in GPU |-> IF g \in S THEN p ELSE owner[g]]

GiveBack(p) == owner' = [g \in GPU |-> IF owner[g] = p THEN NoPod ELSE owner[g]]

LedgerNext == \E p \in Pods : Acquire(p) \/ GiveBack(p)

LedgerSpec == LedgerInit /\ [][LedgerNext]_owner
=============================================================================
