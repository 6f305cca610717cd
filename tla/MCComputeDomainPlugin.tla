------------------------ MODULE MCComputeDomainPlugin ------------------------
(* c1 and c2 share a domain, c2 asks for all channels, c3 names no domain. *)
EXTENDS ComputeDomainPlugin

MCDomainOf == [c \in Claims |-> IF c = "c3" THEN NoDomain ELSE "d1"]
MCHasClass == [c \in Claims |-> TRUE]
MCAllMode == [c \in Claims |-> c = "c2"]
=============================================================================
