---------------------- MODULE MCComputeDomainController ----------------------
(* One domain, or two; they name the same template when there is only one.  *)
EXTENDS ComputeDomainController

MCTemplateOf == [d \in Domains |-> IF "t2" \in Templates /\ d = "d2" THEN "t2" ELSE "t1"]
MCNumNodes == [d \in Domains |-> 1]
=============================================================================
