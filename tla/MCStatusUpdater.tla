--------------------------- MODULE MCStatusUpdater ---------------------------
(* Small clusters for the status updater; a cfg picks the pods by name.    *)
EXTENDS StatusUpdater

MCKind == [p \in Pods |-> CASE p \in {"d1", "d2", "d3"} -> "dedicated"
                            [] p = "r1" -> "reservation"
                            [] p \in {"s1", "s2"} -> "shared"
                            [] OTHER -> "dra"]

\* d1 and d2 have the same name in different namespaces.
MCNameOf == [p \in Pods |-> IF p = "d2" THEN "d1" ELSE p]
MCRequest == [p \in Pods |-> CASE p \in {"d1", "r1"} -> 1
                               [] p \in {"d2", "d3"} -> 2
                               [] OTHER -> 0]
MCGroup == [p \in Pods |-> "g1"]
MCClaim == [p \in Pods |-> CASE p \in {"c1", "c2"} -> {1}
                             [] p = "c3" -> {2}
                             [] p = "c12" -> {1, 2}
                             [] OTHER -> {}]
=============================================================================
