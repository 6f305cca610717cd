----------------------------- MODULE MCNodeAgents -----------------------------
(* Bounds of the node agents: two or three GPUs held by workload pods and a   *)
(* reservation pod, and numa blocks of every kind the layout distinguishes. *)
EXTENDS NodeAgents

Free == [by |-> NoPod, users |-> {}]
MCTopologies == {
  <<[by |-> "r", users |-> {"s1", "s2"}], Free>>,
  <<[by |-> "v", users |-> {"v"}], [by |-> "w", users |-> {"w"}], [by |-> "w", users |-> {"w"}]>>}
MCReserved == {"r"}
MCRequests == [p \in {"w", "v", "r"} |-> IF p = "w" THEN 4500 ELSE 1000]
MCNumas == {
  NoNuma,
  [zones |-> 2, gpus |-> DefaultSplit, cpu |-> DefaultSplit],
  [zones |-> 2, gpus |-> <<2, 0>>, cpu |-> 1500]}
MCFocusChoices == {{"metrics"}, {"labels", "fs"}, {"labels", "mig"}, {"nrt"}, {"podres"}}
MCConfigKind == <<"valid", "unknown", "valid">>
=============================================================================
