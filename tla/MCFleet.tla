-------------------------------- MODULE MCFleet --------------------------------
(* Bounds of the fleet: two KWOK nodes with one or two GPUs, two mock pools   *)
(* of which both may use one profile, five claims of a node.                *)
EXTENDS Fleet

MCTopologies == {
  <<[by |-> "a", users |-> {"a"}]>>,
  <<[by |-> "a", users |-> {}], [by |-> "b", users |-> {"b"}]>>}
\* One GPU and another holder.
MCHolders == {<<[by |-> p, users |-> {p}]>> : p \in {"a", "b"}}
MCPoolSpecs == {[profile |-> "h100", overrides |-> 0], [profile |-> "h100", overrides |-> 1]}
MCAllocations ==
  [one |-> [results |-> {<<"r", "g1">>}, configs |-> <<>>],
   two |-> [results |-> {<<"r", "g1">>, <<"s", "g2">>},
            configs |-> <<[requests |-> {"r", "s"}, kind |-> "shared"],
                          [requests |-> {"s"}, kind |-> "sliced"],
                          [requests |-> {}, kind |-> OtherDriver]>>],
   garbled |-> [results |-> {<<"r", "g2">>},
                configs |-> <<[requests |-> {"q"}, kind |-> Garbled]>>],
   unused |-> [results |-> {<<"r", "g2">>},
               configs |-> <<[requests |-> {"q"}, kind |-> Rejected]>>],
   rejected |-> [results |-> {<<"r", "g1">>},
                 configs |-> <<[requests |-> {"r"}, kind |-> Rejected]>>]]
MCDeviceSets == {{"g1", "g2"}, {"g2"}}
=============================================================================
