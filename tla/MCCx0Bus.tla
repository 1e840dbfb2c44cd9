------------------------------ MODULE MCCx0Bus ------------------------------
(* Values for the constants of Cx0Bus.                                     *)
EXTENDS Cx0Bus

\* One that answers in time but refuses commands, one that refuses none, and one
\* whose answers may come late.
MCDevices ==
  {[late |-> 0, keeps |-> TRUE, refusals |-> 3],
   [late |-> 0, keeps |-> TRUE, refusals |-> 0],
   [late |-> 6, keeps |-> FALSE, refusals |-> 0]}

\* All bytes differ.
MCBoot == {[quot |-> [hi |-> {"a"}, lo |-> {"b"}], rem |-> [hi |-> {"c"}, lo |-> {"d"}]]}
MCGoals == {[quot |-> [hi |-> {"e"}, lo |-> {"f"}], rem |-> [hi |-> {"g"}, lo |-> {"h"}]]}

=============================================================================
