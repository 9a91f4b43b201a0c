--------------------------- MODULE MCHandoffFlow ----------------------------
(* Two nodes that hand off to each other on which TLC checks HandoffFlow. *)
EXTENDS HandoffFlow, TLC

CONSTANTS lead, helper

Nodes2 == {lead, helper}
TwoIterations == [n \in Node |-> 2]
=============================================================================
