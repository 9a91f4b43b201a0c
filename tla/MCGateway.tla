------------------------------ MODULE MCGateway ------------------------------
(* Small instances on which TLC checks Gateway. *)
EXTENDS Gateway, TLC

CONSTANTS a1, a2, r1, r2, r3, read, write

TwoPolicies == [a \in Agent |-> IF a = a1 THEN "Deny" ELSE "Allow"]
TwoFilters == [a \in Agent |-> IF a = a1 THEN "Redact" ELSE "Pseudonymize"]
Unlimited == [a \in Agent |-> 0]
Limits == [a \in Agent |-> IF a = a1 THEN 0 ELSE 1]
Requests == Permutations({r1, r2, r3} \cap Call)
=============================================================================
