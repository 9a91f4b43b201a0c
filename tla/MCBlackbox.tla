----------------------------- MODULE MCBlackbox -----------------------------
(* Small instances of Blackbox. *)
EXTENDS Blackbox, TLC

CONSTANTS h1, h2, h3, x, y, z

Handles == {h1, h2, h3}
TwoHandles == {h1, h2}
Contents == {x, y, z}

\* y and z are different columns that join to one text.
OneText == [c \in Contents |-> IF c = x THEN "p|q" ELSE "p|r|q"]

NoRetention == {}
AnyError == BOOLEAN
NoError == {FALSE}
Age0 == {0}

Sym == Permutations({y, z}) \cup Permutations({h1, h2, h3})
=============================================================================
