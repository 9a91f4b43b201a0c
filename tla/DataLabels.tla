----------------------------- MODULE DataLabels ------------------------------
(***************************************************************************)
(* Information-flow labels (navra-protocol/src/label.rs): a product of two *)
(* chains, joined componentwise.  The enums' discriminants are the ranks.  *)
(***************************************************************************)
EXTENDS Naturals

Trusted == 0
Untrusted == 1
Integrity == Trusted..Untrusted

Public == 0
Sensitive == 1
Pii == 2
Secret == 3
Confidentiality == Public..Secret

DataLabel == [integrity : Integrity, confidentiality : Confidentiality]
TrustedPublic == [integrity |-> Trusted, confidentiality |-> Public]

Higher(m, n) == IF m > n THEN m ELSE n

Join(l, m) ==
    [integrity |-> Higher(l.integrity, m.integrity),
     confidentiality |-> Higher(l.confidentiality, m.confidentiality)]

\* The label with its confidentiality set, its integrity kept.
Declassified(l, target) == [integrity |-> l.integrity, confidentiality |-> target]

\* No write-down: data of this label may go to a target of this clearance.
CanWriteTo(l, target) == l.confidentiality <= target

\* The order whose least upper bound Join is.
AtMost(l, m) ==
    l.integrity <= m.integrity /\ l.confidentiality <= m.confidentiality
=============================================================================
