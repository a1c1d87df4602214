----------------------------- MODULE MCApprovals -----------------------------
(***************************************************************************)
(* Small instances of Approvals for TLC: which calls share an intent, and  *)
(* what the gate says of each.                                             *)
(***************************************************************************)
EXTENDS Approvals, TLC

CONSTANTS c1, c2, c3, c4, i1, i2

\* Calls of one intent, retries of each other.
OneIntent == [c \in Calls |-> i1]

\* c1 is of one intent; c2 and c3 are of another, and of one fingerprint.
TwoIntents == [c \in Calls |-> IF c \in {c2, c3} THEN i2 ELSE i1]

\* Every call needs a human, except c4: policy allows it by itself.
AllReview == [c \in Calls |-> IF c = c4 THEN "ALLOW" ELSE "REVIEW"]

\* Operators' requests differ in nothing but their name, and so do calls of
\* one intent, one route and one class.
OperatorSymmetry == Permutations(Requests)
CallSymmetry == Permutations(Calls)
=============================================================================
