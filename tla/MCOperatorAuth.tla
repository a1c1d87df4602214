---------------------------- MODULE MCOperatorAuth ----------------------------
(* Instances of OperatorAuth for TLC: logins, step-ups and commands of one *)
(* session.                                                                *)
EXTENDS OperatorAuth, TLC

CONSTANTS l1, l2, l3, l4, u1, u2, k1, k2, k3

OneSession == [r \in Requests |-> l1]

\* Guesses are alike.
Alike == Permutations(Logins \ Knowing)
=============================================================================
