--------------------------- MODULE MCDecisionLedger ---------------------------
(* Instances of DecisionLedger for TLC: calls, commands, hooks, verifiers. *)
EXTENDS DecisionLedger

CONSTANTS c1, c2, k1, h1, h2, v1
=============================================================================
