---------------------------- MODULE MCSessionMemory ----------------------------
(***************************************************************************)
(* Instances of SessionMemory for TLC.  c1 opens a user turn and does      *)
(* something consequential, which taint turns into a review and then a     *)
(* refusal; c2 and c3 are plain requests to other hosts.                   *)
(***************************************************************************)
EXTENDS SessionMemory

CONSTANTS c1, c2, c3, p1, p2, t1, d1, d2

TurnOfCall == [c \in Calls |-> IF c = c1 THEN t1 ELSE NoTurn]
RoutesOfCall == [c \in Calls |->
  [t \in Levels |-> IF c # c1 \/ t = 0 THEN "ALLOW" ELSE IF t = 1 THEN "REVIEW" ELSE "HALT"]]
DomainOfCall == [c \in Calls |-> IF c = c1 THEN d1 ELSE d2]
OneByte == [c \in Calls |-> 1]

\* policy/default.yml, with small budgets.
DefaultTaintFloors == [t \in Levels |-> IF t = 2 THEN "REVIEW" ELSE "ALLOW"]
OneOld == <<1>>

\* What VerdictsMatchTaint asks of a policy.
ASSUME ShippedAssumption == RisingFloors
=============================================================================
