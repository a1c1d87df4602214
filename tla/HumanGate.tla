------------------------------ MODULE HumanGate ------------------------------
(***************************************************************************)
(* What the review path promises to the person at the console, with no     *)
(* threads, cards, grants or clocks: a call that policy does not allow by  *)
(* itself runs only if, at the moment it is let through, a human has       *)
(* approved that very intent; and a call is answered once.                 *)
(***************************************************************************)
CONSTANTS Calls,      \* tool calls submitted by agents
          Intents,    \* session id and intent fingerprint, taken together
          IntentOf,   \* the intent of a call
          FreeCalls   \* calls policy allows without any review

VARIABLES approved,   \* the intents some operator has approved so far
          outcome     \* the answer each call has been given

hgVars == <<approved, outcome>>

Init ==
  /\ approved = {}
  /\ outcome = [c \in Calls |-> "OPEN"]

Approve(i) ==
  /\ approved' = approved \union {i}
  /\ UNCHANGED outcome

Permit(c) ==
  /\ outcome[c] = "OPEN"
  /\ c \in FreeCalls \/ IntentOf[c] \in approved
  /\ outcome' = [outcome EXCEPT ![c] = "ALLOW"]
  /\ UNCHANGED approved

Refuse(c) ==
  /\ outcome[c] = "OPEN"
  /\ outcome' = [outcome EXCEPT ![c] = "HALT"]
  /\ UNCHANGED approved

Next ==
  \/ \E i \in Intents : Approve(i)
  \/ \E c \in Calls : Permit(c) \/ Refuse(c)

Spec == Init /\ [][Next]_hgVars
=============================================================================
