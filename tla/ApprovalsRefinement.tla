------------------------- MODULE ApprovalsRefinement -------------------------
(***************************************************************************)
(* Approvals implements HumanGate: every step of the review path is an     *)
(* approval, an answer the human gate permits, or invisible to it.         *)
(***************************************************************************)
EXTENDS ApprovalsProof

\* What the human gate sees of a state.
ApprovedIntents == {IntentOf[req[r].card] : r \in {q \in Requests : Approved(q)}}
Outcome == [c \in Calls |-> IF pc[c] = "done" THEN decision[c].route ELSE "OPEN"]
Free == {c \in Calls : GateRoute[c] = "ALLOW"}

\* A request's step approves at most the intent of its own card.
LEMMA RequestRefines ==
  ASSUME TypeInv, NEW r \in Requests, RequestStep(r)
  PROVE  /\ UNCHANGED Outcome
         /\ \/ UNCHANGED ApprovedIntents
            \/ \E i \in Intents : ApprovedIntents' = ApprovedIntents \union {i}
<1> USE DEF TypeInv, TypeOK, reqVars, callVars
<1>1. UNCHANGED Outcome
  BY DEF RequestStep, Check, SetStatus, Publish, IssueGrant, Outcome
<1>2. \A q \in Requests : q # r => rpc'[q] = rpc[q] /\ req'[q] = req[q]
  BY DEF RequestStep, Check, SetStatus, Publish, IssueGrant
<1>3. CASE Approved(r)' <=> Approved(r)
  <2>1. Approved(r) => req'[r] = req[r]
    BY DEF RequestStep, Check, SetStatus, Publish, IssueGrant, Approved, Resolved
  <2>2. \A q \in Requests : /\ Approved(q)' <=> Approved(q)
                            /\ Approved(q) => req'[q] = req[q]
    BY <1>2, <1>3, <2>1 DEF Approved, Resolved
  <2>3. ApprovedIntents' = ApprovedIntents
    BY <2>2 DEF ApprovedIntents
  <2> QED
    BY <1>1, <2>3
<1>4. CASE ~(Approved(r)' <=> Approved(r))
  <2>1. SetStatus(r) /\ req[r].approve
    BY <1>4 DEF RequestStep, Check, SetStatus, Publish, IssueGrant, Approved, Resolved
  <2>2. ~Approved(r) /\ Approved(r)' /\ req' = req
    BY <2>1 DEF SetStatus, Approved, Resolved
  <2>3. \A q \in Requests : Approved(q)' <=> Approved(q) \/ q = r
    BY <1>2, <2>2 DEF Approved, Resolved
  <2>4. IntentOf[req[r].card] \in Intents
    BY <2>1, CallsAssumption DEF SetStatus, ThreadsOK, Asked, Arguments
  <2>5. ApprovedIntents' = ApprovedIntents \union {IntentOf[req[r].card]}
    BY <2>2, <2>3 DEF ApprovedIntents
  <2> QED
    BY <1>1, <2>4, <2>5
<1> QED
  BY <1>3, <1>4

\* A call's step answers at most that call, and lets it run only when policy
\* allows it by itself or its intent has been approved.
LEMMA CallRefines ==
  ASSUME TypeInv, ConsentInv, NEW c \in Calls, CallStep(c)
  PROVE  /\ UNCHANGED ApprovedIntents
         /\ \/ UNCHANGED Outcome
            \/ /\ Outcome[c] = "OPEN"
               /\ c \in Free \/ IntentOf[c] \in ApprovedIntents
               /\ Outcome' = [Outcome EXCEPT ![c] = "ALLOW"]
            \/ /\ Outcome[c] = "OPEN"
               /\ Outcome' = [Outcome EXCEPT ![c] = "HALT"]
<1> USE DEF reqVars
<1>1. UNCHANGED ApprovedIntents
  BY DEF CallStep, Decide, FindGrant, ConsumeGrant, OpenCard, Wake, ActApproved,
         ActDenied, ActSuspend, ApprovedIntents, Approved, Resolved
<1>2. Outcome[c] = "OPEN"
  BY DEF CallStep, Decide, FindGrant, ConsumeGrant, OpenCard, Wake, ActApproved,
         ActDenied, ActSuspend, Outcome
<1>3. ASSUME NEW route, NEW method, NEW who, Answer(c, route, method, who)
      PROVE  Outcome' = [Outcome EXCEPT ![c] = route]
  BY <1>3, AnswerAlone DEF Outcome
<1>4. ASSUME NEW p, p # "done", pc[c] # "done", pc' = [pc EXCEPT ![c] = p],
             UNCHANGED decision
      PROVE  UNCHANGED Outcome
  BY <1>4 DEF Outcome, TypeInv, TypeOK
<1>5. ASSUME ApprovedCard(c) PROVE IntentOf[c] \in ApprovedIntents
  BY <1>5 DEF ApprovedCard, ApprovedIntents
<1>6. CASE Decide(c)
  BY <1>1, <1>2, <1>3, <1>4, <1>6 DEF Decide, Free
<1>7. CASE FindGrant(c) \/ OpenCard(c) \/ Wake(c)
  BY <1>1, <1>4, <1>7 DEF FindGrant, OpenCard, Wake
<1>8. CASE ConsumeGrant(c)
  <2>1. PICK r \in Requests : Issued(r, IntentOf[c])
    BY <1>8 DEF ConsumeGrant, ConsentInv, TypeInv, ThreadsOK
  <2>2. IntentOf[c] \in ApprovedIntents
    BY <2>1 DEF Issued, Approved, Resolved, ApprovedIntents
  <2> QED
    BY <1>1, <1>2, <1>3, <1>8, <2>2 DEF ConsumeGrant
<1>9. CASE ActApproved(c)
  BY <1>1, <1>2, <1>3, <1>5, <1>9 DEF ActApproved, ConsentInv
<1>10. CASE ActDenied(c) \/ ActSuspend(c)
  BY <1>1, <1>2, <1>3, <1>10 DEF ActDenied, ActSuspend
<1> QED
  BY <1>6, <1>7, <1>8, <1>9, <1>10 DEF CallStep

\* Every step of the review path is a step of the human gate, or a stutter.
LEMMA StepRefines ==
  ASSUME TypeInv, ConsentInv, [Next]_vars
  PROVE  [Gate!Next]_Gate!hgVars
<1> USE DEF Gate!Next, Gate!hgVars, Gate!Approve, Gate!Permit, Gate!Refuse,
            ApprovedIntents, Outcome, Free
<1>1. ASSUME NEW c \in Calls, CallStep(c) PROVE [Gate!Next]_Gate!hgVars
  BY <1>1, CallRefines
<1>2. ASSUME NEW r \in Requests, RequestStep(r) PROVE [Gate!Next]_Gate!hgVars
  BY <1>2, RequestRefines
<1>3. ASSUME HkStep \/ Tick \/ UNCHANGED vars PROVE [Gate!Next]_Gate!hgVars
  <2>1. UNCHANGED <<rpc, req, pc, decision>>
    BY <1>3 DEF HkStep, HkCheck, HkSetStatus, HkPublish, Prune, Tick, vars, callVars, reqVars
  <2> QED
    BY <2>1 DEF Approved, Resolved
<1> QED
  BY <1>1, <1>2, <1>3 DEF Next

\* The review path, with its threads, races, grants and timeouts, keeps the
\* promise HumanGate states: no call that needs a human runs before one has
\* approved its intent, and no call is answered twice.
THEOREM ApprovalsImplementsHumanGate == Spec => ImplementsHumanGate
<1>1. Init => Gate!Init
  <2> SUFFICES ASSUME Init PROVE Gate!Init
    OBVIOUS
  <2>1. \A r \in Requests : ~Approved(r)
    BY DEF Init, Approved, Resolved
  <2> QED
    BY <2>1 DEF Init, Gate!Init
<1>2. TypeInv /\ ConsentInv /\ [Next]_vars => [Gate!Next]_Gate!hgVars
  BY StepRefines
<1> QED
  BY <1>1, <1>2, ConsentAlways, PTL DEF Spec, ImplementsHumanGate, Gate!Spec
=============================================================================
