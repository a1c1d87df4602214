--------------------------- MODULE ApprovalsProof ---------------------------
(***************************************************************************)
(* Proofs about Approvals, for any calls, requests, intents and times.     *)
(***************************************************************************)
EXTENDS Approvals, FiniteSetTheorems, TLAPS

Arguments == [card : Calls, approve : BOOLEAN, uses : 1..MaxUses]
Asked == {"resolve", "publish", "grant", "done"}

\* A thread that is past the step that fixes a local variable has a value in it.
ThreadsOK ==
  /\ \A r \in Requests : rpc[r] \in Asked => req[r] \in Arguments
  /\ \A r \in Requests : rpc[r] = "grant" => req[r].approve
  /\ \A c \in Calls : pc[c] = "consume" => found[c] \in Requests

TypeInv == TypeOK /\ ThreadsOK

-----------------------------------------------------------------------------
(* Type correctness.                                                       *)

\* What the assumptions on the times say, one fact at a time.
LEMMA Times ==
  /\ Budget \in Nat /\ Ceiling \in Nat /\ Keep \in Nat
  /\ GrantTTL \in Nat /\ DenialWindow \in Nat /\ MaxUses \in Nat
  /\ GrantTTL > 0 /\ DenialWindow > 0 /\ MaxUses > 0
  /\ DenialWindow <= Keep
BY TimesAssumption

\* The initial state has the declared shape.
LEMMA InitType == Init => TypeInv
<1> SUFFICES ASSUME Init PROVE TypeInv
  OBVIOUS
<1>1. TypeOK
  BY Times DEF Init, TypeOK, Statuses, Methods, Deciders, Routes, Undecided, NoRequest, Idle
<1>2. ThreadsOK
  BY DEF Init, ThreadsOK, Asked
<1> QED
  BY <1>1, <1>2 DEF TypeInv

\* Each step of a call thread keeps the shape of the state.
LEMMA CallType ==
  ASSUME TypeInv, NEW c \in Calls, CallStep(c)
  PROVE  TypeInv'
<1> USE CallsAssumption, Times DEF TypeInv, cardVars, grantVars, callVars, reqVars
<1>1. CASE Decide(c)
  <2>1. /\ pc[c] = "new"
        /\ UNCHANGED <<cardVars, grantVars, found, seen, reqVars, hk>>
    BY <1>1 DEF Decide
  <2>2. \/ /\ \E rt \in {"ALLOW", "HALT"} : Answer(c, rt, "gate", NoOperator)
           /\ RecordDenial(c) \/ UNCHANGED denialLeft
        \/ /\ pc' = [pc EXCEPT ![c] = "review"]
           /\ UNCHANGED <<decision, denialLeft>>
    BY <1>1 DEF Decide
  <2>3. denialLeft' \in [Intents -> 0..DenialWindow]
    BY <2>2 DEF RecordDenial, TypeOK
  <2>4. decision' \in [Calls -> [route : Routes, method : Methods, operator : Deciders]]
    BY <2>2 DEF Answer, TypeOK, Routes, Methods, Deciders
  <2>5. /\ pc' \in [Calls -> {"new", "review", "consume", "open", "waiting", "woken", "done"}]
        /\ \A d \in Calls : pc'[d] = "consume" => pc[d] = "consume"
    BY <2>2 DEF Answer, TypeOK
  <2> QED
    BY <2>1, <2>3, <2>4, <2>5 DEF TypeOK, ThreadsOK
<1>2. CASE FindGrant(c)
  <2>1. /\ pc[c] = "review"
        /\ UNCHANGED <<cardVars, usesLeft, ttl, denialLeft, seen, decision, reqVars, hk>>
    BY <1>2 DEF FindGrant
  <2>2. \/ /\ \E g \in Requests : found' = [found EXCEPT ![c] = g]
           /\ pc' = [pc EXCEPT ![c] = "consume"]
           /\ UNCHANGED grants
        \/ /\ UNCHANGED found
           /\ pc' = [pc EXCEPT ![c] = "open"]
           /\ grants' = [grants EXCEPT ![GrantKey(c)] = NoGrant] \/ UNCHANGED grants
    BY <1>2 DEF FindGrant, LiveGrants
  <2>3. grants' \in [Intents -> Requests \union {NoGrant}]
    BY <2>2 DEF TypeOK
  <2> DEFINE FoundOK == /\ found \in [Calls -> Requests \union {NoGrant}]
                        /\ pc \in [Calls -> {"new", "review", "consume", "open",
                                            "waiting", "woken", "done"}]
                        /\ \A d \in Calls : pc[d] = "consume" => found[d] \in Requests
  <2>4. FoundOK'
    <3>1. ASSUME NEW g \in Requests, found' = [found EXCEPT ![c] = g],
                 pc' = [pc EXCEPT ![c] = "consume"]
          PROVE  FoundOK'
      BY <3>1 DEF TypeOK, ThreadsOK
    <3>2. CASE UNCHANGED found /\ pc' = [pc EXCEPT ![c] = "open"]
      BY <3>2 DEF TypeOK, ThreadsOK
    <3> QED
      BY <2>2, <3>1, <3>2
  <2> QED
    BY <2>1, <2>3, <2>4 DEF TypeOK, ThreadsOK
<1>3. CASE ConsumeGrant(c)
  <2>1. found[c] \in Requests
    BY <1>3 DEF ConsumeGrant, ThreadsOK
  <2>2. usesLeft' \in [Requests -> 0..MaxUses]
    BY <1>3, <2>1 DEF ConsumeGrant, Spend, TypeOK
  <2> QED
    BY <1>3, <2>1, <2>2 DEF ConsumeGrant, Answer, TypeOK, ThreadsOK, Routes, Methods, Deciders
<1>4. CASE OpenCard(c)
  BY <1>4 DEF OpenCard, TypeOK, ThreadsOK, Statuses
<1>5. CASE Wake(c)
  BY <1>5 DEF Wake, TypeOK, ThreadsOK
<1>6. CASE ActApproved(c)
  BY <1>6 DEF ActApproved, Answer, TypeOK, ThreadsOK, Routes, Methods
<1>7. CASE ActDenied(c)
  BY <1>7 DEF ActDenied, Answer, RecordDenial, TypeOK, ThreadsOK, Routes, Methods
<1>8. CASE ActSuspend(c)
  BY <1>8 DEF ActSuspend, Answer, TypeOK, ThreadsOK, Statuses, Routes, Methods, Deciders
<1> QED
  BY <1>1, <1>2, <1>3, <1>4, <1>5, <1>6, <1>7, <1>8 DEF CallStep

\* Each step of a request thread keeps the shape of the state.
LEMMA RequestType ==
  ASSUME TypeInv, NEW r \in Requests, RequestStep(r)
  PROVE  TypeInv'
<1> USE CallsAssumption, Times DEF TypeInv, cardVars, grantVars, callVars, reqVars
<1>1. CASE Check(r)
  <2>1. /\ UNCHANGED <<cardVars, grantVars, denialLeft, callVars, hk>>
        /\ \/ /\ rpc' = [rpc EXCEPT ![r] = "resolve"]
              /\ \E x \in Arguments : req' = [req EXCEPT ![r] = x]
           \/ /\ rpc' = [rpc EXCEPT ![r] = "rejected"]
              /\ UNCHANGED req
    BY <1>1 DEF Check, Arguments
  <2> DEFINE ReqOK ==
        /\ rpc \in [Requests -> {"new", "rejected", "resolve", "publish", "grant", "done"}]
        /\ req \in [Requests -> Arguments \union {NoRequest}]
        /\ \A q \in Requests : rpc[q] \in Asked => req[q] \in Arguments
        /\ \A q \in Requests : rpc[q] = "grant" => req[q].approve
  <2>2. ReqOK'
    <3>1. ASSUME NEW x \in Arguments, req' = [req EXCEPT ![r] = x],
                 rpc' = [rpc EXCEPT ![r] = "resolve"]
          PROVE  ReqOK'
      BY <3>1 DEF TypeOK, ThreadsOK, Arguments
    <3>2. CASE UNCHANGED req /\ rpc' = [rpc EXCEPT ![r] = "rejected"]
      BY <3>2 DEF TypeOK, ThreadsOK, Arguments, Asked
    <3> QED
      BY <2>1, <3>1, <3>2
  <2> QED
    BY <2>1, <2>2 DEF TypeOK, ThreadsOK, Arguments
<1>2. CASE SetStatus(r)
  BY <1>2 DEF SetStatus, TypeOK, ThreadsOK, Asked, Arguments, Statuses
<1>3. CASE Publish(r)
  BY <1>3 DEF Publish, TypeOK, ThreadsOK, Asked, Arguments, Deciders
<1>4. CASE IssueGrant(r)
  <2>1. req[r] \in Arguments
    BY <1>4 DEF IssueGrant, ThreadsOK, Asked
  <2> QED
    <3>1. rpc' \in [Requests -> {"new", "rejected", "resolve", "publish", "grant", "done"}]
      BY <1>4 DEF IssueGrant, TypeOK
    <3>2. /\ \A q \in Requests : rpc'[q] \in Asked => req'[q] \in Arguments
          /\ \A q \in Requests : rpc'[q] = "grant" => req'[q].approve
      BY <1>4, <2>1 DEF IssueGrant, TypeOK, ThreadsOK
    <3>3. grants' \in [Intents -> Requests \union {NoGrant}]
      BY <1>4 DEF IssueGrant, TypeOK
    <3>4. usesLeft' \in [Requests -> 0..MaxUses] /\ ttl' \in [Requests -> 0..GrantTTL]
      BY <1>4, <2>1 DEF IssueGrant, TypeOK, Arguments
    <3> QED
      BY <1>4, <3>1, <3>2, <3>3, <3>4 DEF IssueGrant, TypeOK, ThreadsOK
<1> QED
  BY <1>1, <1>2, <1>3, <1>4 DEF RequestStep

\* Housekeeping and time keep the shape of the state.
LEMMA HkType ==
  ASSUME TypeInv, HkStep \/ Tick \/ UNCHANGED vars
  PROVE  TypeInv'
<1> USE CallsAssumption, Times DEF TypeInv, cardVars, grantVars, callVars, reqVars
<1>1. ASSUME NEW c \in Calls, HkCheck(c) PROVE TypeInv'
  BY <1>1 DEF HkCheck, TypeOK, ThreadsOK
<1>2. CASE HkSetStatus
  BY <1>2 DEF HkSetStatus, TypeOK, ThreadsOK, Statuses, Idle
<1>3. CASE HkPublish
  BY <1>3 DEF HkPublish, TypeOK, ThreadsOK, Deciders, Idle
<1>4. CASE Prune
  BY <1>4 DEF Prune, TypeOK, ThreadsOK
<1>5. CASE Tick
  BY <1>5 DEF Tick, Elapse, TypeOK, ThreadsOK
<1>6. CASE UNCHANGED vars
  BY <1>6 DEF vars, TypeOK, ThreadsOK
<1> QED
  BY <1>1, <1>2, <1>3, <1>4, <1>5, <1>6 DEF HkStep

\* The shape of the state is preserved by every step.
LEMMA NextType == TypeInv /\ [Next]_vars => TypeInv'
BY CallType, RequestType, HkType DEF Next

\* Every reachable state has the declared shape; in particular no grant's
\* uses_left ever leaves 0..MaxUses, however many calls consume it at once.
THEOREM TypeCorrect == Spec => []TypeOK
<1>1. Spec => []TypeInv
  BY InitType, NextType, PTL DEF Spec
<1> QED
  BY <1>1, PTL DEF TypeInv

-----------------------------------------------------------------------------
(* Consent: a reviewed call runs only on a human's approval.               *)

ApprovedCard(c) == \E r \in Requests : Approved(r) /\ req[r].card = c

\* Request r has put a grant under the key of intent i.
Issued(r, i) ==
  /\ rpc[r] = "done" /\ req[r].approve
  /\ IntentOf[req[r].card] = i
  /\ req[r].card \notin AlwaysDenied

\* Neither a card nor a grant says more than the requests that wrote it.  What
\* a waiter has read and what a call has found are covered too: they are used
\* after the card or the grant may have changed.
ConsentInv ==
  /\ \A c \in Calls : status[c] = "APPROVED" => ApprovedCard(c)
  /\ \A c \in Calls : seen[c] = "APPROVED" => ApprovedCard(c)
  /\ \A i \in Intents : grants[i] \in Requests => Issued(grants[i], i)
  /\ \A c \in Calls : pc[c] = "consume" => /\ c \notin AlwaysDenied
                                         /\ Issued(found[c], IntentOf[c])
  /\ \A c \in AlwaysDenied : decision[c].method # "standing_grant"
  /\ ApprovedBeforeRun

\* A request that has resolved its card stays resolved, the same way.
Kept(r) ==
  /\ Resolved(r) => Resolved(r)' /\ req'[r] = req[r]
  /\ rpc[r] = "done" => rpc'[r] = "done"

LEMMA RequestsPersist ==
  ASSUME TypeInv, [Next]_vars
  PROVE  \A r \in Requests : Kept(r)
<1> USE DEF TypeInv, TypeOK, Kept, Resolved
<1>1. CASE UNCHANGED reqVars
  BY <1>1 DEF reqVars
<1>2. ASSUME NEW q \in Requests, Check(q) PROVE \A r \in Requests : Kept(r)
  <2>1. \A r \in Requests : r # q => rpc'[r] = rpc[r] /\ req'[r] = req[r]
    BY <1>2 DEF Check
  <2> QED
    BY <1>2, <2>1 DEF Check
<1>3. ASSUME NEW q \in Requests, SetStatus(q) PROVE \A r \in Requests : Kept(r)
  BY <1>3 DEF SetStatus
<1>4. ASSUME NEW q \in Requests, Publish(q) PROVE \A r \in Requests : Kept(r)
  BY <1>4 DEF Publish
<1>5. ASSUME NEW q \in Requests, IssueGrant(q) PROVE \A r \in Requests : Kept(r)
  BY <1>5 DEF IssueGrant
<1>6. ASSUME NEW c \in Calls, CallStep(c) PROVE UNCHANGED reqVars
  BY <1>6 DEF CallStep, Decide, FindGrant, ConsumeGrant, OpenCard, Wake,
              ActApproved, ActDenied, ActSuspend
<1>7. ASSUME HkStep PROVE UNCHANGED reqVars
  BY <1>7 DEF HkStep, HkCheck, HkSetStatus, HkPublish, Prune
<1>8. ASSUME Tick \/ UNCHANGED vars PROVE UNCHANGED reqVars
  BY <1>8 DEF Tick, vars
<1> QED
  BY <1>1, <1>2, <1>3, <1>4, <1>5, <1>6, <1>7, <1>8 DEF Next, RequestStep

\* What was approved or issued before a step is so after it.
LEMMA ConsentPersists ==
  ASSUME TypeInv, [Next]_vars
  PROVE  /\ \A r \in Requests : Approved(r) => Approved(r)' /\ req'[r] = req[r]
         /\ \A c \in Calls : ApprovedCard(c) => ApprovedCard(c)'
         /\ \A r \in Requests, i \in Intents : Issued(r, i) => Issued(r, i)'
         /\ ApprovedBeforeRun /\ UNCHANGED decision => ApprovedBeforeRun'
<1>1. \A r \in Requests : Kept(r)
  BY RequestsPersist
<1>2. \A r \in Requests : Approved(r) => Approved(r)' /\ req'[r] = req[r]
  BY <1>1 DEF Kept, Approved
<1>3. \A c \in Calls : ApprovedCard(c) => ApprovedCard(c)'
  BY <1>2 DEF ApprovedCard
<1>4. \A r \in Requests, i \in Intents : Issued(r, i) => Issued(r, i)'
  BY <1>1 DEF Kept, Issued, Resolved
<1>5. ASSUME ApprovedBeforeRun, UNCHANGED decision PROVE ApprovedBeforeRun'
  <2> SUFFICES ASSUME NEW c \in Calls
               PROVE  /\ decision'[c].method = "approval" => ApprovedCard(c)'
                      /\ decision'[c].method = "standing_grant" =>
                           \E r \in Requests : /\ Approved(r)'
                                              /\ IntentOf[req'[r].card] = IntentOf[c]
                                              /\ decision'[c].operator = r
    BY DEF ApprovedBeforeRun, ApprovedCard
  <2>1. ASSUME decision'[c].method = "approval" PROVE ApprovedCard(c)'
    BY <1>3, <1>5, <2>1 DEF ApprovedBeforeRun, ApprovedCard
  <2>2. ASSUME decision'[c].method = "standing_grant"
        PROVE  \E r \in Requests : /\ Approved(r)'
                                  /\ IntentOf[req'[r].card] = IntentOf[c]
                                  /\ decision'[c].operator = r
    BY <1>2, <1>5, <2>2 DEF ApprovedBeforeRun
  <2> QED
    BY <2>1, <2>2
<1> QED
  BY <1>2, <1>3, <1>4, <1>5

\* Nothing is approved, found or decided at the start.
LEMMA ConsentInit == Init => ConsentInv
BY NamesAssumption, CallsAssumption DEF Init, ConsentInv, ApprovedBeforeRun, Undecided

\* A step that writes no card, grant, or call variable keeps consent.
LEMMA ConsentFrame ==
  ASSUME TypeInv, [Next]_vars, ConsentInv,
         UNCHANGED <<status, grants, seen, pc, found, decision>>
  PROVE  ConsentInv'
BY ConsentPersists, CallsAssumption DEF ConsentInv, TypeInv, TypeOK, ThreadsOK

\* A call thread's step keeps consent.
LEMMA ConsentCall ==
  ASSUME TypeInv, ConsentInv, NEW c \in Calls, CallStep(c)
  PROVE  ConsentInv'
<1> USE CallsAssumption DEF TypeInv, cardVars, grantVars, callVars, reqVars
<1>0. /\ \A r \in Requests : Approved(r) => Approved(r)' /\ req'[r] = req[r]
      /\ \A d \in Calls : ApprovedCard(d) => ApprovedCard(d)'
      /\ \A r \in Requests, i \in Intents : Issued(r, i) => Issued(r, i)'
      /\ ApprovedBeforeRun /\ UNCHANGED decision => ApprovedBeforeRun'
  <2>1. [Next]_vars
    BY DEF Next
  <2> QED
    BY <2>1, ConsentPersists
<1> DEFINE
  Cards   == \A d \in Calls : status[d] = "APPROVED" => ApprovedCard(d)
  Seen    == \A d \in Calls : seen[d] = "APPROVED" => ApprovedCard(d)
  Granted == \A i \in Intents : grants[i] \in Requests => Issued(grants[i], i)
  Finds   == \A d \in Calls : pc[d] = "consume" =>
                                d \notin AlwaysDenied /\ Issued(found[d], IntentOf[d])
  Classes == \A d \in AlwaysDenied : decision[d].method # "standing_grant"
\* An answer by the gate or by a denial needs no approval.
<1>a. ASSUME NEW route, NEW method \in {"gate", "denial", "none"}, NEW who,
             Answer(c, route, method, who)
      PROVE  Classes' /\ ApprovedBeforeRun'
  <2>1. /\ decision'[c].method = method
        /\ \A d \in Calls : d # c => decision'[d] = decision[d]
    BY <1>a DEF Answer, TypeOK
  <2>2. Classes'
    BY <2>1 DEF ConsentInv
  <2>3. ApprovedBeforeRun'
    BY <1>0, <2>1 DEF ConsentInv, ApprovedBeforeRun, ApprovedCard
  <2> QED
    BY <2>2, <2>3
<1>1. CASE Decide(c)
  <2>1. UNCHANGED <<status, grants, seen, found>>
    BY <1>1 DEF Decide
  <2>2. \A d \in Calls : pc'[d] = "consume" => pc[d] = "consume"
    BY <1>1 DEF Decide, Answer, TypeOK
  <2>3. Classes' /\ ApprovedBeforeRun'
    <3>1. \/ \E rt \in {"ALLOW", "HALT"} : Answer(c, rt, "gate", NoOperator)
          \/ UNCHANGED decision
      BY <1>1 DEF Decide
    <3>2. CASE UNCHANGED decision
      BY <1>0, <3>2 DEF ConsentInv
    <3> QED
      BY <1>a, <3>1, <3>2
  <2> QED
    BY <1>0, <2>1, <2>2, <2>3 DEF ConsentInv, ThreadsOK, TypeOK
<1>2. CASE FindGrant(c)
  <2>1. UNCHANGED <<status, seen, decision>>
    BY <1>2 DEF FindGrant
  <2>2. \A i \in Intents : grants'[i] = grants[i] \/ grants'[i] = NoGrant
    BY <1>2 DEF FindGrant, TypeOK
  <2>3. /\ \A d \in Calls : d # c => pc'[d] = pc[d] /\ found'[d] = found[d]
        /\ pc'[c] = "consume" => /\ c \notin AlwaysDenied
                                 /\ found'[c] \in Requests
                                 /\ found'[c] = grants[IntentOf[c]]
    <3>1. CASE /\ c \notin AlwaysDenied
               /\ \E g \in LiveGrants(IntentOf[c]) : found' = [found EXCEPT ![c] = g]
               /\ pc' = [pc EXCEPT ![c] = "consume"]
      BY <3>1 DEF LiveGrants, TypeOK
    <3>2. CASE pc' = [pc EXCEPT ![c] = "open"] /\ UNCHANGED found
      BY <3>2 DEF TypeOK
    <3> QED
      BY <1>2, <3>1, <3>2 DEF FindGrant, Grantable, GrantKey
  <2>4. Granted'
    BY <1>0, <2>2, NamesAssumption DEF ConsentInv
  <2>5. Finds'
    BY <1>0, <2>3 DEF ConsentInv, ThreadsOK
  <2> QED
    BY <1>0, <2>1, <2>4, <2>5 DEF ConsentInv
<1>3. CASE ConsumeGrant(c)
  <2>1. UNCHANGED <<status, seen, grants, found>>
    BY <1>3 DEF ConsumeGrant
  <2>2. /\ found[c] \in Requests /\ Issued(found[c], IntentOf[c])
        /\ c \notin AlwaysDenied
    BY <1>3 DEF ConsumeGrant, ConsentInv, ThreadsOK
  <2>3. /\ decision'[c].method = "standing_grant" /\ decision'[c].operator = found[c]
        /\ \A d \in Calls : d # c => decision'[d] = decision[d] /\ pc'[d] = pc[d]
        /\ pc'[c] = "done"
    BY <1>3 DEF ConsumeGrant, Answer, TypeOK
  <2>4. Classes'
    BY <2>2, <2>3 DEF ConsentInv
  <2>5. \E r \in Requests : /\ Approved(r)' /\ IntentOf[req'[r].card] = IntentOf[c]
                           /\ decision'[c].operator = r
    <3>1. PICK r \in Requests : r = found[c] /\ Issued(r, IntentOf[c])
      BY <2>2
    <3>2. Approved(r)' /\ req'[r] = req[r]
      BY <1>0, <3>1 DEF Issued, Approved, Resolved
    <3> QED
      BY <2>3, <3>1, <3>2 DEF Issued
  <2>6. ApprovedBeforeRun'
    BY <1>0, <2>3, <2>5 DEF ConsentInv, ApprovedBeforeRun, ApprovedCard
  <2>7. Finds'
    BY <1>0, <2>1, <2>3 DEF ConsentInv, ThreadsOK
  <2> QED
    BY <1>0, <2>1, <2>4, <2>6, <2>7 DEF ConsentInv
<1>4. CASE OpenCard(c)
  <2>1. /\ UNCHANGED <<grants, seen, found, decision>>
        /\ \A d \in Calls : status'[d] = "APPROVED" => status[d] = "APPROVED"
        /\ \A d \in Calls : pc'[d] = "consume" => pc[d] = "consume"
    BY <1>4 DEF OpenCard, TypeOK
  <2> QED
    BY <1>0, <2>1 DEF ConsentInv, ThreadsOK
<1>5. CASE Wake(c)
  <2>1. /\ UNCHANGED <<grants, status, found, decision>>
        /\ \A d \in Calls : seen'[d] = seen[d] \/ seen'[d] = status[d]
        /\ \A d \in Calls : pc'[d] = "consume" => pc[d] = "consume"
    BY <1>5 DEF Wake, TypeOK
  <2> QED
    BY <1>0, <2>1 DEF ConsentInv, ThreadsOK
<1>6. CASE ActApproved(c)
  <2>1. UNCHANGED <<status, seen, grants, found>> /\ ApprovedCard(c)
    BY <1>6 DEF ActApproved, ConsentInv
  <2>2. /\ decision'[c].method = "approval"
        /\ \A d \in Calls : d # c => decision'[d] = decision[d]
        /\ \A d \in Calls : pc'[d] = "consume" => pc[d] = "consume"
    BY <1>6 DEF ActApproved, Answer, TypeOK
  <2>3. Classes'
    BY <2>2 DEF ConsentInv
  <2>4. ApprovedBeforeRun'
    BY <1>0, <2>1, <2>2 DEF ConsentInv, ApprovedBeforeRun, ApprovedCard
  <2> QED
    BY <1>0, <2>1, <2>2, <2>3, <2>4 DEF ConsentInv, ThreadsOK
<1>7. CASE ActDenied(c)
  <2>1. UNCHANGED <<status, seen, grants, found>>
    BY <1>7 DEF ActDenied
  <2>2. Classes' /\ ApprovedBeforeRun'
    BY <1>7, <1>a DEF ActDenied
  <2>3. \A d \in Calls : pc'[d] = "consume" => pc[d] = "consume"
    BY <1>7 DEF ActDenied, Answer, TypeOK
  <2> QED
    BY <1>0, <2>1, <2>2, <2>3 DEF ConsentInv, ThreadsOK
<1>8. CASE ActSuspend(c)
  <2>1. UNCHANGED <<seen, grants, found>>
    BY <1>8 DEF ActSuspend
  <2>2. Classes' /\ ApprovedBeforeRun'
    BY <1>8, <1>a DEF ActSuspend
  <2>3. /\ \A d \in Calls : pc'[d] = "consume" => pc[d] = "consume"
        /\ \A d \in Calls : status'[d] = "APPROVED" => status[d] = "APPROVED"
    BY <1>8 DEF ActSuspend, Answer, TypeOK
  <2> QED
    BY <1>0, <2>1, <2>2, <2>3 DEF ConsentInv, ThreadsOK
<1> QED
  BY <1>1, <1>2, <1>3, <1>4, <1>5, <1>6, <1>7, <1>8 DEF CallStep

\* A request's step keeps consent: it is what makes it.
LEMMA ConsentRequest ==
  ASSUME TypeInv, ConsentInv, NEW r \in Requests, RequestStep(r)
  PROVE  ConsentInv'
<1> USE DEF TypeInv, cardVars, grantVars, callVars, reqVars
<1>0. [Next]_vars
  BY DEF Next
<1>1. CASE Check(r) \/ Publish(r)
  BY <1>0, <1>1, ConsentFrame DEF Check, Publish
<1>2. CASE SetStatus(r)
  <2>1. UNCHANGED <<grants, seen, pc, found, decision>>
    BY <1>2 DEF SetStatus
  <2>2. Resolved(r)' /\ req' = req /\ req[r] \in Arguments
    BY <1>2 DEF SetStatus, Resolved, TypeOK, ThreadsOK, Asked
  <2>3. \A d \in Calls : status'[d] = "APPROVED" => ApprovedCard(d)'
    <3> SUFFICES ASSUME NEW d \in Calls, status'[d] = "APPROVED"
                 PROVE  ApprovedCard(d)'
      OBVIOUS
    <3>1. CASE d = req[r].card
      <4>1. req[r].approve
        BY <1>2, <3>1 DEF SetStatus, TypeOK
      <4> QED
        BY <2>2, <3>1, <4>1 DEF ApprovedCard, Approved
    <3>2. CASE d # req[r].card
      <4>1. status[d] = "APPROVED"
        BY <1>2, <3>2 DEF SetStatus, TypeOK
      <4> QED
        BY <1>0, <4>1, ConsentPersists DEF ConsentInv
    <3> QED
      BY <3>1, <3>2
  <2> QED
    BY <1>0, <2>1, <2>3, ConsentPersists, CallsAssumption DEF ConsentInv, TypeOK, ThreadsOK
<1>3. CASE IssueGrant(r)
  <2>1. UNCHANGED <<status, seen, pc, found, decision>>
    BY <1>3 DEF IssueGrant
  <2>2. rpc'[r] = "done" /\ req' = req /\ req[r] \in Arguments
    BY <1>3 DEF IssueGrant, TypeOK, ThreadsOK, Asked
  <2>3. \A i \in Intents :
          \/ grants'[i] = grants[i]
          \/ /\ grants'[i] = r
             /\ i = IntentOf[req[r].card]
             /\ req[r].card \notin AlwaysDenied
    <3>1. grants \in [Intents -> Requests \union {NoGrant}]
      BY DEF TypeOK
    <3>2. \/ UNCHANGED grants
          \/ /\ req[r].card \notin AlwaysDenied
             /\ grants' = [grants EXCEPT ![IntentOf[req[r].card]] = r]
      BY <1>3 DEF IssueGrant, Grantable, GrantKey
    <3> QED
      BY <3>1, <3>2
  <2>4. req[r].approve
    BY <1>3 DEF IssueGrant, ThreadsOK
  <2>5. (\A i \in Intents : grants[i] \in Requests => Issued(grants[i], i))'
    <3> SUFFICES ASSUME NEW i \in Intents, NEW g \in Requests, grants'[i] = g
                 PROVE  Issued(g, i)'
      OBVIOUS
    <3>1. CASE grants[i] = g
      BY <1>0, <3>1, ConsentPersists DEF ConsentInv
    <3>2. CASE g = r /\ i = IntentOf[req[r].card] /\ req[r].card \notin AlwaysDenied
      BY <2>2, <2>4, <3>2 DEF Issued
    <3> QED
      BY <2>3, <3>1, <3>2
  <2> QED
    BY <1>0, <2>1, <2>5, ConsentPersists, CallsAssumption DEF ConsentInv, TypeOK, ThreadsOK
<1> QED
  BY <1>1, <1>2, <1>3 DEF RequestStep

\* Housekeeping, time and stuttering keep consent.
LEMMA ConsentHk ==
  ASSUME TypeInv, ConsentInv, HkStep \/ Tick \/ UNCHANGED vars
  PROVE  ConsentInv'
<1> USE DEF TypeInv, cardVars, grantVars, callVars, reqVars
<1>0. [Next]_vars
  BY DEF Next
<1>1. CASE Prune \/ HkPublish \/ Tick \/ UNCHANGED vars \/ \E c \in Calls : HkCheck(c)
  <2>1. UNCHANGED <<status, grants, seen, pc, found, decision>>
    BY <1>1 DEF Prune, HkPublish, Tick, vars, HkCheck
  <2> QED
    BY <1>0, <2>1, ConsentFrame
<1>2. CASE HkSetStatus
  <2>1. /\ UNCHANGED <<grants, seen, pc, found, decision>>
        /\ \A c \in Calls : status'[c] = "APPROVED" => status[c] = "APPROVED"
    BY <1>2 DEF HkSetStatus, TypeOK
  <2> QED
    BY <1>0, <2>1, ConsentPersists, CallsAssumption DEF ConsentInv, TypeOK, ThreadsOK
<1> QED
  BY <1>1, <1>2 DEF HkStep

\* Every reachable state keeps consent.
LEMMA ConsentAlways == Spec => [](TypeInv /\ ConsentInv)
<1>1. Init => TypeInv /\ ConsentInv
  BY InitType, ConsentInit
<1>2. TypeInv /\ ConsentInv /\ [Next]_vars => (TypeInv /\ ConsentInv)'
  BY NextType, ConsentCall, ConsentRequest, ConsentHk DEF Next
<1> QED
  BY <1>1, <1>2, PTL DEF Spec

\* A call that the gate sent to review runs only if a human approved its card,
\* or a card of the same session and intent: through every race between the
\* wait running out, several operators, expiry and concurrent retries.
THEOREM RunsOnlyOnApproval == Spec => []ApprovedBeforeRun
BY ConsentAlways, PTL DEF ConsentInv

\* No grant exists for an always-denied class and no call of one runs on a
\* grant, whatever fingerprints it shares with harmless calls.
THEOREM DeniedClassNeverGranted == Spec => []NoGrantForDeniedClass
<1>1. TypeInv /\ ConsentInv => NoGrantForDeniedClass
  BY DEF TypeInv, TypeOK, ConsentInv, Issued, NoGrantForDeniedClass
<1> QED
  BY <1>1, ConsentAlways, PTL

-----------------------------------------------------------------------------
(* Cards: what the console shows of a call is what became of it.           *)

\* A card exists only for a call that has come to the wait, and only an
\* existing card is stored, resolved or expired.
CardInv ==
  /\ \A c \in Calls : status[c] # "none" => pc[c] \in {"waiting", "woken", "done"}
  /\ \A c \in store : status[c] # "none"
  /\ \A r \in Requests : rpc[r] \in Asked => status[req[r].card] # "none"
  /\ hk.pc # "idle" => status[hk.card] # "none"
  /\ \A c \in Calls : pc[c] = "woken" /\ seen[c] # "PENDING" => status[c] # "PENDING"
  /\ \A c \in Calls : pc[c] \in {"waiting", "woken"} \/ decision[c].method = "denial"
                      => status[c] # "none"
  /\ CardTracksCall

\* No card exists at the start.
LEMMA CardInit == Init => CardInv
BY DEF Init, CardInv, CardTracksCall, Asked, Idle, Undecided

\* A call thread's step keeps its card and itself in agreement.
LEMMA CardCall ==
  ASSUME TypeInv, CardInv, NEW c \in Calls, CallStep(c)
  PROVE  CardInv'
<1> USE DEF TypeInv, cardVars, grantVars, callVars, reqVars
\* Before the wait a call has no card, so its steps are nobody's business.
<1>a. ASSUME pc[c] \in {"new", "review", "consume", "open"},
             UNCHANGED <<store, status, seen, rpc, req, hk>>,
             pc'[c] \notin {"waiting", "woken"},
             decision'[c].method = "denial" => decision[c].method = "denial",
             \A d \in Calls : d # c => pc'[d] = pc[d] /\ decision'[d] = decision[d]
      PROVE  CardInv'
  <2>1. status[c] = "none"
    BY <1>a DEF CardInv
  <2>2. CardTracksCall'
    BY <1>a, <2>1 DEF CardInv, CardTracksCall
  <2> QED
    BY <1>a, <2>1, <2>2 DEF CardInv
<1>1. CASE Decide(c)
  <2>1. /\ pc'[c] \notin {"waiting", "woken"}
        /\ decision'[c].method = "denial" => decision[c].method = "denial"
        /\ \A d \in Calls : d # c => pc'[d] = pc[d] /\ decision'[d] = decision[d]
    BY <1>1 DEF Decide, Answer, TypeOK
  <2> QED
    BY <1>1, <1>a, <2>1 DEF Decide
<1>2. CASE FindGrant(c)
  <2>1. /\ pc'[c] \notin {"waiting", "woken"}
        /\ decision'[c].method = "denial" => decision[c].method = "denial"
        /\ \A d \in Calls : d # c => pc'[d] = pc[d]
    BY <1>2 DEF FindGrant, TypeOK
  <2> QED
    BY <1>2, <1>a, <2>1 DEF FindGrant
<1>3. CASE ConsumeGrant(c)
  <2>1. /\ pc'[c] \notin {"waiting", "woken"}
        /\ decision'[c].method = "denial" => decision[c].method = "denial"
        /\ \A d \in Calls : d # c => pc'[d] = pc[d] /\ decision'[d] = decision[d]
    BY <1>3 DEF ConsumeGrant, Answer, TypeOK
  <2> QED
    BY <1>3, <1>a, <2>1 DEF ConsumeGrant
<1>4. CASE OpenCard(c)
  <2>1. /\ \A d \in Calls : d # c => pc'[d] = pc[d] /\ status'[d] = status[d]
        /\ pc'[c] = "waiting" /\ status'[c] = "PENDING"
        /\ store' = store \union {c}
        /\ UNCHANGED <<seen, decision, rpc, req, hk>>
    BY <1>4 DEF OpenCard, TypeOK
  <2>2. CardTracksCall'
    BY <2>1 DEF CardInv, CardTracksCall
  <2>3. \A r \in Requests : rpc[r] \in Asked => req[r].card \in Calls
    BY DEF ThreadsOK, Arguments
  <2>4. hk.pc # "idle" => hk.card \in Calls
    BY DEF TypeOK, Idle
  <2> QED
    BY <2>1, <2>2, <2>3, <2>4 DEF CardInv, TypeOK
<1>5. CASE Wake(c)
  <2>1. /\ \A d \in Calls : d # c => pc'[d] = pc[d]
        /\ pc[c] = "waiting" /\ pc'[c] = "woken"
        /\ seen'[c] = status[c] /\ \A d \in Calls : d # c => seen'[d] = seen[d]
        /\ UNCHANGED <<status, store, decision, rpc, req, hk>>
    BY <1>5 DEF Wake, TypeOK
  <2> QED
    BY <2>1 DEF CardInv, CardTracksCall
<1>6. CASE ActApproved(c) \/ ActDenied(c) \/ ActSuspend(c)
  <2>1. /\ pc[c] = "woken" /\ pc'[c] = "done"
        /\ \A d \in Calls : d # c => /\ pc'[d] = pc[d] /\ status'[d] = status[d]
                                     /\ decision'[d] = decision[d]
        /\ UNCHANGED <<store, seen, rpc, req, hk>>
    BY <1>6 DEF ActApproved, ActDenied, ActSuspend, Answer, TypeOK
  <2>2. \/ status'[c] = status[c] /\ seen[c] \in {"APPROVED", "DENIED"}
        \/ status'[c] = "SUSPENDED" /\ decision'[c].route = "HALT"
    BY <1>6 DEF ActApproved, ActDenied, ActSuspend, Answer, TypeOK
  <2>3. status[c] \notin {"none", "SUSPENDED"}
    BY <2>1 DEF CardInv, CardTracksCall
  <2>4. /\ status'[c] \notin {"none", "PENDING"}
        /\ status'[c] = "SUSPENDED" => decision'[c].route = "HALT"
    BY <2>1, <2>2, <2>3 DEF CardInv
  <2>5. CardTracksCall'
    BY <2>1, <2>4 DEF CardInv, CardTracksCall
  <2>6. \A d \in Calls : status'[d] # "none" <=> status[d] # "none"
    BY <2>1, <2>3, <2>4
  <2>7. \A r \in Requests : rpc[r] \in Asked => req[r].card \in Calls
    BY DEF ThreadsOK, Arguments
  <2>8. hk.pc # "idle" => hk.card \in Calls
    BY DEF TypeOK, Idle
  <2> QED
    BY <2>1, <2>5, <2>6, <2>7, <2>8 DEF CardInv, TypeOK
<1> QED
  BY <1>1, <1>2, <1>3, <1>4, <1>5, <1>6 DEF CallStep

\* Requests, housekeeping and time keep cards and calls in agreement.
LEMMA CardOthers ==
  ASSUME TypeInv, CardInv,
         (\E r \in Requests : RequestStep(r)) \/ HkStep \/ Tick \/ UNCHANGED vars
  PROVE  CardInv'
<1> USE DEF TypeInv, cardVars, grantVars, callVars, reqVars
<1>1. ASSUME NEW r \in Requests, Check(r) PROVE CardInv'
  <2>1. UNCHANGED <<store, status, pc, seen, decision, hk>>
    BY <1>1 DEF Check
  <2>2. \A q \in Requests : q # r => rpc'[q] = rpc[q] /\ req'[q] = req[q]
    BY <1>1 DEF Check, TypeOK
  <2>3. rpc'[r] \in Asked => status[req'[r].card] # "none"
    <3>1. CASE rpc' = [rpc EXCEPT ![r] = "rejected"]
      BY <3>1 DEF TypeOK, Asked
    <3>2. ASSUME NEW c \in Calls, NEW a \in BOOLEAN, NEW n \in 1..MaxUses, c \in store,
                 req' = [req EXCEPT ![r] = [card |-> c, approve |-> a, uses |-> n]]
          PROVE  status[req'[r].card] # "none"
      <4>1. req'[r].card = c
        BY <3>2 DEF TypeOK
      <4> QED
        BY <3>2, <4>1 DEF CardInv
    <3> QED
      BY <1>1, <3>1, <3>2 DEF Check
  <2> QED
    BY <2>1, <2>2, <2>3 DEF CardInv, CardTracksCall
<1>2. ASSUME NEW r \in Requests, SetStatus(r) PROVE CardInv'
  <2>1. /\ UNCHANGED <<store, pc, seen, decision, req, hk>>
        /\ req[r].card \in Calls /\ status[req[r].card] # "none"
    BY <1>2 DEF SetStatus, CardInv, ThreadsOK, Arguments, Asked
  <2>2. \A c \in Calls : \/ status'[c] = status[c]
                         \/ status[c] # "none" /\ status'[c] \in {"APPROVED", "DENIED"}
    BY <1>2, <2>1 DEF SetStatus, TypeOK
  <2>3. \A q \in Requests : rpc'[q] \in Asked => rpc[q] \in Asked
    BY <1>2 DEF SetStatus, TypeOK, Asked
  <2>4. \A q \in Requests : rpc[q] \in Asked => req[q].card \in Calls
    BY DEF ThreadsOK, Arguments
  <2>5. hk.pc # "idle" => hk.card \in Calls
    BY DEF TypeOK, Idle
  <2> QED
    BY <2>1, <2>2, <2>3, <2>4, <2>5 DEF CardInv, CardTracksCall, TypeOK
<1>3. ASSUME NEW r \in Requests, Publish(r) \/ IssueGrant(r) PROVE CardInv'
  <2>1. UNCHANGED <<store, status, pc, seen, decision, req, hk>>
    BY <1>3 DEF Publish, IssueGrant
  <2>2. \A q \in Requests : rpc'[q] \in Asked => rpc[q] \in Asked
    BY <1>3 DEF Publish, IssueGrant, TypeOK, Asked
  <2> QED
    BY <2>1, <2>2 DEF CardInv, CardTracksCall
<1>4. ASSUME NEW c \in Calls, HkCheck(c) PROVE CardInv'
  BY <1>4 DEF HkCheck, CardInv, CardTracksCall
<1>5. CASE HkSetStatus
  <2>1. /\ UNCHANGED <<store, pc, seen, decision, rpc, req>>
        /\ hk'.pc = "publish" /\ hk'.card = hk.card
        /\ hk.card \in Calls /\ status[hk.card] # "none"
    BY <1>5 DEF HkSetStatus, CardInv, TypeOK, Idle
  <2>2. \A c \in Calls : \/ status'[c] = status[c]
                         \/ status[c] # "none" /\ status'[c] = "EXPIRED"
    BY <1>5, <2>1 DEF HkSetStatus, TypeOK
  <2>3. \A q \in Requests : rpc[q] \in Asked => req[q].card \in Calls
    BY DEF ThreadsOK, Arguments
  <2> QED
    BY <2>1, <2>2, <2>3 DEF CardInv, CardTracksCall, TypeOK
<1>6. CASE HkPublish
  BY <1>6 DEF HkPublish, CardInv, CardTracksCall, Idle
<1>7. CASE Prune
  BY <1>7 DEF Prune, Prunable, OpenStatus, CardInv, CardTracksCall
<1>8. CASE Tick \/ UNCHANGED vars
  BY <1>8 DEF Tick, vars, CardInv, CardTracksCall
<1> QED
  BY <1>1, <1>2, <1>3, <1>4, <1>5, <1>6, <1>7, <1>8 DEF RequestStep, HkStep

\* A PENDING card always has a call blocked on it and a place in the console;
\* a SUSPENDED card's call has been refused, so approving the card later cannot
\* release the call a second time.
THEOREM CardsTrackCalls == Spec => []CardTracksCall
<1>1. Init => TypeInv /\ CardInv
  BY InitType, CardInit
<1>2. TypeInv /\ CardInv /\ [Next]_vars => (TypeInv /\ CardInv)'
  BY NextType, CardCall, CardOthers DEF Next
<1>3. CardInv => CardTracksCall
  BY DEF CardInv
<1> QED
  BY <1>1, <1>2, <1>3, PTL DEF Spec

-----------------------------------------------------------------------------
(* Denials: what is remembered, and for how long.                          *)

\* A denial and the memory of it are made together, and from then on the card
\* ages as fast as the memory fades.
DenialInv ==
  /\ \A c \in Calls : pc[c] # "done" => decision[c] = Undecided
  /\ \A c \in Calls : decision[c].method = "denial" =>
                        age[c] + denialLeft[IntentOf[c]] >= DenialWindow
  /\ OnlyRefusalsAreRemembered

\* Nothing is denied or remembered at the start.
LEMMA DenialInit == Init => DenialInv
BY CallsAssumption DEF Init, DenialInv, OnlyRefusalsAreRemembered, Undecided

\* A step that neither answers a call nor touches the memory keeps it right.
LEMMA DenialFrame ==
  ASSUME TypeInv, DenialInv, UNCHANGED <<decision, denialLeft, age>>,
         \A c \in Calls : pc'[c] # "done" => pc[c] # "done"
  PROVE  DenialInv'
BY DEF DenialInv, OnlyRefusalsAreRemembered

\* A step of a call thread answers its own call only.
LEMMA AnswerAlone ==
  ASSUME TypeInv, NEW c \in Calls, NEW route, NEW method, NEW who,
         Answer(c, route, method, who)
  PROVE  /\ decision'[c].route = route /\ decision'[c].method = method /\ pc'[c] = "done"
         /\ \A d \in Calls : d # c => decision'[d] = decision[d] /\ pc'[d] = pc[d]
BY DEF Answer, TypeInv, TypeOK

\* A call thread's step keeps the memory right.
LEMMA DenialCall ==
  ASSUME TypeInv, DenialInv, NEW c \in Calls, CallStep(c)
  PROVE  DenialInv'
<1> USE CallsAssumption, Times DEF TypeInv, cardVars, grantVars, callVars, reqVars
<1>1. pc[c] # "done" /\ decision[c] = Undecided /\ UNCHANGED age
  BY DEF CallStep, Decide, FindGrant, ConsumeGrant, OpenCard, Wake, ActApproved,
         ActDenied, ActSuspend, DenialInv
\* A refusal that is remembered.
<1>2. ASSUME NEW who, NEW method \in {"gate", "denial"},
             Answer(c, "HALT", method, who), RecordDenial(c)
      PROVE  DenialInv'
  <2>1. /\ decision'[c].route = "HALT" /\ decision'[c].method = method /\ pc'[c] = "done"
        /\ \A d \in Calls : d # c => decision'[d] = decision[d] /\ pc'[d] = pc[d]
    BY <1>2, AnswerAlone
  <2>2. /\ denialLeft'[IntentOf[c]] = DenialWindow
        /\ \A i \in Intents : i # IntentOf[c] => denialLeft'[i] = denialLeft[i]
    BY <1>2 DEF RecordDenial, TypeOK
  <2>3. \A d \in Calls : decision'[d].method = "denial" =>
                           age'[d] + denialLeft'[IntentOf[d]] >= DenialWindow
    <3> SUFFICES ASSUME NEW d \in Calls, decision'[d].method = "denial"
                 PROVE  age'[d] + denialLeft'[IntentOf[d]] >= DenialWindow
      OBVIOUS
    <3>1. age[d] \in Nat /\ age'[d] = age[d]
      BY <1>1 DEF TypeOK
    <3>2. CASE IntentOf[d] = IntentOf[c]
      BY <2>2, <3>1, <3>2
    <3>3. CASE IntentOf[d] # IntentOf[c]
      BY <2>1, <2>2, <3>1, <3>3 DEF DenialInv
    <3> QED
      BY <3>2, <3>3
  <2>4. OnlyRefusalsAreRemembered'
    BY <1>1, <2>1, <2>2 DEF DenialInv, OnlyRefusalsAreRemembered, Undecided
  <2> QED
    BY <2>1, <2>3, <2>4 DEF DenialInv
\* An answer that leaves the memory alone.
<1>3. ASSUME NEW route, NEW who, NEW method \in {"gate", "standing_grant", "approval", "none"},
             Answer(c, route, method, who), UNCHANGED denialLeft
      PROVE  DenialInv'
  <2>1. /\ decision'[c].method = method /\ pc'[c] = "done"
        /\ \A d \in Calls : d # c => decision'[d] = decision[d] /\ pc'[d] = pc[d]
    BY <1>3, AnswerAlone
  <2>2. \A d \in Calls : decision'[d].method = "denial" =>
                           age'[d] + denialLeft'[IntentOf[d]] >= DenialWindow
    BY <1>1, <1>3, <2>1 DEF DenialInv
  <2>3. OnlyRefusalsAreRemembered'
    BY <1>1, <1>3, <2>1 DEF DenialInv, OnlyRefusalsAreRemembered, Undecided
  <2> QED
    BY <2>1, <2>2, <2>3 DEF DenialInv
<1>4. CASE Decide(c)
  <2>1. CASE Answer(c, "HALT", "gate", NoOperator) /\ RecordDenial(c)
    BY <1>2, <2>1
  <2>2. CASE Answer(c, "ALLOW", "gate", NoOperator) /\ UNCHANGED denialLeft
    BY <1>3, <2>2
  <2>3. CASE pc' = [pc EXCEPT ![c] = "review"] /\ UNCHANGED <<decision, denialLeft>>
    BY <1>1, <2>3, DenialFrame DEF TypeOK
  <2> QED
    BY <1>4, <2>1, <2>2, <2>3 DEF Decide
<1>5. CASE FindGrant(c) \/ OpenCard(c) \/ Wake(c)
  <2>1. UNCHANGED <<decision, denialLeft, age>>
    BY <1>5 DEF FindGrant, OpenCard, Wake
  <2>2. \A d \in Calls : pc'[d] # "done" => pc[d] # "done"
    BY <1>1, <1>5 DEF FindGrant, OpenCard, Wake, TypeOK
  <2> QED
    BY <2>1, <2>2, DenialFrame
<1>6. CASE ConsumeGrant(c)
  BY <1>3, <1>6 DEF ConsumeGrant
<1>7. CASE ActApproved(c)
  BY <1>3, <1>7 DEF ActApproved
<1>8. CASE ActDenied(c)
  BY <1>2, <1>8 DEF ActDenied
<1>9. CASE ActSuspend(c)
  BY <1>3, <1>9 DEF ActSuspend
<1> QED
  BY <1>4, <1>5, <1>6, <1>7, <1>8, <1>9 DEF CallStep

\* Everyone else's steps keep the memory right; a tick ages the card and the
\* memory alike.
LEMMA DenialOthers ==
  ASSUME TypeInv, CardInv, DenialInv,
         (\E r \in Requests : RequestStep(r)) \/ HkStep \/ Tick \/ UNCHANGED vars
  PROVE  DenialInv'
<1> USE DEF TypeInv, cardVars, grantVars, callVars, reqVars
<1>1. CASE UNCHANGED <<decision, denialLeft, age, pc>>
  BY <1>1, DenialFrame
<1>2. CASE Tick
  <2>1. UNCHANGED <<decision, pc>>
    BY <1>2 DEF Tick
  <2>2. \A i \in Intents : denialLeft'[i] > 0 => denialLeft[i] > 0
    BY <1>2 DEF Tick, Elapse, TypeOK
  <2>3. ASSUME NEW d \in Calls, decision[d].method = "denial"
        PROVE  age'[d] + denialLeft'[IntentOf[d]] >= DenialWindow
    <3>1. /\ age[d] \in Nat /\ denialLeft[IntentOf[d]] \in Nat
          /\ age[d] + denialLeft[IntentOf[d]] >= DenialWindow
      BY <2>3, CallsAssumption DEF DenialInv, TypeOK
    <3>2. \/ age'[d] = age[d] + 1
          \/ age'[d] = age[d] /\ age[d] > Keep
      BY <1>2, <2>3 DEF Tick, CardInv
    <3>3. IntentOf[d] \in Intents
      BY CallsAssumption
    <3>4. denialLeft'[IntentOf[d]] =
            IF denialLeft[IntentOf[d]] > 0 THEN denialLeft[IntentOf[d]] - 1 ELSE 0
      BY <1>2, <3>3 DEF Tick, Elapse
    <3> QED
      BY <3>1, <3>2, <3>4, Times
  <2> QED
    BY <2>1, <2>2, <2>3 DEF DenialInv, OnlyRefusalsAreRemembered
<1>3. ASSUME NEW r \in Requests, RequestStep(r)
      PROVE  UNCHANGED <<decision, denialLeft, age, pc>>
  BY <1>3 DEF RequestStep, Check, SetStatus, Publish, IssueGrant
<1>4. ASSUME HkStep \/ UNCHANGED vars PROVE UNCHANGED <<decision, denialLeft, age, pc>>
  BY <1>4 DEF HkStep, HkCheck, HkSetStatus, HkPublish, Prune, vars
<1> QED
  BY <1>1, <1>2, <1>3, <1>4

\* Every reachable state remembers its denials.
LEMMA DenialAlways == Spec => [](TypeInv /\ CardInv /\ DenialInv)
<1>1. Init => TypeInv /\ CardInv /\ DenialInv
  BY InitType, CardInit, DenialInit
<1>2. TypeInv /\ CardInv /\ DenialInv /\ [Next]_vars => (TypeInv /\ CardInv /\ DenialInv)'
  BY NextType, CardCall, CardOthers, DenialCall, DenialOthers DEF Next
<1> QED
  BY <1>1, <1>2, PTL DEF Spec

\* A suspended call is never remembered as refused, so the retry a late
\* approval invites is not halted by its own timeout.
THEOREM TimeoutIsNoDenial == Spec => []OnlyRefusalsAreRemembered
BY DenialAlways, PTL DEF DenialInv

\* After an operator's denial has answered a call, every other call of the
\* intent that reaches the gate within the denial memory is halted there.
THEOREM DenialIsFinal == Spec => DenialSticks
<1> DEFINE Sticks ==
      \A c, d \in Calls :
        /\ IntentOf[c] = IntentOf[d]
        /\ decision[d].method = "denial"
        /\ age[d] < DenialWindow
        /\ pc[c] = "new"
        => pc'[c] = "new" \/ decision'[c].route = "HALT"
<1>1. TypeInv /\ CardInv /\ DenialInv /\ [Next]_vars => Sticks
  <2> SUFFICES ASSUME TypeInv, DenialInv, [Next]_vars, NEW c \in Calls, NEW d \in Calls,
                      IntentOf[c] = IntentOf[d], decision[d].method = "denial",
                      age[d] < DenialWindow, pc[c] = "new"
               PROVE  pc'[c] = "new" \/ decision'[c].route = "HALT"
    OBVIOUS
  <2>1. denialLeft[IntentOf[c]] > 0
    <3>1. IntentOf[d] \in Intents
      BY CallsAssumption
    <3>2. age[d] \in Nat /\ denialLeft[IntentOf[d]] \in Nat
      BY <3>1, Times DEF TypeInv, TypeOK
    <3>3. age[d] + denialLeft[IntentOf[d]] >= DenialWindow
      BY DEF DenialInv
    <3> QED
      BY <3>2, <3>3, Times
  <2>2. ASSUME Decide(c) PROVE decision'[c].route = "HALT"
    <3>1. Answer(c, "HALT", "gate", NoOperator)
      BY <2>1, <2>2 DEF Decide, PriorDenial
    <3> QED
      BY <3>1, AnswerAlone
  <2>3. ASSUME NEW e \in Calls, CallStep(e), ~Decide(c) PROVE pc'[c] = pc[c]
    <3>1. e # c
      BY <2>3 DEF CallStep, FindGrant, ConsumeGrant, OpenCard, Wake, ActApproved,
                  ActDenied, ActSuspend
    <3> QED
      BY <2>3, <3>1 DEF CallStep, Decide, FindGrant, ConsumeGrant, OpenCard, Wake,
                        ActApproved, ActDenied, ActSuspend, Answer, TypeInv, TypeOK
  <2>4. ASSUME (\E r \in Requests : RequestStep(r)) \/ HkStep \/ Tick \/ UNCHANGED vars
        PROVE  pc' = pc
    BY <2>4 DEF RequestStep, Check, SetStatus, Publish, IssueGrant, HkStep, HkCheck,
                HkSetStatus, HkPublish, Prune, Tick, vars, callVars
  <2> QED
    BY <2>2, <2>3, <2>4 DEF Next
<1> QED
  BY <1>1, DenialAlways, PTL DEF Spec, DenialSticks

-----------------------------------------------------------------------------
(* Grants: how often one is used.                                          *)

\* A grant that is not yet issued has no uses and has served nobody; one that
\* has uses left has served no more calls than the rest of what was asked for.
UsesInv ==
  /\ \A r \in Requests : rpc[r] # "done" => usesLeft[r] = 0 /\ Served(r) = {}
  /\ \A r \in Requests : IsFiniteSet(Served(r))
  /\ \A r \in Requests : usesLeft[r] > 0 =>
                            usesLeft[r] + Cardinality(Served(r)) <= req[r].uses

\* Nothing is issued or served at the start.
LEMMA UsesInit == Init => UsesInv
<1> SUFFICES ASSUME Init PROVE UsesInv
  OBVIOUS
<1>1. \A r \in Requests : Served(r) = {}
  BY DEF Init, Served, Undecided
<1> QED
  BY <1>1, FS_EmptySet DEF Init, UsesInv

\* A step that changes neither the uses of a grant nor whom it has served.
LEMMA UsesFrame ==
  ASSUME TypeInv, [Next]_vars, UsesInv, UNCHANGED usesLeft,
         \A r \in Requests : Served(r)' = Served(r)
  PROVE  UsesInv'
<1>1. \A r \in Requests : Kept(r)
  BY RequestsPersist
<1> SUFFICES ASSUME NEW r \in Requests
             PROVE  /\ rpc'[r] # "done" => usesLeft'[r] = 0 /\ Served(r)' = {}
                    /\ IsFiniteSet(Served(r)')
                    /\ usesLeft'[r] > 0 =>
                         usesLeft'[r] + Cardinality(Served(r)') <= req'[r].uses
  BY DEF UsesInv
<1>2. CASE rpc[r] = "done"
  <2>1. rpc'[r] = "done" /\ req'[r] = req[r]
    BY <1>1, <1>2 DEF Kept, Resolved
  <2> QED
    BY <1>2, <2>1 DEF UsesInv
<1>3. CASE rpc[r] # "done"
  BY <1>3 DEF UsesInv
<1> QED
  BY <1>2, <1>3

\* A call that consumes a grant is one more that it has served, for one use.
LEMMA UsesConsume ==
  ASSUME TypeInv, ConsentInv, DenialInv, UsesInv, NEW c \in Calls, ConsumeGrant(c)
  PROVE  UsesInv'
<1>1. PICK g \in Requests : g = found[c] /\ rpc[g] = "done" /\ pc[c] = "consume"
  BY DEF ConsumeGrant, TypeInv, ThreadsOK, ConsentInv, Issued
<1>2. /\ decision'[c].method = "standing_grant" /\ decision'[c].operator = g
      /\ \A d \in Calls : d # c => decision'[d] = decision[d]
      /\ UNCHANGED <<rpc, req>>
  BY <1>1 DEF ConsumeGrant, Answer, TypeInv, TypeOK, reqVars
<1>3. \A r \in Requests : c \notin Served(r)
  BY <1>1 DEF DenialInv, Undecided, Served
<1>4. /\ Served(g)' = Served(g) \union {c}
      /\ \A r \in Requests : r # g => Served(r)' = Served(r)
  BY <1>2, <1>3 DEF Served
<1>5. /\ usesLeft'[g] = Spend(usesLeft[g])
      /\ \A r \in Requests : r # g => usesLeft'[r] = usesLeft[r]
  BY <1>1 DEF ConsumeGrant, TypeInv, TypeOK
<1>6. /\ IsFiniteSet(Served(g)')
      /\ Cardinality(Served(g)') = Cardinality(Served(g)) + 1
      /\ Cardinality(Served(g)) \in Nat
  BY <1>1, <1>3, <1>4, FS_AddElement, FS_CardinalityType DEF UsesInv
<1>7. usesLeft'[g] > 0 => usesLeft'[g] + Cardinality(Served(g)') <= req'[g].uses
  <2>1. usesLeft[g] \in Nat /\ req[g].uses \in Nat
    BY <1>1, Times DEF TypeInv, TypeOK, ThreadsOK, Asked, Arguments
  <2>2. ASSUME usesLeft'[g] > 0
        PROVE  usesLeft[g] > 0 /\ usesLeft'[g] = usesLeft[g] - 1
    BY <1>5, <2>1, <2>2 DEF Spend
  <2> QED
    BY <1>1, <1>2, <1>6, <2>1, <2>2 DEF UsesInv
<1>8. ASSUME NEW r \in Requests, r # g
      PROVE  /\ rpc'[r] = rpc[r] /\ usesLeft'[r] = usesLeft[r] /\ req'[r] = req[r]
             /\ Served(r)' = Served(r)
  BY <1>2, <1>4, <1>5, <1>8
<1> SUFFICES ASSUME NEW r \in Requests
             PROVE  /\ rpc'[r] # "done" => usesLeft'[r] = 0 /\ Served(r)' = {}
                    /\ IsFiniteSet(Served(r)')
                    /\ usesLeft'[r] > 0 =>
                         usesLeft'[r] + Cardinality(Served(r)') <= req'[r].uses
  BY DEF UsesInv
<1>9. CASE r = g
  BY <1>1, <1>2, <1>6, <1>7, <1>9
<1>10. CASE r # g
  BY <1>8, <1>10 DEF UsesInv
<1> QED
  BY <1>9, <1>10

\* Any other step of a call thread serves nobody by a grant.
LEMMA UsesCall ==
  ASSUME TypeInv, ConsentInv, DenialInv, UsesInv, NEW c \in Calls, CallStep(c)
  PROVE  UsesInv'
<1> USE DEF cardVars, grantVars, callVars, reqVars
<1>0. [Next]_vars
  BY DEF Next
<1>1. CASE ConsumeGrant(c)
  BY <1>1, UsesConsume
<1>2. CASE ~ConsumeGrant(c)
  <2>1. UNCHANGED usesLeft
    BY <1>2 DEF CallStep, Decide, FindGrant, OpenCard, Wake, ActApproved, ActDenied,
                ActSuspend
  <2>2. pc[c] # "done"
    BY DEF CallStep, Decide, FindGrant, ConsumeGrant, OpenCard, Wake, ActApproved,
           ActDenied, ActSuspend
  <2>3. decision[c].method = "none"
    BY <2>2 DEF DenialInv, Undecided
  <2>4. \/ UNCHANGED decision
        \/ \E route, who, method :
             method # "standing_grant" /\ Answer(c, route, method, who)
    <3>1. CASE Decide(c)
      <4>1. "gate" # "standing_grant"
        OBVIOUS
      <4> QED
        BY <3>1, <4>1 DEF Decide
    <3>2. CASE FindGrant(c) \/ OpenCard(c) \/ Wake(c)
      BY <3>2 DEF FindGrant, OpenCard, Wake
    <3>3. CASE ActApproved(c)
      <4>1. "approval" # "standing_grant" /\ Answer(c, "ALLOW", "approval", operator[c])
        BY <3>3 DEF ActApproved
      <4> QED
        BY <4>1
    <3>4. CASE ActDenied(c)
      <4>1. "denial" # "standing_grant" /\ Answer(c, "HALT", "denial", operator[c])
        BY <3>4 DEF ActDenied
      <4> QED
        BY <4>1
    <3>5. CASE ActSuspend(c)
      <4>1. "none" # "standing_grant" /\ Answer(c, "HALT", "none", NoOperator)
        BY <3>5 DEF ActSuspend
      <4> QED
        BY <4>1
    <3> QED
      BY <1>2, <3>1, <3>2, <3>3, <3>4, <3>5 DEF CallStep
  <2>5. CASE UNCHANGED decision
    BY <1>0, <2>1, <2>5, UsesFrame DEF Served
  <2>6. ASSUME NEW route, NEW who, NEW method, method # "standing_grant",
               Answer(c, route, method, who)
        PROVE  UsesInv'
    <3>1. /\ decision'[c].method # "standing_grant"
          /\ \A d \in Calls : d # c => decision'[d] = decision[d]
      BY <2>6, AnswerAlone
    <3>2. \A r \in Requests : Served(r)' = Served(r)
      BY <2>3, <3>1 DEF Served
    <3> QED
      BY <1>0, <2>1, <3>2, UsesFrame
  <2> QED
    BY <2>4, <2>5, <2>6
<1> QED
  BY <1>1, <1>2

\* A grant is issued once, with the uses that were asked for; nobody else
\* touches the uses.
LEMMA UsesOthers ==
  ASSUME TypeInv, UsesInv, [Next]_vars,
         (\E r \in Requests : RequestStep(r)) \/ HkStep \/ Tick \/ UNCHANGED vars
  PROVE  UsesInv'
<1> USE DEF cardVars, grantVars, callVars, reqVars
<1>1. \A r \in Requests : Served(r)' = Served(r)
  <2>1. UNCHANGED decision
    BY DEF RequestStep, Check, SetStatus, Publish, IssueGrant, HkStep, HkCheck, HkSetStatus,
           HkPublish, Prune, Tick, vars
  <2> QED
    BY <2>1 DEF Served
<1>2. CASE UNCHANGED usesLeft
  BY <1>1, <1>2, UsesFrame
<1>3. ASSUME NEW q \in Requests, IssueGrant(q), ~UNCHANGED usesLeft
      PROVE  UsesInv'
  <2>1. /\ rpc[q] = "grant" /\ rpc'[q] = "done" /\ UNCHANGED req
        /\ \A r \in Requests : r # q => rpc'[r] = rpc[r] /\ usesLeft'[r] = usesLeft[r]
        /\ usesLeft'[q] = req[q].uses
    BY <1>3 DEF IssueGrant, TypeInv, TypeOK
  <2>2. Served(q) = {} /\ Cardinality(Served(q)) = 0
    BY <2>1, FS_EmptySet DEF UsesInv
  <2>3. req[q].uses \in Nat
    BY <2>1, Times DEF TypeInv, ThreadsOK, Asked, Arguments
  <2> SUFFICES ASSUME NEW r \in Requests
               PROVE  /\ rpc'[r] # "done" => usesLeft'[r] = 0 /\ Served(r)' = {}
                      /\ IsFiniteSet(Served(r)')
                      /\ usesLeft'[r] > 0 =>
                           usesLeft'[r] + Cardinality(Served(r)') <= req'[r].uses
    BY DEF UsesInv
  <2>4. CASE r = q
    <3>1. Served(r)' = {}
      BY <1>1, <2>2, <2>4
    <3>2. IsFiniteSet(Served(r)') /\ Cardinality(Served(r)') = 0
      BY <3>1, FS_EmptySet
    <3>3. rpc'[r] = "done" /\ usesLeft'[r] = req'[r].uses /\ req'[r].uses \in Nat
      BY <2>1, <2>3, <2>4
    <3> QED
      BY <3>2, <3>3
  <2>5. CASE r # q
    BY <1>1, <2>1, <2>5 DEF UsesInv
  <2> QED
    BY <2>4, <2>5
<1>4. ASSUME NEW q \in Requests, RequestStep(q), ~IssueGrant(q) PROVE UNCHANGED usesLeft
  BY <1>4 DEF RequestStep, Check, SetStatus, Publish
<1>5. ASSUME HkStep \/ Tick \/ UNCHANGED vars PROVE UNCHANGED usesLeft
  BY <1>5 DEF HkStep, HkCheck, HkSetStatus, HkPublish, Prune, Tick, vars
<1> QED
  BY <1>2, <1>3, <1>4, <1>5

\* A grant that has served as many calls as the operator asked for serves no
\* call that comes to look for one, however many held it at once.
THEOREM SpentGrantsStayDead == Spec => []SpentGrantIsDead
<1> DEFINE Inv == TypeInv /\ CardInv /\ ConsentInv /\ DenialInv /\ UsesInv
<1>1. Init => Inv
  BY InitType, CardInit, ConsentInit, DenialInit, UsesInit
<1>2. Inv /\ [Next]_vars => Inv'
  <2> SUFFICES ASSUME Inv, [Next]_vars PROVE UsesInv'
    BY NextType, ConsentCall, ConsentRequest, ConsentHk, CardCall, CardOthers, DenialCall,
       DenialOthers DEF Next
  <2> QED
    BY UsesCall, UsesOthers DEF Next
<1>3. Inv => SpentGrantIsDead
  <2> SUFFICES ASSUME Inv, NEW r \in Requests, Served(r) # {},
                      Cardinality(Served(r)) >= req[r].uses
               PROVE  usesLeft[r] = 0
    BY DEF SpentGrantIsDead
  <2>1. rpc[r] = "done" /\ usesLeft[r] \in Nat /\ req[r].uses \in Nat
    BY Times DEF UsesInv, TypeInv, TypeOK, ThreadsOK, Asked, Arguments
  <2>2. Cardinality(Served(r)) \in Nat
    BY FS_CardinalityType DEF UsesInv
  <2> QED
    BY <2>1, <2>2 DEF UsesInv
<1> QED
  BY <1>1, <1>2, <1>3, PTL DEF Spec
=============================================================================
