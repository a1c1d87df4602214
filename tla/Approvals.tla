------------------------------ MODULE Approvals ------------------------------
(***************************************************************************)
(* The review path of the governor: runwall/approvals.py together with the *)
(* threads of runwall/daemon.py that share it.                             *)
(*                                                                         *)
(* Four kinds of thread run it.  A call thread (handle_decide) asks the    *)
(* gate, looks for a grant, and otherwise opens a card and blocks on it    *)
(* until the card is resolved or its wait budget runs out.  A request      *)
(* thread (resolve_approval) answers a card for an operator.  The          *)
(* housekeeping thread expires cards past the hard ceiling and prunes old  *)
(* ones.  Time passes.                                                     *)
(*                                                                         *)
(* One action is one read or write of shared memory that another thread    *)
(* can observe; what the broker's lock makes atomic is one action.         *)
(***************************************************************************)
EXTENDS Integers, FiniteSets

CONSTANTS
  Calls,          \* tool calls; each opens at most one card, named after it
  Requests,       \* operators' approve/deny requests, each served once
  Intents,        \* session id and intent fingerprint, taken together
  IntentOf,       \* the intent of a call
  AlwaysDenied,   \* calls whose action class is in state.ALWAYS_DENIED
  GateRoute,      \* what the gate says of a call, denial memory left aside
  UnattendedReviewHalts,  \* policy.approval["unattended_review_halts"]
  Budget,         \* ticks a call waits for its card
  Ceiling,        \* hard_ceiling_seconds, in ticks
  Keep,           \* prune()'s keep_seconds, in ticks
  GrantTTL,       \* ticks a grant stays live
  DenialWindow,   \* denial_memory_seconds, in ticks
  MaxUses,        \* largest grant_uses an operator may ask for
  NoOperator,     \* PendingApproval.operator before anyone decides
  System,         \* the operator name expire_stale() writes
  NoGrant         \* no grant under a key

Routes == {"ALLOW", "REVIEW", "HALT"}

ASSUME CallsAssumption ==
  /\ IntentOf \in [Calls -> Intents]
  /\ AlwaysDenied \subseteq Calls
  /\ GateRoute \in [Calls -> Routes]
  /\ UnattendedReviewHalts \in BOOLEAN

ASSUME NamesAssumption ==
  /\ NoOperator \notin Requests
  /\ System \notin Requests
  /\ NoGrant \notin Requests
  /\ NoOperator # System

\* _clamp() in _route_post() gives 1 <= grant_uses and 30 <= grant_seconds;
\* the ceiling outlasts the wait, and prune() keeps a card beyond the ceiling.
ASSUME TimesAssumption ==
  /\ {Budget, Ceiling, Keep, GrantTTL, DenialWindow, MaxUses} \subseteq Nat \ {0}
  /\ Budget < Ceiling
  /\ Ceiling <= Keep
  /\ DenialWindow <= Keep

VARIABLES
  \* the cards, ApprovalBroker._pending and the objects in it
  store,      \* the cards _pending holds
  status,     \* PendingApproval.status, "none" before the card exists
  operator,   \* PendingApproval.operator
  event,      \* PendingApproval._event
  age,        \* PendingApproval.age(), saturating
  \* the grants, each identified by the request that issued it
  grants,     \* ApprovalBroker._grants: intent -> request or NoGrant
  usesLeft,   \* Grant.uses_left
  ttl,        \* ticks until Grant.expires
  \* SessionState.denied_intents
  denialLeft, \* ticks for which a refusal of an intent is still remembered
  \* the call threads
  pc,         \* where handle_decide() is
  found,      \* the grant find_grant() returned
  seen,       \* the status wait() returned
  decision,   \* the Decision: route, and decision.operator's method and id
  \* the request threads
  rpc,        \* where resolve_approval() is
  req,        \* its arguments: the card, approve or deny, grant_uses
  \* the housekeeping thread
  hk          \* where expire_stale() is, and the card it is at

cardVars  == <<store, status, operator, event, age>>
grantVars == <<grants, usesLeft, ttl>>
callVars  == <<pc, found, seen, decision>>
reqVars   == <<rpc, req>>
vars == <<cardVars, grantVars, denialLeft, callVars, reqVars, hk>>

Undecided == [route |-> "REVIEW", method |-> "none", operator |-> NoOperator]
NoRequest == [card |-> NoOperator, approve |-> FALSE, uses |-> 0]
Idle      == [pc |-> "idle", card |-> NoOperator]

Init ==
  /\ store = {}
  /\ status = [c \in Calls |-> "none"]
  /\ operator = [c \in Calls |-> NoOperator]
  /\ event = [c \in Calls |-> FALSE]
  /\ age = [c \in Calls |-> 0]
  /\ grants = [i \in Intents |-> NoGrant]
  /\ usesLeft = [r \in Requests |-> 0]
  /\ ttl = [r \in Requests |-> 0]
  /\ denialLeft = [i \in Intents |-> 0]
  /\ pc = [c \in Calls |-> "new"]
  /\ found = [c \in Calls |-> NoGrant]
  /\ seen = [c \in Calls |-> "none"]
  /\ decision = [c \in Calls |-> Undecided]
  /\ rpc = [r \in Requests |-> "new"]
  /\ req = [r \in Requests |-> NoRequest]
  /\ hk = Idle

-----------------------------------------------------------------------------
(* Helpers.                                                                *)

OpenStatus == {"PENDING", "SUSPENDED"}

\* expire_stale() holds the broker's lock while it resolves a card; every
\* other user of the lock is a single action.
LockFree == hk.pc = "idle"

\* Grant.live()
Live(r) == ttl[r] > 0 /\ usesLeft[r] # 0

\* The grant under key i, when it is live.
LiveGrants(i) == {r \in Requests : grants[i] = r /\ Live(r)}

\* consume_grant()'s arithmetic: a spent grant stays at 0, never below.
Spend_Unguarded(n) == n - 1
Spend(n) == IF n > 0 THEN n - 1 ELSE n

\* The key of a grant in _grants: session id and fingerprint.
GrantKey_OneForAll(c) == CHOOSE i \in Intents : TRUE
GrantKey(c) == IntentOf[c]

\* "action in ALWAYS_DENIED" in find_grant() and in issue_grant().
Grantable_All(c) == TRUE
Grantable(c) == c \notin AlwaysDenied

\* SessionState.record_denial() on the intent of call c: the entry's "last"
\* is renewed, whatever it was.
RecordDenial(c) ==
  denialLeft' = [denialLeft EXCEPT ![IntentOf[c]] = DenialWindow]

\* SessionState.prior_denial()
PriorDenial(c) == denialLeft[IntentOf[c]] > 0

\* The thread of call c returns its decision: route, and who decided how.
Answer(c, route, method, who) ==
  /\ decision' = [decision EXCEPT
                    ![c] = [route |-> route, method |-> method, operator |-> who]]
  /\ pc' = [pc EXCEPT ![c] = "done"]

-----------------------------------------------------------------------------
(* A call thread: handle_decide() and _await_operator().                   *)

\* decide(): a remembered refusal of the intent, or a REVIEW with nobody at
\* the console, is a refusal, and every refusal is remembered.
Decide(c) ==
  /\ pc[c] = "new"
  /\ \E present \in BOOLEAN :
       LET unattended == GateRoute[c] = "REVIEW" /\ ~present /\ UnattendedReviewHalts
           refused    == GateRoute[c] = "HALT" \/ PriorDenial(c) \/ unattended
       IN \/ /\ refused
             /\ Answer(c, "HALT", "gate", NoOperator)
             /\ RecordDenial(c)
          \/ /\ ~refused
             /\ GateRoute[c] = "ALLOW"
             /\ Answer(c, "ALLOW", "gate", NoOperator)
             /\ UNCHANGED denialLeft
          \/ /\ ~refused
             /\ GateRoute[c] = "REVIEW"
             /\ pc' = [pc EXCEPT ![c] = "review"]
             /\ UNCHANGED <<decision, denialLeft>>
  /\ UNCHANGED <<cardVars, grantVars, found, seen, reqVars, hk>>

\* find_grant(): a live grant of the intent, unless the action's class may
\* not be granted; a dead one is dropped.
FindGrant(c) ==
  /\ pc[c] = "review"
  /\ \/ /\ Grantable(c) /\ LockFree
        /\ \E g \in LiveGrants(GrantKey(c)) : found' = [found EXCEPT ![c] = g]
        /\ pc' = [pc EXCEPT ![c] = "consume"]
        /\ UNCHANGED grants
     \/ /\ Grantable(c) /\ LockFree
        /\ LiveGrants(GrantKey(c)) = {}
        /\ grants' = [grants EXCEPT ![GrantKey(c)] = NoGrant]
        /\ pc' = [pc EXCEPT ![c] = "open"]
        /\ UNCHANGED found
     \/ /\ ~Grantable(c)
        /\ pc' = [pc EXCEPT ![c] = "open"]
        /\ UNCHANGED <<found, grants>>
  /\ UNCHANGED <<cardVars, usesLeft, ttl, denialLeft, seen, decision, reqVars, hk>>

\* consume_grant() on the grant found before, then ALLOW in its issuer's name.
ConsumeGrant(c) ==
  /\ pc[c] = "consume"
  /\ LockFree
  /\ usesLeft' = [usesLeft EXCEPT ![found[c]] = Spend(@)]
  /\ Answer(c, "ALLOW", "standing_grant", found[c])
  /\ UNCHANGED <<cardVars, grants, ttl, denialLeft, found, seen, reqVars, hk>>

\* open(): a fresh card, put in the store.
OpenCard(c) ==
  /\ pc[c] = "open"
  /\ LockFree
  /\ store' = store \union {c}
  /\ status' = [status EXCEPT ![c] = "PENDING"]
  /\ pc' = [pc EXCEPT ![c] = "waiting"]
  /\ UNCHANGED <<operator, event, age, grantVars, denialLeft, found, seen,
                 decision, reqVars, hk>>

\* PendingApproval.wait(): the event is set or the budget is spent; the
\* status is read after that.  A late thread may read it any time later.
WaitOver(c) == event[c] \/ age[c] >= Budget

Wake(c) ==
  /\ pc[c] = "waiting"
  /\ WaitOver(c)
  /\ seen' = [seen EXCEPT ![c] = status[c]]
  /\ pc' = [pc EXCEPT ![c] = "woken"]
  /\ UNCHANGED <<cardVars, grantVars, denialLeft, found, decision, reqVars, hk>>

\* The three branches of _await_operator() after the wait.
ActApproved(c) ==
  /\ pc[c] = "woken"
  /\ seen[c] = "APPROVED"
  /\ Answer(c, "ALLOW", "approval", operator[c])
  /\ UNCHANGED <<cardVars, grantVars, denialLeft, found, seen, reqVars, hk>>

ActDenied_Forgets(c) ==
  /\ pc[c] = "woken"
  /\ seen[c] = "DENIED"
  /\ Answer(c, "HALT", "denial", operator[c])
  /\ UNCHANGED <<cardVars, grantVars, denialLeft, found, seen, reqVars, hk>>

ActDenied(c) ==
  /\ pc[c] = "woken"
  /\ seen[c] = "DENIED"
  /\ Answer(c, "HALT", "denial", operator[c])
  /\ RecordDenial(c)
  /\ UNCHANGED <<cardVars, grantVars, found, seen, reqVars, hk>>

ActSuspend_Remembered(c) ==
  /\ pc[c] = "woken"
  /\ seen[c] \notin {"APPROVED", "DENIED"}
  /\ status' = [status EXCEPT ![c] = "SUSPENDED"]
  /\ Answer(c, "HALT", "none", NoOperator)
  /\ RecordDenial(c)
  /\ UNCHANGED <<store, operator, event, age, grantVars, found, seen, reqVars, hk>>

ActSuspend_PendingOnly(c) ==
  /\ pc[c] = "woken"
  /\ seen[c] = "PENDING"
  /\ status' = [status EXCEPT ![c] = "SUSPENDED"]
  /\ Answer(c, "HALT", "none", NoOperator)
  /\ UNCHANGED <<store, operator, event, age, grantVars, denialLeft, found, seen,
                 reqVars, hk>>

ActSuspend(c) ==
  /\ pc[c] = "woken"
  /\ seen[c] \notin {"APPROVED", "DENIED"}
  /\ status' = [status EXCEPT ![c] = "SUSPENDED"]
  /\ Answer(c, "HALT", "none", NoOperator)
  /\ UNCHANGED <<store, operator, event, age, grantVars, denialLeft, found, seen,
                 reqVars, hk>>

CallStep(c) ==
  \/ Decide(c)
  \/ FindGrant(c)
  \/ ConsumeGrant(c)
  \/ OpenCard(c)
  \/ Wake(c)
  \/ ActApproved(c)
  \/ ActDenied(c)
  \/ ActSuspend(c)

-----------------------------------------------------------------------------
(* A request thread: resolve_approval().                                   *)

\* The card is looked up and must still be open: "no such approval" and
\* "already <status>" end the request.
Check(r) ==
  /\ rpc[r] = "new"
  /\ LockFree
  /\ \E c \in Calls, a \in BOOLEAN, n \in 1..MaxUses :
       \/ /\ c \in store
          /\ status[c] \in OpenStatus
          /\ req' = [req EXCEPT ![r] = [card |-> c, approve |-> a, uses |-> n]]
          /\ rpc' = [rpc EXCEPT ![r] = "resolve"]
       \/ /\ c \notin store \/ status[c] \notin OpenStatus
          /\ rpc' = [rpc EXCEPT ![r] = "rejected"]
          /\ UNCHANGED req
  /\ UNCHANGED <<cardVars, grantVars, denialLeft, callVars, hk>>

\* PendingApproval.resolve(), which takes no lock: the status first ...
SetStatus(r) ==
  /\ rpc[r] = "resolve"
  /\ status' = [status EXCEPT
                  ![req[r].card] = IF req[r].approve THEN "APPROVED" ELSE "DENIED"]
  /\ rpc' = [rpc EXCEPT ![r] = "publish"]
  /\ UNCHANGED <<store, operator, event, age, grantVars, denialLeft, callVars,
                 req, hk>>

\* ... then the operator, and the event that wakes the waiter.
Publish(r) ==
  /\ rpc[r] = "publish"
  /\ operator' = [operator EXCEPT ![req[r].card] = r]
  /\ event' = [event EXCEPT ![req[r].card] = TRUE]
  /\ rpc' = [rpc EXCEPT ![r] = IF req[r].approve THEN "grant" ELSE "done"]
  /\ UNCHANGED <<store, status, age, grantVars, denialLeft, callVars, req, hk>>

\* issue_grant() after an approval: it replaces the grant of the same key;
\* nothing is issued for an always-denied class.
IssueGrant(r) ==
  /\ rpc[r] = "grant"
  /\ LET c == req[r].card
     IN \/ /\ ~Grantable(c)
           /\ UNCHANGED grantVars
        \/ /\ Grantable(c)
           /\ LockFree
           /\ grants' = [grants EXCEPT ![GrantKey(c)] = r]
           /\ usesLeft' = [usesLeft EXCEPT ![r] = req[r].uses]
           /\ ttl' = [ttl EXCEPT ![r] = GrantTTL]
  /\ rpc' = [rpc EXCEPT ![r] = "done"]
  /\ UNCHANGED <<cardVars, denialLeft, callVars, req, hk>>

RequestStep(r) == Check(r) \/ SetStatus(r) \/ Publish(r) \/ IssueGrant(r)

-----------------------------------------------------------------------------
(* Housekeeping: expire_stale() and prune(), under the broker's lock.      *)

Stale_PendingOnly(c) == status[c] = "PENDING" /\ age[c] > Ceiling
Stale(c) == status[c] \in OpenStatus /\ age[c] > Ceiling

HkCheck(c) ==
  /\ LockFree
  /\ c \in store
  /\ Stale(c)
  /\ hk' = [pc |-> "resolve", card |-> c]
  /\ UNCHANGED <<cardVars, grantVars, denialLeft, callVars, reqVars>>

HkSetStatus ==
  /\ hk.pc = "resolve"
  /\ status' = [status EXCEPT ![hk.card] = "EXPIRED"]
  /\ hk' = [hk EXCEPT !.pc = "publish"]
  /\ UNCHANGED <<store, operator, event, age, grantVars, denialLeft, callVars,
                 reqVars>>

HkPublish ==
  /\ hk.pc = "publish"
  /\ operator' = [operator EXCEPT ![hk.card] = System]
  /\ event' = [event EXCEPT ![hk.card] = TRUE]
  /\ hk' = Idle
  /\ UNCHANGED <<store, status, age, grantVars, denialLeft, callVars, reqVars>>

Prunable_AgeOnly(c) == age[c] > Keep
Prunable(c) == status[c] \notin OpenStatus /\ age[c] > Keep

Prune ==
  /\ LockFree
  /\ store' = {c \in store : ~Prunable(c)}
  /\ UNCHANGED <<status, operator, event, age, grantVars, denialLeft, callVars,
                 reqVars, hk>>

HkStep == (\E c \in Calls : HkCheck(c)) \/ HkSetStatus \/ HkPublish \/ Prune

-----------------------------------------------------------------------------
(* Time.  The wall clock may run ahead of any thread.                      *)

\* One tick less to run.
Elapse(n) == IF n > 0 THEN n - 1 ELSE 0

Tick ==
  /\ age' = [c \in Calls |-> IF status[c] = "none" \/ age[c] > Keep
                             THEN age[c] ELSE age[c] + 1]
  /\ ttl' = [r \in Requests |-> Elapse(ttl[r])]
  /\ denialLeft' = [i \in Intents |-> Elapse(denialLeft[i])]
  /\ UNCHANGED <<store, status, operator, event, grants, usesLeft, callVars,
                 reqVars, hk>>

Next ==
  \/ \E c \in Calls : CallStep(c)
  \/ \E r \in Requests : RequestStep(r)
  \/ HkStep
  \/ Tick

Spec == Init /\ [][Next]_vars

\* Threads of the daemon are scheduled, housekeeping loops for ever, time
\* passes.  Nothing makes an operator start a request; one that has started
\* is a thread like any other.
Fairness ==
  /\ \A c \in Calls : WF_vars(CallStep(c))
  /\ \A r \in Requests : WF_vars(SetStatus(r) \/ Publish(r) \/ IssueGrant(r))
  /\ \A c \in Calls : WF_vars(HkCheck(c))
  /\ WF_vars(HkSetStatus \/ HkPublish)
  /\ WF_vars(Tick)

FairSpec == Spec /\ Fairness

-----------------------------------------------------------------------------
(* What must hold.                                                         *)

Statuses == {"none", "PENDING", "APPROVED", "DENIED", "SUSPENDED", "EXPIRED"}
Methods  == {"none", "gate", "standing_grant", "approval", "denial"}
Deciders == Requests \union {NoOperator, System}

\* The shape of the state; a grant's uses never go below zero, where
\* Grant.live() would take it for a grant that never runs out.
TypeOK ==
  /\ store \subseteq Calls
  /\ status \in [Calls -> Statuses]
  /\ operator \in [Calls -> Deciders]
  /\ event \in [Calls -> BOOLEAN]
  /\ age \in [Calls -> 0..Keep + 1]
  /\ grants \in [Intents -> Requests \union {NoGrant}]
  /\ usesLeft \in [Requests -> 0..MaxUses]
  /\ ttl \in [Requests -> 0..GrantTTL]
  /\ denialLeft \in [Intents -> 0..DenialWindow]
  /\ pc \in [Calls -> {"new", "review", "consume", "open", "waiting", "woken", "done"}]
  /\ found \in [Calls -> Requests \union {NoGrant}]
  /\ seen \in [Calls -> Statuses]
  /\ decision \in [Calls -> [route : Routes, method : Methods, operator : Deciders]]
  /\ rpc \in [Requests -> {"new", "rejected", "resolve", "publish", "grant", "done"}]
  /\ req \in [Requests -> [card : Calls, approve : BOOLEAN, uses : 1..MaxUses]
                          \union {NoRequest}]
  /\ hk \in [pc : {"resolve", "publish"}, card : Calls] \union {Idle}

\* Request r has resolved its card, and the way it did.
Resolved(r) == rpc[r] \in {"publish", "grant", "done"}
Approved(r) == Resolved(r) /\ req[r].approve
Denied(r)   == Resolved(r) /\ ~req[r].approve

\* A call the gate sent to review runs only because a human approved: its
\* own card if it was let through by the approval, and a card of the same
\* session and intent if it ran on a grant (approvals.py, module comment).
ApprovedBeforeRun ==
  \A c \in Calls :
    /\ decision[c].method = "approval" =>
         \E r \in Requests : Approved(r) /\ req[r].card = c
    /\ decision[c].method = "standing_grant" =>
         \E r \in Requests : /\ Approved(r)
                            /\ IntentOf[req[r].card] = IntentOf[c]
                            /\ decision[c].operator = r

\* No grant is ever issued for a card of an always-denied class, and no call
\* of such a class runs on a grant that a harmless call of the same
\* fingerprint earned (find_grant and issue_grant check separately).
NoGrantForDeniedClass ==
  /\ \A i \in Intents : grants[i] # NoGrant => req[grants[i]].card \notin AlwaysDenied
  /\ \A c \in AlwaysDenied : decision[c].method # "standing_grant"

\* A card's state and its call's state agree although two threads write the
\* one and the waiter the other: a PENDING card has a call blocked on it and
\* is on the console, and a SUSPENDED card's call has been refused, so that
\* approving it can never release the call itself as well.
CardTracksCall ==
  \A c \in Calls :
    /\ status[c] = "PENDING" => pc[c] \in {"waiting", "woken"} /\ c \in store
    /\ status[c] = "SUSPENDED" => pc[c] = "done" /\ decision[c].route = "HALT"

\* A grant that has served as many calls as the operator asked for is spent
\* for good, even when several calls held it at once.
Served(r) == {c \in Calls : /\ decision[c].method = "standing_grant"
                            /\ decision[c].operator = r}
SpentGrantIsDead ==
  \A r \in Requests :
    Served(r) # {} /\ Cardinality(Served(r)) >= req[r].uses => usesLeft[r] = 0

\* Once an operator's denial has answered a call, no call of the same intent
\* gets past the gate while the denial memory lasts: the retry is refused
\* without another review.
DenialSticks ==
  [][\A c, d \in Calls :
       /\ IntentOf[c] = IntentOf[d]
       /\ decision[d].method = "denial"
       /\ age[d] < DenialWindow
       /\ pc[c] = "new"
       => pc'[c] = "new" \/ decision'[c].route = "HALT"]_vars

\* Only a refusal by the gate or by an operator enters the denial memory.  A
\* timeout ends the wait, not the work: were a suspended call remembered as a
\* refusal, the retry that a late approval invites would be halted.
OnlyRefusalsAreRemembered ==
  \A i \in Intents :
    denialLeft[i] > 0 =>
      \E c \in Calls : /\ IntentOf[c] = i
                      /\ decision[c].route = "HALT"
                      /\ decision[c].method \in {"gate", "denial"}

\* Every call is answered, whether or not anyone is at the console.
EveryCallAnswered == \A c \in Calls : <>(pc[c] = "done")

\* "Nothing waits forever" (expire_stale): every card the console lists is in
\* the end decided or expired, and stays so, whatever late writes reopened it
\* in the meantime.
Listed(c) == c \in store /\ status[c] \in OpenStatus
NothingWaitsForever == \A c \in Calls : <>[](~Listed(c))

\* The review path implements the human gate.
Gate == INSTANCE HumanGate WITH
  FreeCalls <- {c \in Calls : GateRoute[c] = "ALLOW"},
  approved  <- {IntentOf[req[r].card] : r \in {q \in Requests : Approved(q)}},
  outcome   <- [c \in Calls |-> IF pc[c] = "done" THEN decision[c].route ELSE "OPEN"]

ImplementsHumanGate == Gate!Spec
=============================================================================
