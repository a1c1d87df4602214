----------------------------- MODULE SessionMemory -----------------------------
(***************************************************************************)
(* What the governor remembers of one session (runwall/session.py): taint, *)
(* egress and the deques of recent reviews and approvals, as the request   *)
(* threads of runwall/daemon.py and decide() of runwall/gate.py read and   *)
(* write it.  A session has no lock; each step below is one access.        *)
(*                                                                         *)
(* A call is known by what the rest of decide() makes of it at each level  *)
(* of taint (module Evaluation).  The denials that a session remembers are *)
(* the subject of module Approvals, the perimeter of module Perimeter, and *)
(* here the perimeter is armed.  record_delete() is called by nothing, so  *)
(* there is no delete to count.                                            *)
(***************************************************************************)
EXTENDS Integers, Sequences, FiniteSets

CONSTANTS
  Calls,          \* requests to /decide of one session
  Posts,          \* requests to /api/taint for it
  Turns, NoTurn,  \* user turns, and a payload that names none
  TurnOf,         \* user_turn_id of a call
  RouteAt,        \* of a call, by taint: strictest of score, action and blast routes
  Domains, NoDomain,
  DomainOf,       \* hosts[0] of a call
  BytesOf,        \* length of the action text of a call that names a host
  Imperative,     \* the posts whose body has imperative language
  TaintFloors, BreachRoute, UnattendedReviewHalts,     \* of the policy
  MaxBytes, MaxDomains, MaxReviews,   \* policy.budgets; 0 is no budget
  Earlier,        \* the ages of the reviews and approvals before these calls
  Hour            \* the window of the deques, in ticks

Levels == 0..2    \* CLEAN, EXPOSED, INSTRUCTED
Routes == {"ALLOW", "REVIEW", "HALT"}
Severity == [ALLOW |-> 0, REVIEW |-> 1, HALT |-> 2]
Stricter(r, s) == IF Severity[r] >= Severity[s] THEN r ELSE s
AtLeast(r, s) == Severity[r] >= Severity[s]

ASSUME CallsAssumption ==
  /\ TurnOf \in [Calls -> Turns \union {NoTurn}]
  /\ RouteAt \in [Calls -> [Levels -> Routes]]
  /\ DomainOf \in [Calls -> Domains \union {NoDomain}]
  /\ BytesOf \in [Calls -> Nat]
  /\ Imperative \subseteq Posts
  /\ NoTurn \notin Turns /\ NoDomain \notin Domains
ASSUME PolicyAssumption ==
  /\ TaintFloors \in [Levels -> Routes] /\ TaintFloors[0] = "ALLOW"
  /\ BreachRoute \in Routes
  /\ UnattendedReviewHalts \in BOOLEAN
  /\ {MaxBytes, MaxDomains, MaxReviews, Hour} \subseteq Nat
  /\ Earlier \in Seq(0..(Hour + 1))

(* The judgement of a call alone rises with the taint, under every policy: *)
(* JudgeRisesWithTaint, a theorem of module EvaluationProof.               *)
ASSUME RoutesAssumption ==
  \A t, u \in Levels : t <= u => \A c \in Calls : AtLeast(RouteAt[c][u], RouteAt[c][t])

(* The floors rise with the taint too.  The shipped ones do; _validate()   *)
(* does not compare them.                                                  *)
RisingFloors == \A t, u \in Levels : t <= u => AtLeast(TaintFloors[u], TaintFloors[t])

VARIABLES
  taint,     \* SessionState.taint
  lastTurn,  \* SessionState.last_user_turn
  bytes,     \* SessionState.egress_bytes
  domains,   \* SessionState.domains
  recent,    \* SessionState.reviews and .approvals: the age of each entry
  pc,        \* where the thread of a call is
  route,     \* the floors it has met so far
  read,      \* egress_bytes as the thread read it
  post,      \* the threads of the posts, with the taint they read
  least      \* the lowest taint since a call began (an observation, not code)

memory == <<taint, lastTurn, bytes, domains>>
vars == <<memory, recent, pc, route, read, post, least>>

Deques == {"reviews", "approvals"}
Places == {"new", "turn", "clear", "rules", "add", "domain", "inject", "floor",
           "budget", "test", "peek", "pop", "count", "decide", "fatigue",
           "test2", "peek2", "pop2", "wait", "approved", "answered", "failed"}

TypeOK ==
  /\ taint \in Levels
  /\ lastTurn \in Turns \union {NoTurn}
  /\ bytes \in Nat
  /\ domains \subseteq Domains
  /\ recent \in [Deques -> Seq(0..(Hour + 1))]
  /\ pc \in [Calls -> Places]
  /\ route \in [Calls -> Routes]
  /\ read \in [Calls -> Nat]
  /\ post \in [Posts -> [at : {"new", "read", "exposed", "done"}, taint : Levels]]
  /\ least \in [Calls -> Levels]

Init ==
  /\ taint = 0
  /\ lastTurn = NoTurn
  /\ bytes = 0
  /\ domains = {}
  /\ recent = [q \in Deques |-> Earlier]
  /\ pc = [c \in Calls |-> "new"]
  /\ route = [c \in Calls |-> "ALLOW"]
  /\ read = [c \in Calls |-> 0]
  /\ post = [p \in Posts |-> [at |-> "new", taint |-> 0]]
  /\ least = [c \in Calls |-> 0]

-----------------------------------------------------------------------------
(* Helpers.                                                                *)

(* The thread of c goes from place p to place q; Meet also raises its      *)
(* route to the floor f.                                                   *)
Go(c, p, q) == pc[c] = p /\ pc' = [pc EXCEPT ![c] = q]
Meet(c, f) == route' = [route EXCEPT ![c] = Stricter(route[c], f)]

-----------------------------------------------------------------------------
(* handle_decide() and decide(), by the thread of call c.                  *)

(* note_user_turn(): the test, and the two assignments that follow it.     *)
Arrive(c) ==
  /\ Go(c, "new", IF TurnOf[c] \in {NoTurn, lastTurn} THEN "rules" ELSE "turn")
  /\ least' = [least EXCEPT ![c] = taint]
  /\ UNCHANGED <<memory, recent, route, read, post>>
SetTurn(c) ==
  /\ Go(c, "turn", "clear")
  /\ lastTurn' = TurnOf[c]
  /\ UNCHANGED <<taint, bytes, domains, recent, route, read, post, least>>
ClearTaint(c) ==
  /\ Go(c, "clear", "rules")
  /\ taint' = 0
  /\ least' = [d \in Calls |-> 0]
  /\ UNCHANGED <<lastTurn, bytes, domains, recent, route, read, post>>

(* record_egress(), from the rule destination_gating: egress_bytes is read *)
(* and written, then the first host is added.  It runs before any verdict, *)
(* and so for refused calls as well.                                       *)
ReadBytes(c) ==
  /\ Go(c, "rules", IF DomainOf[c] = NoDomain THEN "inject" ELSE "add")
  /\ read' = [read EXCEPT ![c] = bytes]
  /\ UNCHANGED <<memory, recent, route, post, least>>
AddBytes(c) ==
  /\ Go(c, "add", "domain")
  /\ bytes' = read[c] + BytesOf[c]
  /\ UNCHANGED <<taint, lastTurn, domains, recent, route, read, post, least>>
AddDomain(c) ==
  /\ Go(c, "domain", "inject")
  /\ domains' = domains \union {DomainOf[c]}
  /\ UNCHANGED <<taint, lastTurn, bytes, recent, route, read, post, least>>

(* The injection rule reads the taint, and taint_floor() reads it again (in *)
(* two tests; the floor they give lies between those of what they saw).    *)
RunRules(c) ==
  /\ Go(c, "inject", "floor")
  /\ Meet(c, RouteAt[c][taint])
  /\ UNCHANGED <<memory, recent, read, post, least>>
ReadTaintFloor_First(c) ==
  /\ Go(c, "floor", "budget")
  /\ Meet(c, IF taint = 1 THEN TaintFloors[1] ELSE "ALLOW")
  /\ UNCHANGED <<memory, recent, read, post, least>>
ReadTaintFloor(c) ==
  /\ Go(c, "floor", "budget")
  /\ Meet(c, TaintFloors[taint])
  /\ UNCHANGED <<memory, recent, read, post, least>>

(* budget_breaches(): egress and domains, then the reviews of the last     *)
(* hour once the old ones are trimmed.                                     *)
Exceeds(n, budget) == budget # 0 /\ n > budget
OverBudget_Both == Exceeds(bytes, MaxBytes) /\ Exceeds(Cardinality(domains), MaxDomains)
OverBudget == Exceeds(bytes, MaxBytes) \/ Exceeds(Cardinality(domains), MaxDomains)
CheckEgress(c) ==
  /\ Go(c, "budget", "test")
  /\ Meet(c, IF OverBudget THEN BreachRoute ELSE "ALLOW")
  /\ UNCHANGED <<memory, recent, read, post, least>>
CheckReviews(c) ==
  /\ Go(c, "count", "decide")
  /\ Meet(c, IF Exceeds(Len(recent["reviews"]), MaxReviews) THEN BreachRoute ELSE "ALLOW")
  /\ UNCHANGED <<memory, recent, read, post, least>>

(* _trim(q): while there is an entry, and the first is old, drop the first.*)
(* Another thread may drop entries in between: the first one is then       *)
(* another, or there is none and the IndexError ends the request.          *)
TrimTest(c, q, test, peek, next) ==
  /\ Go(c, test, IF recent[q] = <<>> THEN next ELSE peek)
  /\ UNCHANGED <<memory, recent, route, read, post, least>>
TrimPeek(c, q, peek, pop, next) ==
  /\ Go(c, peek, IF recent[q] = <<>> THEN "failed"
                 ELSE IF Head(recent[q]) > Hour THEN pop ELSE next)
  /\ UNCHANGED <<memory, recent, route, read, post, least>>
TrimPop_Keep(c, q, pop, test) ==
  /\ Go(c, pop, IF recent[q] = <<>> THEN "failed" ELSE test)
  /\ UNCHANGED <<memory, recent, route, read, post, least>>
TrimPop(c, q, pop, test) ==
  /\ Go(c, pop, IF recent[q] = <<>> THEN "failed" ELSE test)
  /\ recent' = [recent EXCEPT ![q] = IF @ = <<>> THEN @ ELSE Tail(@)]
  /\ UNCHANGED <<memory, route, read, post, least>>
TrimReviews(c) ==
  \/ TrimTest(c, "reviews", "test", "peek", "count")
  \/ TrimPeek(c, "reviews", "peek", "pop", "count")
  \/ TrimPop(c, "reviews", "pop", "test")

(* fatigue_signal(), at the end of decide(), trims the approvals.          *)
TrimApprovals(c) ==
  \/ TrimTest(c, "approvals", "test2", "peek2", "fatigue")
  \/ TrimPeek(c, "approvals", "peek2", "pop2", "fatigue")
  \/ TrimPop(c, "approvals", "pop2", "test2")

(* The verdict: with no operator connected a REVIEW is a refusal; a REVIEW *)
(* that stands is recorded.                                                *)
Attended(r, present) ==
  IF r = "REVIEW" /\ ~present /\ UnattendedReviewHalts THEN "HALT" ELSE r
Record(q) == recent' = [recent EXCEPT ![q] = Append(@, 0)]
Verdict(c) ==
  /\ Go(c, "decide", "test2")
  /\ \E present \in BOOLEAN :
       /\ route' = [route EXCEPT ![c] = Attended(@, present)]
       /\ IF route'[c] = "REVIEW" THEN Record("reviews") ELSE UNCHANGED recent
  /\ UNCHANGED <<memory, read, post, least>>

(* A REVIEW waits for the operator; an approval is recorded.               *)
Finish(c) ==
  /\ Go(c, "fatigue", IF route[c] = "REVIEW" THEN "wait" ELSE "answered")
  /\ UNCHANGED <<memory, recent, route, read, post, least>>
Approve(c) ==
  /\ Go(c, "wait", "approved")
  /\ Record("approvals")
  /\ UNCHANGED <<memory, route, read, post, least>>
Refuse(c) ==
  /\ Go(c, "wait", "answered")
  /\ route' = [route EXCEPT ![c] = "HALT"]
  /\ UNCHANGED <<memory, recent, read, post, least>>

CallStep(c) ==
  \/ Arrive(c) \/ SetTurn(c) \/ ClearTaint(c)
  \/ ReadBytes(c) \/ AddBytes(c) \/ AddDomain(c)
  \/ RunRules(c) \/ ReadTaintFloor(c)
  \/ CheckEgress(c) \/ TrimReviews(c) \/ CheckReviews(c)
  \/ Verdict(c) \/ TrimApprovals(c) \/ Finish(c)
  \/ Approve(c) \/ Refuse(c)

-----------------------------------------------------------------------------
(* note_external_content(), by the thread of post p: the taint is raised   *)
(* to EXPOSED by a read and a write, and then set if the body says so.     *)
PostTo(p, at, level) == post' = [post EXCEPT ![p] = [at |-> at, taint |-> level]]
Max(m, n) == IF m >= n THEN m ELSE n

ReadTaint(p) ==
  /\ post[p].at = "new"
  /\ PostTo(p, "read", taint)
  /\ UNCHANGED <<memory, recent, pc, route, read, least>>
Expose_Count(p) ==
  /\ post[p].at = "read"
  /\ taint' = post[p].taint + 1
  /\ PostTo(p, IF p \in Imperative THEN "exposed" ELSE "done", 0)
  /\ UNCHANGED <<lastTurn, bytes, domains, recent, pc, route, read, least>>
Expose(p) ==
  /\ post[p].at = "read"
  /\ taint' = Max(post[p].taint, 1)
  /\ least' = [c \in Calls |-> IF least[c] > taint' THEN taint' ELSE least[c]]
  /\ PostTo(p, IF p \in Imperative THEN "exposed" ELSE "done", 0)
  /\ UNCHANGED <<lastTurn, bytes, domains, recent, pc, route, read>>
Instruct(p) ==
  /\ post[p].at = "exposed"
  /\ taint' = 2
  /\ PostTo(p, "done", 0)
  /\ UNCHANGED <<lastTurn, bytes, domains, recent, pc, route, read, least>>
PostStep(p) == ReadTaint(p) \/ Expose(p) \/ Instruct(p)

(* A tick of the clock; an entry out of the window gets no older.          *)
Elapse(ages) == [i \in DOMAIN ages |-> IF ages[i] > Hour THEN ages[i] ELSE ages[i] + 1]
Tick ==
  /\ \E q \in Deques : Elapse(recent[q]) # recent[q]
  /\ recent' = [q \in Deques |-> Elapse(recent[q])]
  /\ UNCHANGED <<memory, pc, route, read, post, least>>

Next ==
  \/ \E c \in Calls : CallStep(c)
  \/ \E p \in Posts : PostStep(p)
  \/ Tick

Spec == Init /\ [][Next]_vars

(* Request threads of the HTTP server are scheduled, and the wait for an   *)
(* operator has a timeout.                                                 *)
Fairness ==
  /\ \A c \in Calls : WF_vars(CallStep(c))
  /\ \A p \in Posts : WF_vars(PostStep(p))
FairSpec == Spec /\ Fairness

-----------------------------------------------------------------------------
(* Properties.                                                             *)

Ended == {"answered", "approved", "failed"}

(* The taint is read twice, by the laundering rule and for the floor, and  *)
(* other requests clear and raise it in between.  A call is still held to  *)
(* what the lowest taint of its lifetime asks for, by both.                *)
VerdictMatchesTaint ==
  \A c \in Calls : pc[c] \in {"answered", "approved"} =>
    /\ AtLeast(route[c], RouteAt[c][least[c]])
    /\ AtLeast(route[c], TaintFloors[least[c]])

(* A budget is for the session, not for the call: however the calls of a   *)
(* session interleave, those that run without an operator's approval go to *)
(* no more domains than the budget allows.                                 *)
FreeDomains == {DomainOf[c] : c \in {d \in Calls : pc[d] = "answered" /\ route[d] = "ALLOW"}}
BudgetBoundsDomains ==
  MaxDomains # 0 /\ BreachRoute # "ALLOW"
  => Cardinality(FreeDomains \ {NoDomain}) <= MaxDomains

(* Every request is answered, or fails: the loops that trim the deques end *)
(* although other threads add to them and drop from them.                  *)
EveryCallEnds == \A c \in Calls : <>(pc[c] \in Ended)
=============================================================================
