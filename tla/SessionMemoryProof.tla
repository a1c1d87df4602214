-------------------------- MODULE SessionMemoryProof --------------------------
(***************************************************************************)
(* Theorems about SessionMemory, for any number of calls and posts of one  *)
(* session and any budgets: the type invariant, that no interleaving of    *)
(* the reads and writes of the taint lowers a verdict below what the       *)
(* lowest taint of the call's lifetime asks for, and that the domain       *)
(* budget bounds what runs unapproved.                                     *)
(***************************************************************************)
EXTENDS SessionMemory, FiniteSetTheorems, SequenceTheorems, TLAPS

USE DEF memory

-----------------------------------------------------------------------------
(* Facts about routes and deques.                                          *)

(* strictest() of two routes is a route that is at least both.             *)
LEMMA StricterIsUpper ==
  ASSUME NEW r \in Routes, NEW s \in Routes
  PROVE  /\ Stricter(r, s) \in Routes
         /\ AtLeast(Stricter(r, s), r) /\ AtLeast(Stricter(r, s), s)
         /\ Stricter(r, s) = "ALLOW" => r = "ALLOW" /\ s = "ALLOW"
BY DEF Routes, Stricter, AtLeast, Severity

(* At least as strict as, of routes, is transitive.                        *)
LEMMA AtLeastTransitive ==
  ASSUME NEW r \in Routes, NEW s \in Routes, NEW t \in Routes,
         AtLeast(r, s), AtLeast(s, t)
  PROVE  AtLeast(r, t)
BY DEF Routes, AtLeast, Severity

(* An unattended review is a refusal: the route gets no milder.            *)
LEMMA AttendedIsStricter ==
  ASSUME NEW r \in Routes, NEW present \in BOOLEAN
  PROVE  /\ Attended(r, present) \in Routes
         /\ AtLeast(Attended(r, present), r)
         /\ Attended(r, present) = "ALLOW" => r = "ALLOW"
BY PolicyAssumption DEF Routes, Attended, AtLeast, Severity

Ages == 0..(Hour + 1)

(* What the steps do to a deque leaves it one.                             *)
LEMMA DequeKeepsType ==
  ASSUME NEW q \in Seq(Ages)
  PROVE  /\ q # <<>> => Tail(q) \in Seq(Ages)
         /\ Append(q, 0) \in Seq(Ages)
         /\ Elapse(q) \in Seq(Ages)
<1>1. Hour \in Nat /\ 0 \in Ages
  BY PolicyAssumption DEF Ages
<1>2. q # <<>> => Tail(q) \in Seq(Ages)
  OBVIOUS
<1>3. Append(q, 0) \in Seq(Ages)
  BY <1>1
<1>4. Elapse(q) \in Seq(Ages)
  <2>1. DOMAIN q = 1..Len(q) /\ Len(q) \in Nat
    OBVIOUS
  <2>2. ASSUME NEW i \in 1..Len(q)
        PROVE  (IF q[i] > Hour THEN q[i] ELSE q[i] + 1) \in Ages
    BY <1>1, <2>1 DEF Ages
  <2>3. Elapse(q) = [i \in 1..Len(q) |-> IF q[i] > Hour THEN q[i] ELSE q[i] + 1]
    BY <2>1 DEF Elapse
  <2>4. Elapse(q) \in [1..Len(q) -> Ages]
    BY <2>2, <2>3
  <2> QED BY <2>1, <2>4, SeqDef
<1> QED BY <1>2, <1>3, <1>4

(* A call's own view of its policy and its taint consists of routes.       *)
LEMMA PolicyRoutes ==
  /\ \A t \in Levels : TaintFloors[t] \in Routes
  /\ \A c \in Calls, t \in Levels : RouteAt[c][t] \in Routes
  /\ BreachRoute \in Routes /\ "ALLOW" \in Routes /\ "HALT" \in Routes
BY CallsAssumption, PolicyAssumption DEF Routes

-----------------------------------------------------------------------------
(* Types.                                                                  *)

(* Only a call that names a host comes to the steps that count it.         *)
SendsInv == \A c \in Calls : pc[c] \in {"add", "domain"} => DomainOf[c] # NoDomain

(* The loop of _trim(), on either deque.                                   *)
LEMMA TrimKeepsTypes ==
  ASSUME TypeOK, NEW c \in Calls, NEW q \in Deques,
         NEW test \in Places, NEW peek \in Places, NEW pop \in Places, NEW next \in Places,
         \/ TrimTest(c, q, test, peek, next)
         \/ TrimPeek(c, q, peek, pop, next)
         \/ TrimPop(c, q, pop, test)
  PROVE  TypeOK'
<1>0. "failed" \in Places
  BY DEF Places
<1>1. CASE TrimTest(c, q, test, peek, next)
  BY <1>1 DEF TrimTest, Go, TypeOK
<1>2. CASE TrimPeek(c, q, peek, pop, next)
  BY <1>0, <1>2 DEF TrimPeek, Go, TypeOK
<1>3. CASE TrimPop(c, q, pop, test)
  <2>1. (IF recent[q] = <<>> THEN recent[q] ELSE Tail(recent[q])) \in Seq(Ages)
    BY DequeKeepsType DEF TypeOK, Ages
  <2>2. recent' \in [Deques -> Seq(Ages)]
    BY <1>3, <2>1 DEF TrimPop, TypeOK, Ages
  <2>3. pc' \in [Calls -> Places]
    BY <1>0, <1>3 DEF TrimPop, Go, TypeOK
  <2>4. UNCHANGED <<memory, route, read, post, least>>
    BY <1>3 DEF TrimPop
  <2> QED BY <2>2, <2>3, <2>4 DEF TypeOK, Ages
<1> QED BY <1>1, <1>2, <1>3

(* Both of its uses.                                                       *)
LEMMA TrimsKeepTypes ==
  ASSUME TypeOK, NEW c \in Calls, TrimReviews(c) \/ TrimApprovals(c)
  PROVE  TypeOK'
<1>1. /\ {"test", "peek", "pop", "count"} \subseteq Places
      /\ {"test2", "peek2", "pop2", "fatigue"} \subseteq Places
  BY DEF Places
<1>2. "reviews" \in Deques /\ "approvals" \in Deques
  BY DEF Deques
<1>3. CASE TrimReviews(c)
  BY <1>1, <1>2, <1>3, TrimKeepsTypes, Zenon DEF TrimReviews
<1>4. CASE TrimApprovals(c)
  BY <1>1, <1>2, <1>4, TrimKeepsTypes, Zenon DEF TrimApprovals
<1> QED BY <1>3, <1>4

(* Every step of a call keeps the types.                                   *)
LEMMA CallKeepsTypes ==
  ASSUME TypeOK, SendsInv, NEW c \in Calls, CallStep(c)
  PROVE  TypeOK'
<1> USE DEF TypeOK, Go, Places
<1>0. route[c] \in Routes /\ taint \in Levels /\ {"reviews", "approvals"} = Deques
  BY DEF Deques
<1>1. CASE Arrive(c)
  BY <1>1 DEF Arrive
<1>2. CASE SetTurn(c)
  <2>1. TurnOf[c] \in Turns \union {NoTurn}
    BY CallsAssumption
  <2> QED BY <1>2, <2>1 DEF SetTurn
<1>3. CASE ClearTaint(c)
  BY <1>3 DEF ClearTaint, Levels
<1>4. CASE ReadBytes(c)
  BY <1>4 DEF ReadBytes
<1>5. CASE AddBytes(c)
  <2>1. BytesOf[c] \in Nat
    BY CallsAssumption
  <2> QED BY <1>5, <2>1 DEF AddBytes
<1>6. CASE AddDomain(c)
  BY <1>6, CallsAssumption DEF AddDomain, SendsInv
<1>7. CASE RunRules(c)
  <2>1. Stricter(route[c], RouteAt[c][taint]) \in Routes
    BY <1>0, PolicyRoutes, StricterIsUpper
  <2> QED BY <1>7, <2>1 DEF RunRules, Meet
<1>8. CASE ReadTaintFloor(c)
  <2>1. Stricter(route[c], TaintFloors[taint]) \in Routes
    BY <1>0, PolicyRoutes, StricterIsUpper
  <2> QED BY <1>8, <2>1 DEF ReadTaintFloor, Meet
<1>9. CASE CheckEgress(c)
  <2>1. Stricter(route[c], IF OverBudget THEN BreachRoute ELSE "ALLOW") \in Routes
    BY <1>0, PolicyRoutes, StricterIsUpper
  <2> QED BY <1>9, <2>1 DEF CheckEgress, Meet
<1>10. CASE CheckReviews(c)
  <2>1. Stricter(route[c], IF Exceeds(Len(recent["reviews"]), MaxReviews)
                           THEN BreachRoute ELSE "ALLOW") \in Routes
    BY <1>0, PolicyRoutes, StricterIsUpper
  <2> QED BY <1>10, <2>1 DEF CheckReviews, Meet
<1>11. CASE TrimReviews(c) \/ TrimApprovals(c)
  BY <1>11, TrimsKeepTypes
<1>12. CASE Verdict(c)
  <2>1. \A q \in Deques : Append(recent[q], 0) \in Seq(Ages)
    BY DequeKeepsType DEF Ages
  <2>2. \A present \in BOOLEAN : Attended(route[c], present) \in Routes
    BY <1>0, AttendedIsStricter
  <2> QED BY <1>0, <1>12, <2>1, <2>2 DEF Verdict, Record, Ages
<1>13. CASE Finish(c)
  BY <1>13 DEF Finish
<1>14. CASE Approve(c)
  <2>1. \A q \in Deques : Append(recent[q], 0) \in Seq(Ages)
    BY DequeKeepsType DEF Ages
  <2> QED BY <1>0, <1>14, <2>1 DEF Approve, Record, Ages
<1>15. CASE Refuse(c)
  BY <1>15, PolicyRoutes DEF Refuse
<1> QED
  BY <1>1, <1>2, <1>3, <1>4, <1>5, <1>6, <1>7, <1>8, <1>9, <1>10, <1>11, <1>12, <1>13,
     <1>14, <1>15 DEF CallStep

(* So do the posts.                                                        *)
LEMMA PostKeepsTypes ==
  ASSUME TypeOK, NEW p \in Posts, PostStep(p)
  PROVE  TypeOK'
<1> USE DEF TypeOK, PostTo, Levels
<1>1. CASE ReadTaint(p)
  BY <1>1 DEF ReadTaint
<1>2. CASE Expose(p)
  <2>1. Max(post[p].taint, 1) \in Levels
    BY DEF Max
  <2> QED BY <1>2, <2>1 DEF Expose
<1>3. CASE Instruct(p)
  BY <1>3 DEF Instruct
<1> QED BY <1>1, <1>2, <1>3 DEF PostStep

(* A call comes to them from ReadBytes, and from nowhere else.             *)
LEMMA NextKeepsSends == TypeOK /\ SendsInv /\ [Next]_vars => SendsInv'
<1> SUFFICES ASSUME TypeOK, SendsInv, [Next]_vars,
                    NEW d \in Calls, pc'[d] \in {"add", "domain"}
             PROVE  DomainOf[d] # NoDomain
  BY DEF SendsInv
<1>1. CASE pc[d] \in {"add", "domain"}
  BY <1>1 DEF SendsInv
<1>2. CASE pc[d] \notin {"add", "domain"}
  <2>1. pc' # pc
    BY <1>2
  <2>2. PICK c \in Calls : CallStep(c)
    BY <2>1 DEF Next, PostStep, ReadTaint, Expose, Instruct, Tick, vars
  <2>3. CASE ReadBytes(c)
    BY <1>2, <2>3 DEF ReadBytes, Go, TypeOK
  <2>4. CASE ~ReadBytes(c)
    BY <1>2, <2>2, <2>4 DEF CallStep, Arrive, SetTurn, ClearTaint, AddBytes, AddDomain, RunRules,
       ReadTaintFloor, CheckEgress, CheckReviews, TrimReviews, TrimApprovals, TrimTest,
       TrimPeek, TrimPop, Verdict, Finish, Approve, Refuse, Go, TypeOK
  <2> QED BY <2>3, <2>4
<1> QED BY <1>1, <1>2

(* The initial state.                                                      *)
LEMMA InitIsTyped == Init => TypeOK /\ SendsInv
BY PolicyAssumption DEF Init, TypeOK, SendsInv, Levels, Routes, Places, Deques

(* Every step.                                                             *)
LEMMA NextKeepsTypes == TypeOK /\ SendsInv /\ [Next]_vars => TypeOK' /\ SendsInv'
<1> SUFFICES ASSUME TypeOK, SendsInv, [Next]_vars PROVE TypeOK'
  BY NextKeepsSends
<1>1. CASE \E c \in Calls : CallStep(c)
  BY <1>1, CallKeepsTypes
<1>2. CASE \E p \in Posts : PostStep(p)
  BY <1>2, PostKeepsTypes
<1>3. CASE Tick
  <2>1. \A q \in Deques : Elapse(recent[q]) \in Seq(Ages)
    BY DequeKeepsType DEF TypeOK, Ages
  <2> QED BY <1>3, <2>1 DEF Tick, TypeOK, Ages
<1>4. CASE UNCHANGED vars
  BY <1>4 DEF vars, TypeOK
<1> QED BY <1>1, <1>2, <1>3, <1>4 DEF Next

(* The session's memory keeps its shape under every interleaving.          *)
THEOREM SessionTypeCorrect == Spec => []TypeOK
BY InitIsTyped, NextKeepsTypes, PTL DEF Spec

-----------------------------------------------------------------------------
(* Taint.                                                                  *)

(* Where a call is once the rules, and then the floor, have read the taint.*)
AfterFloor == {"budget", "test", "peek", "pop", "count", "decide", "fatigue",
               "test2", "peek2", "pop2", "wait", "approved", "answered"}
AfterRules == AfterFloor \union {"floor"}

(* The taint is never below the lowest there was, and a call has met what  *)
(* the lowest asks for as soon as it has read it at all.                   *)
TaintInv ==
  /\ \A c \in Calls : least[c] <= taint
  /\ \A c \in Calls : pc[c] \in AfterRules => AtLeast(route[c], RouteAt[c][least[c]])
  /\ \A c \in Calls : pc[c] \in AfterFloor => AtLeast(route[c], TaintFloors[least[c]])

(* What one step of the thread of a call does to its own route: the rules  *)
(* and the floor are met where they are read, and nothing lowers a route.  *)
LEMMA OwnStep ==
  ASSUME TypeOK, NEW c \in Calls, CallStep(c)
  PROVE  /\ route'[c] \in Routes
         /\ AtLeast(route'[c], route[c])
         /\ route'[c] = "ALLOW" => route[c] = "ALLOW"
         /\ pc'[c] \in AfterRules => pc[c] \in AfterRules \/ RunRules(c)
         /\ pc'[c] \in AfterFloor => pc[c] \in AfterFloor \/ ReadTaintFloor(c)
         /\ \A d \in Calls \ {c} : pc'[d] = pc[d] /\ route'[d] = route[d]
<1>0. route[c] \in Routes /\ taint \in Levels
  BY DEF TypeOK
<1>1. \A d \in Calls \ {c} : pc'[d] = pc[d] /\ route'[d] = route[d]
  BY DEF CallStep, Arrive, SetTurn, ClearTaint, ReadBytes, AddBytes, AddDomain, RunRules,
     ReadTaintFloor, CheckEgress, CheckReviews, TrimReviews, TrimApprovals, TrimTest,
     TrimPeek, TrimPop, Verdict, Finish, Approve, Refuse, Go, Meet, TypeOK
<1>2. /\ pc'[c] \in AfterRules => pc[c] \in AfterRules \/ RunRules(c)
      /\ pc'[c] \in AfterFloor => pc[c] \in AfterFloor \/ ReadTaintFloor(c)
  BY DEF CallStep, Arrive, SetTurn, ClearTaint, ReadBytes, AddBytes, AddDomain, RunRules,
     ReadTaintFloor, CheckEgress, CheckReviews, TrimReviews, TrimApprovals, TrimTest,
     TrimPeek, TrimPop, Verdict, Finish, Approve, Refuse, Go, TypeOK, AfterRules, AfterFloor
<1>3. \/ route'[c] = route[c]
      \/ \E f \in Routes : route'[c] = Stricter(route[c], f)
      \/ \E present \in BOOLEAN : route'[c] = Attended(route[c], present)
      \/ route'[c] = "HALT"
  <2>1. CASE RunRules(c)
    BY <1>0, <2>1, PolicyRoutes DEF RunRules, Meet, TypeOK
  <2>2. CASE ReadTaintFloor(c)
    BY <1>0, <2>2, PolicyRoutes DEF ReadTaintFloor, Meet, TypeOK
  <2>3. CASE CheckEgress(c)
    BY <2>3, PolicyRoutes DEF CheckEgress, Meet, TypeOK
  <2>4. CASE CheckReviews(c)
    BY <2>4, PolicyRoutes DEF CheckReviews, Meet, TypeOK
  <2>5. CASE Verdict(c)
    BY <2>5 DEF Verdict, TypeOK
  <2>6. CASE Refuse(c)
    BY <2>6 DEF Refuse, TypeOK
  <2>7. CASE UNCHANGED route
    BY <2>7
  <2> QED
    BY <2>1, <2>2, <2>3, <2>4, <2>5, <2>6, <2>7
    DEF CallStep, Arrive, SetTurn, ClearTaint, ReadBytes, AddBytes, AddDomain, TrimReviews,
        TrimApprovals, TrimTest, TrimPeek, TrimPop, Finish, Approve
<1>4. /\ route'[c] \in Routes
      /\ AtLeast(route'[c], route[c])
      /\ route'[c] = "ALLOW" => route[c] = "ALLOW"
  <2>1. CASE route'[c] = route[c]
    BY <1>0, <2>1 DEF AtLeast, Severity, Routes
  <2>2. CASE \E f \in Routes : route'[c] = Stricter(route[c], f)
    BY <1>0, <2>2, StricterIsUpper
  <2>3. CASE \E present \in BOOLEAN : route'[c] = Attended(route[c], present)
    BY <1>0, <2>3, AttendedIsStricter
  <2>4. CASE route'[c] = "HALT"
    BY <1>0, <2>4 DEF AtLeast, Severity, Routes
  <2> QED BY <1>3, <2>1, <2>2, <2>3, <2>4
<1> QED BY <1>1, <1>2, <1>4

(* The lowest taint of a call falls as others clear the taint, and is set  *)
(* only as the call begins.                                                *)
LEMMA LeastFalls ==
  ASSUME TypeOK, \A c \in Calls : least[c] <= taint, [Next]_vars
  PROVE  \A d \in Calls : /\ least'[d] <= taint'
                          /\ least'[d] <= least[d] \/ Arrive(d)
<1>0. taint \in 0..2 /\ \A d \in Calls : least[d] \in 0..2
  BY DEF TypeOK, Levels
<1>1. ASSUME NEW c \in Calls, Arrive(c)
      PROVE  \A d \in Calls : least'[d] <= taint' /\ (least'[d] <= least[d] \/ Arrive(d))
  <2>1. taint' = taint /\ least' = [least EXCEPT ![c] = taint]
    BY <1>1 DEF Arrive
  <2>2. \A d \in Calls : least'[d] = IF d = c THEN taint ELSE least[d]
    BY <2>1 DEF TypeOK
  <2> QED BY <1>0, <1>1, <2>1, <2>2
<1>2. ASSUME NEW c \in Calls, ClearTaint(c)
      PROVE  \A d \in Calls : least'[d] <= taint' /\ least'[d] <= least[d]
  <2>1. taint' = 0 /\ \A d \in Calls : least'[d] = 0
    BY <1>2 DEF ClearTaint
  <2> QED BY <1>0, <2>1
<1>3. ASSUME NEW p \in Posts, Expose(p)
      PROVE  \A d \in Calls : least'[d] <= taint' /\ least'[d] <= least[d]
  <2>1. post[p].taint \in 0..2
    BY DEF TypeOK, Levels
  <2>2. taint' \in 0..2
    BY <1>3, <2>1 DEF Expose, Max
  <2>3. \A d \in Calls : least'[d] = IF least[d] > taint' THEN taint' ELSE least[d]
    BY <1>3 DEF Expose
  <2> QED BY <1>0, <2>2, <2>3
<1>4. ASSUME NEW p \in Posts, Instruct(p)
      PROVE  \A d \in Calls : least'[d] <= taint' /\ least'[d] <= least[d]
  <2>1. taint' = 2 /\ least' = least
    BY <1>4 DEF Instruct
  <2> QED BY <1>0, <2>1
<1>5. ASSUME UNCHANGED <<taint, least>>
      PROVE  \A d \in Calls : least'[d] <= taint' /\ least'[d] <= least[d]
  BY <1>0, <1>5
<1> QED
  BY <1>1, <1>2, <1>3, <1>4, <1>5
  DEF Next, vars, CallStep, SetTurn, ReadBytes, AddBytes, AddDomain, RunRules, ReadTaintFloor,
      CheckEgress, CheckReviews, TrimReviews, TrimApprovals, TrimTest, TrimPeek, TrimPop,
      Verdict, Finish, Approve, Refuse, PostStep, ReadTaint, Tick

(* Every step keeps the invariant: what a call has met stays met as its    *)
(* route rises and the lowest taint falls.                                 *)
LEMMA NextKeepsTaint ==
  ASSUME RisingFloors
  PROVE  TypeOK /\ TypeOK' /\ TaintInv /\ [Next]_vars => TaintInv'
<1> SUFFICES ASSUME TypeOK, TypeOK', TaintInv, [Next]_vars PROVE TaintInv'
  OBVIOUS
<1>1. \A d \in Calls : least'[d] <= taint' /\ (least'[d] <= least[d] \/ Arrive(d))
  BY LeastFalls DEF TaintInv
<1>2. ASSUME NEW d \in Calls
      PROVE  /\ pc'[d] \in AfterRules => AtLeast(route'[d], RouteAt[d][least'[d]])
             /\ pc'[d] \in AfterFloor => AtLeast(route'[d], TaintFloors[least'[d]])
  <2>0. /\ least[d] \in Levels /\ least'[d] \in Levels /\ taint \in Levels
        /\ route[d] \in Routes /\ route'[d] \in Routes
    BY DEF TypeOK
  <2>1. CASE Arrive(d)
    <3>1. pc'[d] \in {"rules", "turn"}
      BY <2>1 DEF Arrive, Go, TypeOK
    <3> QED BY <3>1 DEF AfterRules, AfterFloor
  <2>2. CASE ~Arrive(d)
    <3>1. least'[d] <= least[d]
      BY <1>1, <2>2
    <3>2. AtLeast(RouteAt[d][least[d]], RouteAt[d][least'[d]])
      BY <2>0, <3>1, RoutesAssumption
    <3>3. AtLeast(TaintFloors[least[d]], TaintFloors[least'[d]])
      BY <2>0, <3>1 DEF RisingFloors
    <3>4. /\ RouteAt[d][least[d]] \in Routes /\ RouteAt[d][least'[d]] \in Routes
          /\ TaintFloors[least[d]] \in Routes /\ TaintFloors[least'[d]] \in Routes
          /\ RouteAt[d][taint] \in Routes /\ TaintFloors[taint] \in Routes
      BY <2>0, PolicyRoutes
    <3>5. /\ AtLeast(route'[d], route[d])
          /\ pc'[d] \in AfterRules => pc[d] \in AfterRules \/ RunRules(d)
          /\ pc'[d] \in AfterFloor => pc[d] \in AfterFloor \/ ReadTaintFloor(d)
      <4>1. CASE CallStep(d)
        BY <4>1, OwnStep
      <4>2. CASE \E c \in Calls \ {d} : CallStep(c)
        <5>1. pc'[d] = pc[d] /\ route'[d] = route[d]
          BY <4>2, OwnStep
        <5> QED BY <2>0, <5>1 DEF AtLeast, Severity, Routes
      <4>3. CASE UNCHANGED <<pc, route>>
        BY <2>0, <4>3 DEF AtLeast, Severity, Routes
      <4> QED
        BY <4>1, <4>2, <4>3 DEF Next, PostStep, ReadTaint, Expose, Instruct, Tick, vars
    <3>6. ASSUME pc'[d] \in AfterRules PROVE AtLeast(route'[d], RouteAt[d][least'[d]])
      <4>1. CASE RunRules(d)
        <5>1. /\ route'[d] = Stricter(route[d], RouteAt[d][taint])
              /\ taint' = taint
          BY <4>1 DEF RunRules, Meet, TypeOK
        <5>2. AtLeast(route'[d], RouteAt[d][taint])
          BY <2>0, <3>4, <5>1, StricterIsUpper
        <5>3. AtLeast(RouteAt[d][taint], RouteAt[d][least'[d]])
          BY <1>1, <2>0, <5>1, RoutesAssumption
        <5> QED BY <2>0, <3>4, <5>2, <5>3, AtLeastTransitive
      <4>2. CASE pc[d] \in AfterRules
        <5>1. AtLeast(route[d], RouteAt[d][least[d]])
          BY <4>2 DEF TaintInv
        <5>2. AtLeast(route'[d], RouteAt[d][least[d]])
          BY <2>0, <3>4, <3>5, <5>1, AtLeastTransitive
        <5> QED BY <2>0, <3>2, <3>4, <5>2, AtLeastTransitive
      <4> QED BY <3>5, <3>6, <4>1, <4>2
    <3>7. ASSUME pc'[d] \in AfterFloor PROVE AtLeast(route'[d], TaintFloors[least'[d]])
      <4>1. CASE ReadTaintFloor(d)
        <5>1. /\ route'[d] = Stricter(route[d], TaintFloors[taint])
              /\ taint' = taint
          BY <4>1 DEF ReadTaintFloor, Meet, TypeOK
        <5>2. AtLeast(route'[d], TaintFloors[taint])
          BY <2>0, <3>4, <5>1, StricterIsUpper
        <5>3. AtLeast(TaintFloors[taint], TaintFloors[least'[d]])
          BY <1>1, <2>0, <5>1 DEF RisingFloors
        <5> QED BY <2>0, <3>4, <5>2, <5>3, AtLeastTransitive
      <4>2. CASE pc[d] \in AfterFloor
        <5>1. AtLeast(route[d], TaintFloors[least[d]])
          BY <4>2 DEF TaintInv
        <5>2. AtLeast(route'[d], TaintFloors[least[d]])
          BY <2>0, <3>4, <3>5, <5>1, AtLeastTransitive
        <5> QED BY <2>0, <3>3, <3>4, <5>2, AtLeastTransitive
      <4> QED BY <3>5, <3>7, <4>1, <4>2
    <3> QED BY <3>6, <3>7
  <2> QED BY <2>1, <2>2
<1> QED BY <1>1, <1>2 DEF TaintInv

(* However the accesses to the taint interleave, a verdict is no milder    *)
(* than the lowest taint of its call's lifetime asks for, by the rules and *)
(* by the floor.                                                           *)
THEOREM VerdictsMatchTaint == ASSUME RisingFloors PROVE Spec => []VerdictMatchesTaint
<1> DEFINE Inv == TypeOK /\ SendsInv /\ TaintInv
<1>1. Init => Inv
  <2>1. Init => TaintInv
    BY DEF Init, TaintInv, AfterRules, AfterFloor
  <2> QED BY <2>1, InitIsTyped
<1>2. Inv /\ [Next]_vars => Inv'
  BY NextKeepsTypes, NextKeepsTaint
<1>3. Inv => VerdictMatchesTaint
  BY DEF TaintInv, VerdictMatchesTaint, AfterRules, AfterFloor
<1> QED BY <1>1, <1>2, <1>3, PTL DEF Spec

-----------------------------------------------------------------------------
(* The domain budget.                                                      *)

(* Where a call is once its host is counted, and once the budget is read.  *)
AfterBudget == AfterFloor \ {"budget"}
AfterDomain == AfterRules \union {"inject"}

(* The hosts of the calls that the budget has let pass so far.             *)
Passed == {c \in Calls : pc[c] \in AfterBudget /\ route[c] = "ALLOW"}
Reached == {DomainOf[c] : c \in Passed} \ {NoDomain}

(* A call's host is counted before the budget is read, and hosts are never *)
(* taken off: what has passed lies among the hosts that are counted, and   *)
(* was all of them, at most, when the budget was last met.                 *)
BudgetInv ==
  /\ IsFiniteSet(domains)
  /\ \A c \in Calls : pc[c] \in AfterDomain => DomainOf[c] \in domains \union {NoDomain}
  /\ MaxDomains # 0 /\ BreachRoute # "ALLOW" => Cardinality(Reached) <= MaxDomains

(* Nothing but reading the budget lets a call pass.                        *)
LEMMA PassedGrowsAtBudget ==
  ASSUME TypeOK, [Next]_vars, NEW d \in Passed', d \notin Passed
  PROVE  CheckEgress(d)
<1>1. d \in Calls /\ pc'[d] \in AfterBudget /\ route'[d] = "ALLOW"
  BY DEF Passed
<1>2. CASE CallStep(d)
  <2>1. route[d] = "ALLOW"
    BY <1>1, <1>2, OwnStep
  <2>2. pc[d] \notin AfterBudget
    BY <1>1, <2>1 DEF Passed
  <2> QED
    BY <1>1, <1>2, <2>2 DEF CallStep, Arrive, SetTurn, ClearTaint, ReadBytes, AddBytes, AddDomain,
       RunRules, ReadTaintFloor, CheckEgress, CheckReviews, TrimReviews, TrimApprovals, TrimTest,
       TrimPeek, TrimPop, Verdict, Finish, Approve, Refuse, Go, TypeOK, AfterBudget, AfterFloor
<1>3. CASE \E c \in Calls \ {d} : CallStep(c)
  BY <1>1, <1>3, OwnStep DEF Passed
<1>4. CASE UNCHANGED <<pc, route>>
  BY <1>4 DEF Passed
<1> QED
  BY <1>1, <1>2, <1>3, <1>4 DEF Next, PostStep, ReadTaint, Expose, Instruct, Tick, vars

(* Hosts are only added, by the call itself and before it goes on.         *)
LEMMA DomainsGrow ==
  ASSUME TypeOK, [Next]_vars
  PROVE  /\ domains \subseteq domains'
         /\ IsFiniteSet(domains) => IsFiniteSet(domains')
         /\ \A c \in Calls : pc'[c] \in AfterDomain =>
              \/ pc[c] \in AfterDomain
              \/ DomainOf[c] \in domains' \union {NoDomain}
<1>1. ASSUME NEW c \in Calls, CallStep(c)
      PROVE  /\ domains' = domains \/ domains' = domains \union {DomainOf[c]}
             /\ pc'[c] \in AfterDomain => pc[c] \in AfterDomain
                                       \/ DomainOf[c] \in domains' \union {NoDomain}
             /\ \A d \in Calls \ {c} : pc'[d] = pc[d]
  <2>1. domains' = domains \/ domains' = domains \union {DomainOf[c]}
    BY <1>1 DEF CallStep, Arrive, SetTurn, ClearTaint, ReadBytes, AddBytes, AddDomain, RunRules,
       ReadTaintFloor, CheckEgress, CheckReviews, TrimReviews, TrimApprovals, TrimTest, TrimPeek,
       TrimPop, Verdict, Finish, Approve, Refuse
  <2>2. pc'[c] \in AfterDomain => pc[c] \in AfterDomain
                               \/ DomainOf[c] \in domains' \union {NoDomain}
    BY <1>1 DEF CallStep, Arrive, SetTurn, ClearTaint, ReadBytes, AddBytes, AddDomain, RunRules,
       ReadTaintFloor, CheckEgress, CheckReviews, TrimReviews, TrimApprovals, TrimTest, TrimPeek,
       TrimPop, Verdict, Finish, Approve, Refuse, Go, TypeOK, AfterDomain, AfterRules, AfterFloor
  <2> QED BY <1>1, <2>1, <2>2, OwnStep
<1>2. CASE \E c \in Calls : CallStep(c)
  BY <1>1, <1>2, FS_AddElement
<1>3. CASE UNCHANGED <<pc, domains>>
  BY <1>3
<1> QED
  BY <1>2, <1>3 DEF Next, PostStep, ReadTaint, Expose, Instruct, Tick, vars

(* Every step keeps the budget.                                            *)
LEMMA NextKeepsBudget == TypeOK /\ BudgetInv /\ [Next]_vars => BudgetInv'
<1> SUFFICES ASSUME TypeOK, BudgetInv, [Next]_vars PROVE BudgetInv'
  OBVIOUS
<1>1. IsFiniteSet(domains') /\ domains \subseteq domains'
  BY DomainsGrow DEF BudgetInv
<1>2. ASSUME NEW c \in Calls, pc'[c] \in AfterDomain
      PROVE  DomainOf[c] \in domains' \union {NoDomain}
  BY <1>2, DomainsGrow DEF BudgetInv
<1>3. ASSUME MaxDomains # 0, BreachRoute # "ALLOW"
      PROVE  Cardinality(Reached') <= MaxDomains
  <2>0. MaxDomains \in Nat
    BY PolicyAssumption
  <2>1. Reached \subseteq domains /\ Reached' \subseteq domains'
    BY <1>2 DEF BudgetInv, Reached, Passed, AfterDomain, AfterRules, AfterBudget
  <2>2. IsFiniteSet(Reached) /\ IsFiniteSet(domains)
    BY <2>1, FS_Subset DEF BudgetInv
  <2>3. CASE Passed' \subseteq Passed
    <3>1. Reached' \subseteq Reached
      BY <2>3 DEF Reached
    <3>2. Cardinality(Reached') <= Cardinality(Reached) /\ Cardinality(Reached) \in Nat
      BY <2>2, <3>1, FS_Subset, FS_CardinalityType
    <3>3. Cardinality(Reached') \in Nat
      BY <2>2, <3>1, FS_Subset, FS_CardinalityType
    <3> QED BY <1>3, <2>0, <3>2, <3>3 DEF BudgetInv
  <2>4. CASE ~(Passed' \subseteq Passed)
    <3>1. PICK d \in Passed' : CheckEgress(d)
      BY <2>4, PassedGrowsAtBudget
    <3>2. d \in Calls /\ route'[d] = "ALLOW" /\ domains' = domains
      BY <3>1 DEF CheckEgress, Passed
    <3>3. ~OverBudget
      <4>1. SUFFICES ASSUME OverBudget PROVE FALSE
        OBVIOUS
      <4>2. route'[d] = Stricter(route[d], BreachRoute)
        BY <3>1, <3>2, <4>1 DEF CheckEgress, Meet, TypeOK
      <4>3. route[d] \in Routes
        BY <3>2 DEF TypeOK
      <4> QED BY <1>3, <3>2, <4>2, <4>3, PolicyRoutes, StricterIsUpper
    <3>4. Cardinality(domains) \in Nat
      BY <2>2, FS_CardinalityType
    <3>5. Cardinality(domains) <= MaxDomains
      BY <1>3, <2>0, <3>3, <3>4 DEF OverBudget, Exceeds
    <3>6. Cardinality(Reached') <= Cardinality(domains) /\ Cardinality(Reached') \in Nat
      BY <2>1, <2>2, <3>2, FS_Subset, FS_CardinalityType
    <3> QED BY <2>0, <3>4, <3>5, <3>6
  <2> QED BY <2>3, <2>4
<1> QED BY <1>1, <1>2, <1>3 DEF BudgetInv

(* However the calls of a session interleave, those that run unapproved go *)
(* to no more hosts than the budget allows.                                *)
THEOREM BudgetHolds == Spec => []BudgetBoundsDomains
<1> DEFINE Inv == TypeOK /\ SendsInv /\ BudgetInv
<1>1. Init => Inv
  <2>1. ASSUME Init PROVE BudgetInv
    <3>1. domains = {} /\ Passed = {} /\ \A c \in Calls : pc[c] = "new"
      BY <2>1 DEF Init, Passed, AfterBudget, AfterFloor
    <3>2. Reached = {}
      BY <3>1 DEF Reached
    <3>3. IsFiniteSet({}) /\ Cardinality({}) = 0
      BY FS_EmptySet
    <3>4. 0 <= MaxDomains
      BY PolicyAssumption
    <3> QED
      BY <3>1, <3>2, <3>3, <3>4 DEF BudgetInv, AfterDomain, AfterRules, AfterFloor
  <2> QED BY <2>1, InitIsTyped
<1>2. Inv /\ [Next]_vars => Inv'
  BY NextKeepsTypes, NextKeepsBudget
<1>3. Inv => BudgetBoundsDomains
  <2>1. SUFFICES ASSUME Inv, MaxDomains # 0, BreachRoute # "ALLOW"
                 PROVE  Cardinality(FreeDomains \ {NoDomain}) <= MaxDomains
    BY DEF BudgetBoundsDomains
  <2>2. FreeDomains \ {NoDomain} \subseteq Reached
    BY DEF FreeDomains, Reached, Passed, AfterBudget, AfterFloor
  <2>3. Reached \subseteq domains
    BY <2>1 DEF BudgetInv, Reached, Passed, AfterDomain, AfterRules, AfterBudget
  <2>4. IsFiniteSet(Reached)
    BY <2>1, <2>3, FS_Subset DEF BudgetInv
  <2>5. /\ Cardinality(FreeDomains \ {NoDomain}) <= Cardinality(Reached)
        /\ Cardinality(FreeDomains \ {NoDomain}) \in Nat /\ Cardinality(Reached) \in Nat
    BY <2>2, <2>4, FS_Subset, FS_CardinalityType
  <2> QED BY <2>1, <2>5, PolicyAssumption DEF BudgetInv
<1> QED BY <1>1, <1>2, <1>3, PTL DEF Spec
=============================================================================
