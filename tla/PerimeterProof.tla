---------------------------- MODULE PerimeterProof ----------------------------
(***************************************************************************)
(* Proofs about Perimeter, for any number of calls, commands and projects. *)
(***************************************************************************)
EXTENDS Perimeter, TLAPS

\* A step of each kind: the shape of the case splits below.
EnvStep == Tick \/ Look \/ Forget \/ Restart

-----------------------------------------------------------------------------
(* The shape of the state.                                                 *)

\* The times are positive naturals.
LEMMA Times == DisarmTimes \subseteq Nat \ {0} /\ WindowTTL \in Nat /\ WindowTTL > 0
BY TimesAssumption

\* The first state has the declared shape.
LEMMA InitType == Init => TypeOK
BY CallsAssumption, NamesAssumption
   DEF Init, TypeOK, RungAtStart, ReasonsAtStart, Pins, Rungs, SafeReasons, NoDisarm,
       NoWindow, NewCommand, Scopes, Kinds, Deciding, Routes

\* The comparison of routes: the result is one of them, never the laxer.
LEMMA StricterFact ==
  ASSUME NEW r \in Routes, NEW s \in Routes
  PROVE  /\ Stricter(r, s) \in {r, s}
         /\ r = "HALT" => Stricter(r, s) = "HALT"
         /\ r # "ALLOW" => Stricter(r, s) # "ALLOW"
BY DEF Routes, Stricter, Severity

\* The floor of any rung, and of a disarm, is a route.
LEMMA FloorIsRoute ==
  ASSUME rung \in Rungs, NEW c \in Calls
  PROVE  RungFloor(c) \in Routes /\ DisarmFloor(c) \in Routes
BY DEF RungFloor, DisarmFloor, Rungs, Routes

\* What a step of a call thread does to the call's own route: a HALT stays
\* unless a window lifts it, and ALLOW comes from relief or was there before.
LEMMA RouteStep ==
  ASSUME TypeOK, NEW c \in Calls, CallStep(c)
  PROVE  \E p \in Deciding, r \in Routes :
           /\ Goto(c, p, r)
           /\ p # "new"
           /\ pc[c] # "new" /\ route[c] = "HALT" =>
                r = "HALT" \/ (c \in Maintainable /\ Active(window))
                           \/ (pc[c] = "covers" /\ CoveredByDisarm(c))
           /\ pc[c] = "new" => r = "HALT" \/ r = Base[c]
           /\ pc[c] # "new" /\ r = "ALLOW" /\ route[c] # "ALLOW" =>
                \/ c \in Maintainable /\ Active(window)
                \/ pc[c] = "covers" /\ CoveredByDisarm(c)
           /\ p = "covers" => r = route[c] /\ route[c] # "HALT" /\ c \notin AlwaysDenied
<1> DEFINE Good(p, r) ==
           /\ Goto(c, p, r)
           /\ p # "new"
           /\ pc[c] # "new" /\ route[c] = "HALT" =>
                r = "HALT" \/ (c \in Maintainable /\ Active(window))
                           \/ (pc[c] = "covers" /\ CoveredByDisarm(c))
           /\ pc[c] = "new" => r = "HALT" \/ r = Base[c]
           /\ pc[c] # "new" /\ r = "ALLOW" /\ route[c] # "ALLOW" =>
                \/ c \in Maintainable /\ Active(window)
                \/ pc[c] = "covers" /\ CoveredByDisarm(c)
           /\ p = "covers" => r = route[c] /\ route[c] # "HALT" /\ c \notin AlwaysDenied
<1>1. route[c] \in Routes /\ Base[c] \in Routes /\ rung \in Rungs
  BY CallsAssumption DEF TypeOK
<1>2. SUFFICES \E p \in Deciding, r \in Routes : Good(p, r)
  OBVIOUS
<1>3. ASSUME NEW f \in Routes, NEW present \in BOOLEAN
      PROVE  /\ Attended(Stricter(route[c], f), present) \in Routes
             /\ route[c] = "HALT" => Attended(Stricter(route[c], f), present) = "HALT"
             /\ route[c] # "ALLOW" => Attended(Stricter(route[c], f), present) # "ALLOW"
  BY <1>1, StricterFact DEF Attended, Routes
<1>4. CASE ReadPrior(c)
  <2>1. \/ Good("rung", "HALT") \/ Good("rung", Base[c])
    BY <1>4 DEF ReadPrior
  <2> QED BY <2>1, <1>1 DEF Deciding, Routes
<1>5. ASSUME NEW f \in Routes, Floored(c, f), pc[c] \notin {"new", "covers"}
      PROVE  \E p \in Deciding, r \in Routes : Good(p, r)
  <2>1. PICK present \in BOOLEAN :
             Goto(c, "lift", Attended(Stricter(route[c], f), present))
    BY <1>5 DEF Floored
  <2> DEFINE r == Attended(Stricter(route[c], f), present)
  <2>2. /\ r \in Routes
        /\ route[c] = "HALT" => r = "HALT"
        /\ route[c] # "ALLOW" => r # "ALLOW"
    BY <1>3
  <2>3. Goto(c, "lift", r) BY <2>1
  <2> HIDE DEF r
  <2>4. Good("lift", r) BY <1>5, <2>2, <2>3
  <2> QED BY <2>2, <2>4 DEF Deciding
<1>6. ASSUME NEW p \in {"info", "standing", "scope", "failed"}, Goto(c, p, route[c]), pc[c] # "new"
      PROVE  \E q \in Deciding, r \in Routes : Good(q, r)
  <2>1. Good(p, route[c]) BY <1>6
  <2> QED BY <2>1, <1>1 DEF Deciding
<1>7. RungFloor(c) \in Routes /\ DisarmFloor(c) \in Routes /\ "ALLOW" \in Routes
  BY <1>1, FloorIsRoute DEF Routes
<1>8. CASE ReadRung(c) \/ ReadInfo(c) \/ ReadStanding(c) \/ ReadScope(c)
  <2>1. pc[c] \notin {"new", "covers"}
    BY <1>8 DEF ReadRung, ReadInfo, ReadStanding, ReadScope
  <2>2. \/ \E f \in Routes : Floored(c, f)
        \/ \E p \in {"info", "standing", "scope", "failed"} : Goto(c, p, route[c])
    BY <1>7, <1>8 DEF ReadRung, ReadInfo, ReadStanding, ReadScope
  <2> HIDE DEF Good
  <2> QED BY <1>5, <1>6, <2>1, <2>2
<1>9. CASE Lift(c)
  <2>1. \/ Good("cap", "ALLOW") \/ Good("cap", route[c])
    BY <1>9, <1>1 DEF Lift, Liftable, Routes
  <2> QED BY <2>1, <1>1 DEF Deciding, Routes
<1>10. CASE ReadCap(c)
  <2>1. \/ Good("covers", route[c]) \/ Good("settle", route[c])
    BY <1>10 DEF ReadCap, Cappable
  <2> QED BY <2>1, <1>1 DEF Deciding
<1>11. CASE Cap(c)
  <2>1. \/ Good("settle", "ALLOW") \/ Good("settle", route[c])
    BY <1>11 DEF Cap
  <2> QED BY <2>1, <1>1 DEF Deciding, Routes
<1>12. CASE Settle(c)
  <2>1. Good("record", route[c]) BY <1>12 DEF Settle
  <2> QED BY <2>1, <1>1 DEF Deciding
<1>13. CASE Record(c)
  <2>1. Good("done", route[c]) BY <1>13 DEF Record
  <2> QED BY <2>1, <1>1 DEF Deciding
<1> HIDE DEF Good
<1> QED BY <1>4, <1>9, <1>10, <1>11, <1>12, <1>13, <1>8 DEF CallStep

\* Call steps keep the shape of the state.
LEMMA CallType ==
  ASSUME TypeOK, NEW c \in Calls, CallStep(c)
  PROVE  TypeOK'
<1>1. PICK p \in Deciding, r \in Routes : Goto(c, p, r)
  BY RouteStep
<1>2. pc' \in [Calls -> Deciding] /\ route' \in [Calls -> Routes]
  BY <1>1 DEF Goto, TypeOK
<1>3. UNCHANGED <<pin, cmd>> /\ disarm' \in {disarm, NoDisarm}
  BY DEF InForce, DropExpired, SetState, CallStep, ReadPrior, ReadRung, ReadInfo,
     ReadStanding, ReadScope, Lift, ReadCap, Cap, Settle, Record, relief
<1>4. rung' \in Rungs /\ reasons' \subseteq SafeReasons \union {"unpinned", "disarmed"}
  BY DEF CallStep, ReadPrior, ReadRung, ReadInfo, ReadStanding, ReadScope, Lift, ReadCap,
     Cap, Settle, Record,
         TypeOK, SetState, Shown, DropExpired, Rungs, SafeReasons
<1>5. refused' \subseteq Intents
  BY CallsAssumption
  DEF CallStep, ReadPrior, ReadRung, ReadInfo, ReadStanding, ReadScope, Lift, ReadCap, Cap,
      Settle, Record, TypeOK
<1>6. window' \in [by : Commands, left : 1..WindowTTL, actions : Nat] \union {NoWindow}
  <2>1. CASE UNCHANGED window
    BY <2>1 DEF TypeOK
  <2>2. CASE /\ Active(window)
             /\ window' = [window EXCEPT !.actions = @ + 1]
    <3>1. window \in [by : Commands, left : 1..WindowTTL, actions : Nat]
      BY <2>2 DEF TypeOK, Active, NoWindow
    <3>2. window.actions + 1 \in Nat
      BY <3>1
    <3> QED BY <2>2, <3>1, <3>2
  <2> QED
    BY <2>1, <2>2
    DEF CallStep, ReadPrior, ReadRung, ReadInfo, ReadStanding, ReadScope, Lift, ReadCap,
        Cap, Settle, Record, relief
<1> QED BY <1>2, <1>3, <1>4, <1>5, <1>6 DEF TypeOK

\* Commands keep the shape of the state.
LEMMA CommandType ==
  ASSUME TypeOK, NEW k \in Commands, CommandStep(k)
  PROVE  TypeOK'
<1>1. UNCHANGED <<pin, refused, pc, route>>
  BY DEF CommandStep, Disarm, Maintain, EndRead, EndClose, Rearm, Kill, callVars
<1>2. rung' \in Rungs /\ reasons' \subseteq SafeReasons \union {"unpinned", "disarmed"}
  BY DEF CommandStep, Disarm, Maintain, EndRead, EndClose, Rearm, Kill, TypeOK,
         SetState, Shown, DropExpired, Rungs, SafeReasons
<1>3. disarm' \in [by : Commands, scope : Scopes, left : Nat] \union {NoDisarm}
  <2>1. CASE UNCHANGED disarm
    BY <2>1 DEF TypeOK
  <2>2. CASE disarm' = NoDisarm
    BY <2>2
  <2>3. CASE Disarm(k)
    BY <2>3, Times DEF Disarm
  <2> QED
    BY <2>1, <2>2, <2>3
    DEF CommandStep, Maintain, EndRead, EndClose, Rearm, Kill, relief, InForce, DropExpired,
        SetState
<1>4. window' \in [by : Commands, left : 1..WindowTTL, actions : Nat] \union {NoWindow}
  <2>1. CASE UNCHANGED window
    BY <2>1 DEF TypeOK
  <2>2. CASE window' = NoWindow
    BY <2>2
  <2>3. CASE Maintain(k)
    BY <2>3 DEF Maintain
  <2> QED
    BY <2>1, <2>2, <2>3
    DEF CommandStep, Disarm, EndRead, EndClose, Rearm, Kill, relief
<1>5. cmd' \in [Commands -> [kind : Kinds, scope : Scopes,
                           pc : {"new", "end", "done", "lost"}, noted : Nat]]
  <2> DEFINE Shape == [kind : Kinds, scope : Scopes,
                       pc : {"new", "end", "done", "lost"}, noted : Nat]
  <2>1. cmd \in [Commands -> Shape]
    BY DEF TypeOK
  <2>2. CASE \E kind \in Kinds, scope \in Scopes : Served(k, kind, scope)
    <3>1. PICK kind \in Kinds, scope \in Scopes : Served(k, kind, scope)
      BY <2>2
    <3>2. [kind |-> kind, scope |-> scope, pc |-> "done", noted |-> 0] \in Shape
      OBVIOUS
    <3> QED BY <3>1, <3>2, <2>1 DEF Served
  <2>3. CASE EndRead(k)
    <3>1. PICK n \in Nat :
            cmd' = [cmd EXCEPT ![k] = [kind |-> "end", scope |-> Everywhere, pc |-> "end",
                                       noted |-> n]]
      <4>1. IF Active(window) THEN window.actions \in Nat ELSE TRUE
        BY DEF TypeOK, NoWindow
      <4> QED BY <4>1, <2>3 DEF EndRead
    <3>2. [kind |-> "end", scope |-> Everywhere, pc |-> "end", noted |-> n] \in Shape
      BY DEF Kinds, Scopes
    <3> QED BY <3>1, <3>2, <2>1
  <2>4. CASE EndClose(k)
    <3>1. cmd' = [cmd EXCEPT ![k] = [cmd[k] EXCEPT !.pc = "done"]]
      BY <2>4 DEF EndClose
    <3>2. cmd[k] \in Shape
      BY <2>1
    <3>3. [cmd[k] EXCEPT !.pc = "done"] \in Shape
      BY <3>2
    <3> QED BY <3>1, <3>3, <2>1
  <2>5. Everywhere \in Scopes /\ {"disarm", "maintain", "rearm", "kill"} \subseteq Kinds
    BY DEF Scopes, Kinds
  <2>6. CASE Disarm(k) BY <2>6, <2>2, <2>5 DEF Disarm
  <2>7. CASE Maintain(k) BY <2>7, <2>2, <2>5 DEF Maintain
  <2>8. CASE Rearm(k) BY <2>8, <2>2, <2>5 DEF Rearm
  <2>9. CASE Kill(k) BY <2>9, <2>2, <2>5 DEF Kill
  <2> QED BY <2>3, <2>4, <2>6, <2>7, <2>8, <2>9 DEF CommandStep
<1> QED BY <1>1, <1>2, <1>3, <1>4, <1>5 DEF TypeOK

\* The clock, the denial memory and a restart keep the shape of the state.
LEMMA EnvType ==
  ASSUME TypeOK, EnvStep
  PROVE  TypeOK'
<1>1. CASE Tick
  <2>1. UNCHANGED <<pin, rung, reasons, refused, pc, route, cmd>>
    BY <1>1 DEF Tick, callVars
  <2>3. disarm' \in [by : Commands, scope : Scopes, left : Nat] \union {NoDisarm}
    <3>1. CASE Active(disarm) /\ disarm' = [disarm EXCEPT !.left = @ - 1]
      <4>1. disarm \in [by : Commands, scope : Scopes, left : Nat]
        BY <3>1 DEF TypeOK, NoDisarm, Active
      <4>2. disarm.left - 1 \in Nat
        BY <3>1, <4>1 DEF Active
      <4> QED BY <3>1, <4>1, <4>2
    <3>2. CASE disarm' = disarm
      BY <3>2 DEF TypeOK
    <3> QED BY <1>1, <3>1, <3>2 DEF Tick
  <2>4. window' \in [by : Commands, left : 1..WindowTTL, actions : Nat] \union {NoWindow}
    <3>1. CASE window.left > 1 /\ window' = [window EXCEPT !.left = @ - 1]
      <4>1. window \in [by : Commands, left : 1..WindowTTL, actions : Nat]
        BY <3>1 DEF TypeOK, NoWindow
      <4>2. window.left - 1 \in 1..WindowTTL
        BY <3>1, <4>1, Times
      <4> QED BY <3>1, <4>1, <4>2
    <3>2. CASE window' = NoWindow
      BY <3>2
    <3> QED BY <1>1, <3>1, <3>2 DEF Tick
  <2> QED BY <2>1, <2>3, <2>4 DEF TypeOK
<1>4. CASE Look
  BY <1>4 DEF Look, DropExpired, InForce, Shown, TypeOK, callVars
<1>2. CASE Forget
  BY <1>2 DEF Forget, TypeOK, relief, callVars
<1>3. CASE Restart
  <2>1. pin' \in Pins /\ rung' \in Rungs
        /\ reasons' \subseteq SafeReasons \union {"unpinned", "disarmed"}
    BY <1>3 DEF Restart, RungAtStart, ReasonsAtStart, Rungs, Pins, SafeReasons
  <2>2. pc' \in [Calls -> Deciding]
    BY <1>3 DEF Restart, TypeOK, Deciding
  <2>3. cmd' \in [Commands -> [kind : Kinds, scope : Scopes,
                              pc : {"new", "end", "done", "lost"}, noted : Nat]]
    <3> DEFINE Shape == [kind : Kinds, scope : Scopes,
                         pc : {"new", "end", "done", "lost"}, noted : Nat]
               After(k) == [cmd[k] EXCEPT !.pc = IF @ = "end" THEN "lost" ELSE @]
    <3>1. ASSUME NEW k \in Commands PROVE After(k) \in Shape
      <4>1. cmd[k] \in Shape BY DEF TypeOK
      <4> QED BY <4>1
    <3>2. cmd' = [k \in Commands |-> After(k)]
      BY <1>3 DEF Restart
    <3> HIDE DEF After, Shape
    <3>3. cmd' \in [Commands -> Shape] BY <3>1, <3>2
    <3> QED BY <3>3 DEF Shape
  <2> QED BY <1>3, <2>1, <2>2, <2>3 DEF Restart, TypeOK
<1> QED BY <1>1, <1>2, <1>3, <1>4 DEF EnvStep

\* Type correctness, step by step and for every behaviour.
LEMMA NextType == TypeOK /\ [Next]_vars => TypeOK'
<1> SUFFICES ASSUME TypeOK, [Next]_vars PROVE TypeOK'
  OBVIOUS
<1>1. CASE UNCHANGED vars
  BY <1>1 DEF vars, relief, callVars, TypeOK
<1>2. CASE Next
  BY <1>2, CallType, CommandType, EnvType DEF Next, EnvStep
<1> QED BY <1>1, <1>2

\* The state of the perimeter, the calls and the commands keeps its shape
\* (runwall/state.py, Perimeter), and the rung is always one of the three.
THEOREM PerimeterTypeCorrect == Spec => []TypeOK
<1>1. Init => TypeOK BY InitType
<1>2. TypeOK /\ [Next]_vars => TypeOK' BY NextType
<1> QED BY <1>1, <1>2, PTL DEF Spec

-----------------------------------------------------------------------------
(* A HALT is final.                                                        *)

\* Only a window, on a maintainable class, or the cap could lift a HALT; the
\* cap is reached with no HALT in hand.
CapInv ==
  \A c \in Calls : pc[c] = "covers" => c \notin AlwaysDenied /\ route[c] # "HALT"

\* No route has been worked out for a call the gate has not looked at.
NewInv == \A c \in Calls : pc[c] = "new" => route[c] = "REVIEW"

HaltInv == CapInv /\ NewInv

LEMMA HaltInit == Init => HaltInv
BY DEF Init, HaltInv, CapInv, NewInv

LEMMA HaltInvStep == TypeOK /\ HaltInv /\ [Next]_vars => HaltInv'
<1> SUFFICES ASSUME TypeOK, HaltInv, [Next]_vars PROVE HaltInv'
  OBVIOUS
<1>1. CASE \E c \in Calls : CallStep(c)
  <2>1. PICK c \in Calls : CallStep(c)
    BY <1>1
  <2>2. PICK p \in Deciding, r \in Routes :
          /\ Goto(c, p, r)
          /\ p # "new"
          /\ p = "covers" => r = route[c] /\ route[c] # "HALT" /\ c \notin AlwaysDenied
    BY <2>1, RouteStep
  <2> QED BY <2>2 DEF Goto, HaltInv, CapInv, NewInv, TypeOK
<1>2. CASE Restart
  BY <1>2 DEF Restart, HaltInv, CapInv, NewInv, TypeOK
<1>3. CASE UNCHANGED callVars
  BY <1>3 DEF callVars, HaltInv, CapInv, NewInv
<1> QED
  BY <1>1, <1>2, <1>3
  DEF Next, CommandStep, Disarm, Maintain, EndRead, EndClose, Rearm, Kill, Tick, Look, Forget, vars

\* Once any floor has said HALT, no later read of the perimeter, by any
\* interleaving with the console and the clock, turns the call into anything
\* else, unless its class is maintainable (runwall/gate.py, "Disarm caps,
\* never below HALT").
THEOREM HaltsAreFinal == Spec => HaltIsFinal
<1> DEFINE Final == \A c \in Calls \ Maintainable : route[c] = "HALT" => route'[c] = "HALT"
<1>1. TypeOK /\ HaltInv /\ [Next]_vars => [Final]_vars
  <2> SUFFICES ASSUME TypeOK, HaltInv, [Next]_vars,
                      NEW d \in Calls \ Maintainable, route[d] = "HALT"
               PROVE  route'[d] = "HALT"
    OBVIOUS
  <2>1. CASE \E c \in Calls : CallStep(c)
    <3>1. PICK c \in Calls : CallStep(c)
      BY <2>1
    <3>2. PICK p \in Deciding, r \in Routes :
            /\ Goto(c, p, r)
            /\ pc[c] # "new" /\ route[c] = "HALT" =>
                 r = "HALT" \/ (c \in Maintainable /\ Active(window))
                            \/ (pc[c] = "covers" /\ CoveredByDisarm(c))
      BY <3>1, RouteStep
    <3>3. CASE c = d
      BY <3>2, <3>3 DEF Goto, TypeOK, HaltInv, CapInv, NewInv
    <3>4. CASE c # d
      BY <3>2, <3>4 DEF Goto, TypeOK
    <3> QED BY <3>3, <3>4
  <2>2. CASE UNCHANGED route
    BY <2>2
  <2> QED
    BY <2>1, <2>2
    DEF Next, CommandStep, Disarm, Maintain, EndRead, EndClose, Rearm, Kill, Tick, Look, Forget,
        Restart, vars, callVars
<1>2. Spec => []TypeOK
  BY PerimeterTypeCorrect
<1>3. Spec => []HaltInv
  BY <1>2, HaltInit, HaltInvStep, PTL DEF Spec
<1>4. HaltIsFinal <=> [][Final]_vars
  BY PTL DEF HaltIsFinal
<1> QED BY <1>1, <1>2, <1>3, <1>4, PTL DEF Spec

-----------------------------------------------------------------------------
(* The reasons belong to the rung.                                         *)

\* Nothing sets DEGRADED, so SAFE and ARMED are the whole ladder.
ReasonsInv == rung \in {"ARMED", "SAFE"} /\ ReasonsMatchRung

\* The reasons the console shows belong to the rung (runwall/state.py,
\* set_state and rearm), whatever kills, failures, disarms and restarts came
\* before.
THEOREM ReasonsBelongToRung == Spec => []ReasonsMatchRung
<1>1. Init => ReasonsInv
  BY DEF Init, ReasonsInv, ReasonsMatchRung, RungAtStart, ReasonsAtStart, SafeReasons, Pins
<1>2. ReasonsInv /\ [Next]_vars => ReasonsInv'
  <2> SUFFICES ASSUME ReasonsInv, [Next]_vars PROVE ReasonsInv'
    OBVIOUS
  <2> USE DEF ReasonsInv, ReasonsMatchRung, SafeReasons
  <2>1. CASE UNCHANGED <<rung, reasons>>
    BY <2>1
  <2>2. CASE SetState("SAFE", "ledger") \/ SetState("SAFE", "kill")
    BY <2>2 DEF SetState, Shown
  <2>3. CASE \E k \in Commands : Disarm(k) \/ Rearm(k)
    BY <2>3 DEF Disarm, Rearm
  <2>4. CASE UNCHANGED rung /\ DropExpired
    BY <2>4 DEF DropExpired, Shown
  <2>5. CASE Restart
    BY <2>5 DEF Restart, RungAtStart, ReasonsAtStart, Pins
  <2>6. CASE \E c \in Calls : CallStep(c)
    BY <2>1, <2>2, <2>4, <2>6
    DEF CallStep, ReadPrior, ReadRung, ReadInfo, ReadStanding, ReadScope, Lift, ReadCap,
        Cap, Settle, Record
  <2>7. CASE \E k \in Commands : CommandStep(k)
    BY <2>1, <2>2, <2>3, <2>4, <2>7 DEF CommandStep, Maintain, EndRead, EndClose, Kill
  <2> QED BY <2>1, <2>4, <2>5, <2>6, <2>7 DEF Next, Tick, Look, Forget, vars
<1>3. ReasonsInv => ReasonsMatchRung
  BY DEF ReasonsInv
<1> QED BY <1>1, <1>2, <1>3, PTL DEF Spec

-----------------------------------------------------------------------------
(* Relief has an owner.                                                    *)

\* The relief in force came from a command that asked for it, and a command
\* is of one kind for good.
AskedInv ==
  /\ \A k \in Commands : cmd[k].pc = "new" => cmd[k].kind = "none"
  /\ Active(disarm) => cmd[disarm.by].kind = "disarm" /\ cmd[disarm.by].scope = disarm.scope
  /\ Active(window) => cmd[window.by].kind = "maintain"

\* What the cap could still relax was never a HALT of policy's.
BaseInv ==
  \A c \in Calls \ Maintainable :
    pc[c] # "new" /\ Base[c] = "HALT" => route[c] = "HALT"

OwnerInv == AskedInv /\ BaseInv /\ ReliefHasAnOwner

\* Commands keep their kind and scope once they have one.
CommandsPersist ==
  \A k \in Commands : cmd[k].pc # "new" =>
    /\ cmd'[k].pc # "new"
    /\ cmd'[k].kind = cmd[k].kind
    /\ cmd'[k].scope = cmd[k].scope

\* What relief may reach stays within reach as long as commands persist.
LEMMA ReachPersists ==
  ASSUME TypeOK, AskedInv, CommandsPersist, NEW k \in Commands, NEW c \in Calls,
         DisarmReaches(k, c) \/ WindowReaches(k, c)
  PROVE  (DisarmReaches(k, c) \/ WindowReaches(k, c))'
<1>1. cmd[k].pc # "new"
  BY DEF AskedInv, DisarmReaches, WindowReaches
<1> QED BY <1>1 DEF CommandsPersist, DisarmReaches, WindowReaches

\* Every step lets the commands persist.
LEMMA NextPersists ==
  ASSUME TypeOK, [Next]_vars
  PROVE  CommandsPersist
<1> USE DEF CommandsPersist
<1>1. CASE UNCHANGED cmd
  BY <1>1
<1>2. CASE \E k \in Commands : \E v : cmd[k].pc = "new" /\ cmd' = [cmd EXCEPT ![k] = v]
  BY <1>2 DEF TypeOK
<1>3. CASE \E k \in Commands : EndClose(k)
  <2>1. PICK k \in Commands : EndClose(k)
    BY <1>3
  <2>2. cmd' = [cmd EXCEPT ![k] = [cmd[k] EXCEPT !.pc = "done"]]
    BY <2>1 DEF EndClose
  <2>3. cmd[k] \in [kind : Kinds, scope : Scopes,
                   pc : {"new", "end", "done", "lost"}, noted : Nat]
    BY DEF TypeOK
  <2>4. /\ [cmd[k] EXCEPT !.pc = "done"].kind = cmd[k].kind
        /\ [cmd[k] EXCEPT !.pc = "done"].scope = cmd[k].scope
        /\ [cmd[k] EXCEPT !.pc = "done"].pc = "done"
    BY <2>3
  <2> QED BY <2>2, <2>4 DEF TypeOK
<1>4. CASE Restart
  <2> SUFFICES ASSUME NEW k \in Commands, cmd[k].pc # "new"
               PROVE  /\ cmd'[k].pc # "new"
                      /\ cmd'[k].kind = cmd[k].kind
                      /\ cmd'[k].scope = cmd[k].scope
    OBVIOUS
  <2>1. cmd'[k] = [cmd[k] EXCEPT !.pc = IF @ = "end" THEN "lost" ELSE @]
    BY <1>4 DEF Restart
  <2>2. cmd[k] \in [kind : Kinds, scope : Scopes,
                   pc : {"new", "end", "done", "lost"}, noted : Nat]
    BY DEF TypeOK
  <2> QED BY <2>1, <2>2
<1>5. CASE \E k \in Commands : CommandStep(k)
  <2>1. PICK k \in Commands : CommandStep(k)
    BY <1>5
  <2>2. CASE EndClose(k)
    BY <1>3, <2>2
  <2>3. CASE Disarm(k) BY <2>3, <1>2 DEF Disarm, Served
  <2>4. CASE Maintain(k) BY <2>4, <1>2 DEF Maintain, Served
  <2>5. CASE EndRead(k) BY <2>5, <1>2 DEF EndRead
  <2>6. CASE Rearm(k) BY <2>6, <1>2 DEF Rearm, Served
  <2>7. CASE Kill(k) BY <2>7, <1>2 DEF Kill, Served
  <2> QED BY <2>1, <2>2, <2>3, <2>4, <2>5, <2>6, <2>7 DEF CommandStep
<1> QED
  BY <1>1, <1>4, <1>5
  DEF Next, CallStep, ReadPrior, ReadRung, ReadInfo, ReadStanding, ReadScope, Lift, ReadCap,
      Cap, Settle, Record,
      Tick, Look, Forget, vars

LEMMA OwnerInit == Init => OwnerInv
BY DEF Init, OwnerInv, AskedInv, BaseInv, ReliefHasAnOwner, NewCommand, NoDisarm, NoWindow,
       Active

\* A command leaves the relief in force with a command that asked for it.
LEMMA AskedStep ==
  ASSUME TypeOK, AskedInv, [Next]_vars
  PROVE  AskedInv'
<1>1. CommandsPersist
  BY NextPersists
<1>2. ASSUME NEW k \in Commands, cmd'[k].pc = "new"
      PROVE  cmd'[k].kind = "none"
  <2>1. cmd[k].pc = "new"
    BY <1>1, <1>2 DEF CommandsPersist
  <2>2. cmd[k].kind = "none"
    BY <2>1 DEF AskedInv
  <2>3. CASE cmd'[k] = cmd[k]
    BY <2>2, <2>3
  <2>4. CASE Restart
    <3>1. cmd'[k] = [cmd[k] EXCEPT !.pc = IF @ = "end" THEN "lost" ELSE @]
      BY <2>4 DEF Restart
    <3>2. cmd[k] \in [kind : Kinds, scope : Scopes,
                     pc : {"new", "end", "done", "lost"}, noted : Nat]
      BY DEF TypeOK
    <3> QED BY <3>1, <3>2, <2>2
  <2>5. CASE \E j \in Commands : CommandStep(j)
    <3>1. PICK j \in Commands : CommandStep(j)
      BY <2>5
    <3>2. CASE j # k
      <4>1. cmd'[k] = cmd[k]
        BY <3>1, <3>2
        DEF CommandStep, Disarm, Maintain, EndRead, EndClose, Rearm, Kill, Served, TypeOK
      <4> QED BY <4>1, <2>2
    <3>3. CASE j = k
      <4>1. cmd'[k].pc # "new"
        <5>1. ~EndClose(k) BY <2>1 DEF EndClose
        <5> QED
          BY <3>1, <3>3, <5>1
          DEF CommandStep, Disarm, Maintain, EndRead, Rearm, Kill, Served, TypeOK
      <4> QED BY <4>1, <1>2
    <3> QED BY <3>2, <3>3
  <2> QED
    BY <2>3, <2>4, <2>5
    DEF Next, CallStep, ReadPrior, ReadRung, ReadInfo, ReadStanding, ReadScope, Lift,
        ReadCap, Cap, Settle, Record,
        Tick, Look, Forget, vars
<1>3. ASSUME Active(disarm')
      PROVE  cmd'[disarm'.by].kind = "disarm" /\ cmd'[disarm'.by].scope = disarm'.scope
  <2>1. CASE /\ Active(disarm)
             /\ disarm'.by = disarm.by /\ disarm'.scope = disarm.scope
    <3>1. disarm.by \in Commands
      BY <2>1 DEF TypeOK, Active, NoDisarm
    <3>2. cmd[disarm.by].kind = "disarm" /\ cmd[disarm.by].scope = disarm.scope
      BY <2>1 DEF AskedInv
    <3>3. cmd[disarm.by].pc # "new"
      BY <3>1, <3>2 DEF AskedInv
    <3> QED BY <2>1, <3>1, <3>2, <3>3, <1>1 DEF CommandsPersist
  <2>2. CASE \E k \in Commands : Disarm(k)
    <3>1. PICK k \in Commands, scope \in Scopes, n \in DisarmTimes :
            /\ Served(k, "disarm", scope)
            /\ disarm' = [by |-> k, scope |-> scope, left |-> n]
      BY <2>2 DEF Disarm
    <3> QED BY <3>1 DEF Served, TypeOK
  <2>3. CASE disarm' = NoDisarm
    BY <2>3, <1>3 DEF Active, NoDisarm
  <2>4. CASE UNCHANGED disarm
    BY <2>1, <2>4, <1>3
  <2>5. CASE Tick
    <3>1. CASE Active(disarm) /\ disarm' = [disarm EXCEPT !.left = @ - 1]
      <4>1. disarm \in [by : Commands, scope : Scopes, left : Nat]
        BY <3>1 DEF TypeOK, NoDisarm, Active
      <4>2. disarm'.by = disarm.by /\ disarm'.scope = disarm.scope
        BY <3>1, <4>1
      <4> QED BY <3>1, <4>2, <2>1
    <3> QED BY <3>1, <2>4, <2>5 DEF Tick
  <2>6. CASE disarm' = InForce
    BY <2>3, <2>4, <2>6 DEF InForce
  <2> QED
    BY <2>2, <2>3, <2>4, <2>5, <2>6
    DEF Next, CommandStep, Maintain, EndRead, EndClose, Rearm, Kill, Look, Forget, Restart, vars,
        relief, DropExpired, SetState, CallStep, ReadPrior, ReadRung, ReadInfo, ReadStanding, ReadScope, Lift, ReadCap, Cap, Settle, Record
<1>4. ASSUME Active(window')
      PROVE  cmd'[window'.by].kind = "maintain"
  <2>1. CASE Active(window) /\ window'.by = window.by
    <3>1. window.by \in Commands
      BY <2>1 DEF TypeOK, Active, NoWindow
    <3>2. cmd[window.by].kind = "maintain"
      BY <2>1 DEF AskedInv
    <3>3. cmd[window.by].pc # "new"
      BY <3>1, <3>2 DEF AskedInv
    <3> QED BY <2>1, <3>1, <3>2, <3>3, <1>1 DEF CommandsPersist
  <2>2. CASE \E k \in Commands : Maintain(k)
    BY <2>2 DEF Maintain, Served, TypeOK
  <2>3. CASE window' = NoWindow
    BY <2>3, <1>4 DEF Active, NoWindow
  <2>4. CASE UNCHANGED window
    BY <2>1, <2>4, <1>4
  <2>5. CASE Tick
    <3>1. CASE window.left > 1 /\ window' = [window EXCEPT !.left = @ - 1]
      <4>1. window \in [by : Commands, left : 1..WindowTTL, actions : Nat]
        BY <3>1 DEF TypeOK, NoWindow
      <4>2. Active(window)
        BY <3>1, <4>1 DEF Active
      <4>3. window'.by = window.by
        BY <3>1, <4>1
      <4> QED BY <4>2, <4>3, <2>1
    <3> QED BY <3>1, <2>3, <2>5 DEF Tick
  <2>6. CASE Active(window) /\ window' = [window EXCEPT !.actions = @ + 1]
    <3>1. window \in [by : Commands, left : 1..WindowTTL, actions : Nat]
      BY <2>6 DEF TypeOK, Active, NoWindow
    <3>2. window'.by = window.by
      BY <2>6, <3>1
    <3> QED BY <2>6, <3>2, <2>1
  <2>7. CASE \E c \in Calls : CallStep(c)
    BY <2>4, <2>6, <2>7
    DEF CallStep, ReadPrior, ReadRung, ReadInfo, ReadStanding, ReadScope, Lift, ReadCap,
        Cap, Settle, Record, relief
  <2> QED
    BY <2>2, <2>3, <2>4, <2>5, <2>7
    DEF Next, CommandStep, Disarm, EndRead, EndClose, Rearm, Kill, Look, Forget, Restart, vars,
        relief
<1> QED BY <1>2, <1>3, <1>4 DEF AskedInv, Active

\* A call step that makes the route ALLOW has relief that reaches the call.
LEMMA RelaxedByRelief ==
  ASSUME TypeOK, CapInv, OwnerInv, NEW c \in Calls, Base[c] # "ALLOW",
         \/ c \in Maintainable /\ Active(window)
         \/ pc[c] = "covers" /\ CoveredByDisarm(c)
  PROVE  \E k \in Commands : DisarmReaches(k, c) \/ WindowReaches(k, c)
<1>1. CASE c \in Maintainable /\ Active(window)
  <2>1. window.by \in Commands
    BY <1>1 DEF TypeOK, Active, NoWindow
  <2>2. WindowReaches(window.by, c)
    BY <1>1 DEF OwnerInv, AskedInv, WindowReaches
  <2> QED BY <2>1, <2>2
<1>2. CASE pc[c] = "covers" /\ CoveredByDisarm(c)
  <2>1. disarm.by \in Commands
    BY <1>2 DEF TypeOK, CoveredByDisarm, Active, NoDisarm
  <2>2. c \notin AlwaysDenied /\ route[c] # "HALT"
    BY <1>2 DEF CapInv
  <2>3. c \notin Maintainable
    BY <2>2, CallsAssumption
  <2>4. Base[c] # "HALT"
    BY <1>2, <2>2, <2>3 DEF OwnerInv, BaseInv
  <2>5. DisarmReaches(disarm.by, c)
    BY <1>2, <2>2, <2>4 DEF OwnerInv, AskedInv, DisarmReaches, CoveredByDisarm
  <2> QED BY <2>1, <2>5
<1> QED BY <1>1, <1>2

LEMMA OwnerStep == TypeOK /\ HaltInv /\ OwnerInv /\ [Next]_vars => OwnerInv'
<1> SUFFICES ASSUME TypeOK, HaltInv, OwnerInv, [Next]_vars PROVE OwnerInv'
  OBVIOUS
<1>1. AskedInv'
  BY AskedStep DEF OwnerInv
<1>2. ASSUME NEW c \in Calls, CallStep(c)
      PROVE  BaseInv' /\ ReliefHasAnOwner'
  <2>1. PICK p \in Deciding, r \in Routes :
           /\ Goto(c, p, r)
           /\ p # "new"
           /\ pc[c] # "new" /\ route[c] = "HALT" =>
                r = "HALT" \/ (c \in Maintainable /\ Active(window))
                           \/ (pc[c] = "covers" /\ CoveredByDisarm(c))
           /\ pc[c] = "new" => r = "HALT" \/ r = Base[c]
           /\ pc[c] # "new" /\ r = "ALLOW" /\ route[c] # "ALLOW" =>
                \/ c \in Maintainable /\ Active(window)
                \/ pc[c] = "covers" /\ CoveredByDisarm(c)
    BY <1>2, RouteStep
  <2>2. route'[c] = r /\ pc'[c] = p
    BY <2>1 DEF Goto, TypeOK
  <2>3. \A d \in Calls \ {c} : route'[d] = route[d] /\ pc'[d] = pc[d]
    BY <2>1 DEF Goto, TypeOK
  <2>4. BaseInv'
    <3>1. c \notin Maintainable /\ Base[c] = "HALT" => r = "HALT"
      BY <2>1 DEF OwnerInv, BaseInv, HaltInv, CapInv
    <3> QED BY <3>1, <2>2, <2>3 DEF OwnerInv, BaseInv
  <2>5. ASSUME NEW d \in Calls, route'[d] = "ALLOW", Base[d] # "ALLOW"
        PROVE  (\E k \in Commands : DisarmReaches(k, d) \/ WindowReaches(k, d))'
    <3>1. \E k \in Commands : DisarmReaches(k, d) \/ WindowReaches(k, d)
      <4>1. CASE d # c
        BY <2>3, <2>5, <4>1 DEF OwnerInv, ReliefHasAnOwner
      <4>2. CASE d = c /\ pc[c] = "new"
        BY <2>1, <2>2, <2>5, <4>2
      <4>3. CASE d = c /\ pc[c] # "new" /\ route[c] = "ALLOW"
        BY <2>5, <4>3 DEF OwnerInv, ReliefHasAnOwner
      <4>4. CASE d = c /\ pc[c] # "new" /\ route[c] # "ALLOW"
        <5>1. \/ c \in Maintainable /\ Active(window)
              \/ pc[c] = "covers" /\ CoveredByDisarm(c)
          BY <2>1, <2>2, <2>5, <4>4
        <5> QED BY <5>1, <4>4, <2>5, RelaxedByRelief DEF HaltInv
      <4> QED BY <4>1, <4>2, <4>3, <4>4
    <3>2. PICK k \in Commands : DisarmReaches(k, d) \/ WindowReaches(k, d)
      BY <3>1
    <3>3. (DisarmReaches(k, d) \/ WindowReaches(k, d))'
      BY <3>2, ReachPersists, NextPersists DEF OwnerInv
    <3> QED BY <3>3
  <2> QED BY <2>4, <2>5 DEF ReliefHasAnOwner
<1>3. ASSUME route' = route, \A c \in Calls : pc'[c] # pc[c] => pc[c] # "new"
      PROVE  BaseInv' /\ ReliefHasAnOwner'
  <2>1. BaseInv'
    BY <1>3 DEF OwnerInv, BaseInv
  <2>2. ASSUME NEW d \in Calls, route'[d] = "ALLOW", Base[d] # "ALLOW"
        PROVE  (\E k \in Commands : DisarmReaches(k, d) \/ WindowReaches(k, d))'
    <3>1. PICK k \in Commands : DisarmReaches(k, d) \/ WindowReaches(k, d)
      BY <1>3, <2>2 DEF OwnerInv, ReliefHasAnOwner
    <3>2. (DisarmReaches(k, d) \/ WindowReaches(k, d))'
      BY <3>1, ReachPersists, NextPersists DEF OwnerInv
    <3> QED BY <3>2
  <2> QED BY <2>1, <2>2 DEF ReliefHasAnOwner
<1>4. CASE ~\E c \in Calls : CallStep(c)
  <2>1. route' = route
    BY <1>4
    DEF Next, CommandStep, Disarm, Maintain, EndRead, EndClose, Rearm, Kill, Tick, Look, Forget,
        Restart, vars, callVars
  <2>2. \A c \in Calls : pc'[c] # pc[c] => pc[c] # "new"
    BY <1>4
    DEF Next, CommandStep, Disarm, Maintain, EndRead, EndClose, Rearm, Kill, Tick, Look, Forget,
        Restart, vars, callVars, TypeOK
  <2> QED BY <2>1, <2>2, <1>1, <1>3 DEF OwnerInv
<1> QED BY <1>1, <1>2, <1>4 DEF OwnerInv

\* A call policy would not let run comes out ALLOW only under a disarm whose
\* scope covers it or a maintenance window meant for it (gate.py, the disarm
\* cap and the maintenance lift): all the reads of a perimeter that changes
\* between them never add up to relief nobody asked for.
THEOREM ReliefIsOwned == Spec => []ReliefHasAnOwner
<1>1. Spec => []TypeOK
  BY PerimeterTypeCorrect
<1>2. Spec => []HaltInv
  BY <1>1, HaltInit, HaltInvStep, PTL DEF Spec
<1>3. OwnerInv => ReliefHasAnOwner
  BY DEF OwnerInv
<1> QED BY <1>1, <1>2, <1>3, OwnerInit, OwnerStep, PTL DEF Spec
=============================================================================
