------------------------------- MODULE Perimeter -------------------------------
(***************************************************************************)
(* The perimeter of the governor (runwall/state.py) as the gate reads it   *)
(* (runwall/gate.py, decide) and as the operator's console and the         *)
(* governor move it (runwall/daemon.py).                                   *)
(*                                                                         *)
(* The perimeter has a rung, and two kinds of relief from it: a disarm of  *)
(* a scope, and a maintenance window on the governor's own source.  A      *)
(* deciding thread reads rung, disarm and window one after another, each   *)
(* read under the perimeter's lock and all of them together under none;    *)
(* the operator's commands and the clock fall in between.  The floors that *)
(* do not depend on the perimeter are one route, Base.  What becomes of a  *)
(* REVIEW is the subject of module Approvals.                              *)
(***************************************************************************)
EXTENDS Integers, FiniteSets

CONSTANTS
  Calls,          \* tool calls
  Commands,       \* operators' commands on the console, each served once
  Projects,       \* working directories
  Everywhere,     \* a scope of "" or "*"
  Within,         \* the pairs <<p, q>> of a project p in the tree of q
  CwdOf,          \* env.cwd of a call
  Intents,        \* session id and intent fingerprint, taken together
  IntentOf,       \* the intent of a call
  Base,           \* strictest of the score, action, blast, taint and budget routes
  AlwaysDenied,   \* calls whose action class is in ALWAYS_DENIED
  Maintainable,   \* calls whose action class is in MAINTAINABLE
  SafeAllowed,    \* calls whose action class is in SAFE_ALLOWED
  UnattendedReviewHalts,  \* policy.approval["unattended_review_halts"]
  DisarmTimes,    \* durations asked of a disarm, in ticks; the code has no longest
  WindowTTL,      \* longest maintenance window, in ticks
  Nobody          \* no command: Perimeter._disarm or _maintenance is None

Routes == {"ALLOW", "REVIEW", "HALT"}
Rungs  == {"ARMED", "DEGRADED", "SAFE"}
Pins   == {"match", "mismatch", "unpinned"}
Scopes == Projects \union {Everywhere}

ASSUME CallsAssumption ==
  /\ CwdOf \in [Calls -> Projects]
  /\ IntentOf \in [Calls -> Intents]
  /\ Base \in [Calls -> Routes]
  /\ Maintainable \subseteq AlwaysDenied
  /\ AlwaysDenied \subseteq Calls
  /\ SafeAllowed \subseteq Calls \ AlwaysDenied
  /\ UnattendedReviewHalts \in BOOLEAN

ASSUME NamesAssumption ==
  /\ Nobody \notin Commands
  /\ Everywhere \notin Projects

ASSUME TimesAssumption ==
  /\ DisarmTimes \subseteq Nat \ {0}
  /\ WindowTTL \in Nat \ {0}

VARIABLES
  pin,      \* what load() found of the policy and its manifest at start
  rung,     \* Perimeter._state
  reasons,  \* Perimeter._reasons, by the kind of reason
  disarm,   \* Perimeter._disarm: the command it came from, scope, ticks left;
            \* an expired one stands until the state is read
  window,   \* Perimeter._maintenance: command, ticks left, actions counted
  refused,  \* the intents whose refusal the sessions remember
  pc,       \* where decide() is with a call
  route,    \* the route it has come to so far
  cmd       \* the commands: what was asked, how far it is, what was noted

relief == <<disarm, window>>
callVars == <<pc, route>>
vars == <<pin, rung, reasons, relief, refused, callVars, cmd>>

NoDisarm == [by |-> Nobody, scope |-> Everywhere, left |-> 0]
NoWindow == [by |-> Nobody, left |-> 0, actions |-> 0]
NewCommand == [kind |-> "none", scope |-> Everywhere, pc |-> "new", noted |-> 0]

-----------------------------------------------------------------------------
(* Helpers.                                                                *)

\* gate.strictest() on routes.
Severity == [ALLOW |-> 0, REVIEW |-> 1, HALT |-> 2]
Stricter(r, s) == IF Severity[r] >= Severity[s] THEN r ELSE s

\* Disarm.covers()
Covers(scope, cwd) == scope = Everywhere \/ <<cwd, scope>> \in Within

\* Disarm.active() and Maintenance.active()
Active(r) == r.left > 0

\* disarm_covers(): there is an active disarm and it covers the call.
CoveredByDisarm_Info(c) == Active(disarm)
CoveredByDisarm(c) == Active(disarm) /\ Covers(disarm.scope, CwdOf[c])

\* Perimeter.state, apart from its value: an expired disarm is dropped with
\* its reason.  Shown is what that leaves of reasons rs.
InForce == IF Active(disarm) THEN disarm ELSE NoDisarm
Shown(rs) == IF disarm # InForce THEN rs \ {"disarmed"} ELSE rs
DropExpired ==
  /\ disarm' = InForce
  /\ reasons' = Shown(reasons)

\* The tail of floor(), once the perimeter is known not to be disarmed.  No
\* code of the governor sets DEGRADED.
RungFloor(c) ==
  CASE rung = "ARMED"    -> "ALLOW"
    [] rung = "SAFE"     -> IF c \in SafeAllowed THEN "ALLOW" ELSE "HALT"
    [] rung = "DEGRADED" -> IF c \in AlwaysDenied THEN "HALT"
                            ELSE IF c \in SafeAllowed THEN "ALLOW" ELSE "REVIEW"

\* The head of floor(), ALLOW whether the disarm covers the call or not.  It
\* asks covers() of a disarm that may have expired since.
DisarmFloor(c) ==
  IF Covers(disarm.scope, CwdOf[c]) /\ c \in AlwaysDenied THEN "HALT" ELSE "ALLOW"

\* What decide() makes of route r after the floor: an unattended REVIEW is a
\* refusal.
Attended(r, present) ==
  IF r = "REVIEW" /\ ~present /\ UnattendedReviewHalts THEN "HALT" ELSE r

\* set_state(): a change of rung drops the reasons of the old one.  Writing
\* the snapshot reads the state.
SetState_KeepReasons(r, why) ==
  /\ rung' = r
  /\ reasons' = Shown(IF r # rung THEN reasons ELSE reasons \union {why})
  /\ disarm' = InForce
SetState(r, why) ==
  /\ rung' = r
  /\ reasons' = Shown(IF r # rung THEN {why} ELSE reasons \union {why})
  /\ disarm' = InForce

\* What Governor.__init__ makes of the pin: a mismatch is SAFE.
RungAtStart(p)    == IF p = "mismatch" THEN "SAFE" ELSE "ARMED"
ReasonsAtStart_EvenMatch(p) == {p}
ReasonsAtStart(p) == IF p = "match" THEN {} ELSE {p}

Init ==
  /\ pin \in Pins
  /\ rung = RungAtStart(pin)
  /\ reasons = ReasonsAtStart(pin)
  /\ disarm = NoDisarm
  /\ window = NoWindow
  /\ refused = {}
  /\ pc = [c \in Calls |-> "new"]
  /\ route = [c \in Calls |-> "REVIEW"]
  /\ cmd = [k \in Commands |-> NewCommand]

-----------------------------------------------------------------------------
(* A call thread: decide() and _record().                                  *)

\* Move the call to pc p with route r.
Goto(c, p, r) ==
  /\ pc' = [pc EXCEPT ![c] = p]
  /\ route' = [route EXCEPT ![c] = r]

\* session.prior_denial(): a remembered refusal is a HALT.
ReadPrior(c) ==
  /\ pc[c] = "new"
  /\ Goto(c, "rung", IF IntentOf[c] \in refused THEN "HALT" ELSE Base[c])
  /\ UNCHANGED <<pin, rung, reasons, relief, refused, cmd>>

\* The route once the floor is known.
Floored(c, floor) ==
  \E present \in BOOLEAN : Goto(c, "lift", Attended(Stricter(route[c], floor), present))

\* floor() reads the state; unless it is DISARMED, that is the floor.
ReadRung(c) ==
  /\ pc[c] = "rung"
  /\ IF Active(disarm) THEN Goto(c, "info", route[c]) ELSE Floored(c, RungFloor(c))
  /\ DropExpired
  /\ UNCHANGED <<pin, rung, window, refused, cmd>>

\* floor() read DISARMED.  It now asks for the active disarm, ...
ReadInfo(c) ==
  /\ pc[c] = "info"
  /\ IF Active(disarm) THEN Goto(c, "standing", route[c]) ELSE Floored(c, "ALLOW")
  /\ UNCHANGED <<pin, rung, reasons, relief, refused, cmd>>

\* ... then, without the lock, whether there is one, ...
ReadStanding(c) ==
  /\ pc[c] = "standing"
  /\ IF disarm # NoDisarm THEN Goto(c, "scope", route[c]) ELSE Floored(c, "ALLOW")
  /\ UNCHANGED <<pin, rung, reasons, relief, refused, cmd>>

\* ... and then that one's scope.  If it has been dropped since, decide() ends
\* with an AttributeError, the request with HTTP 500, and the hook refuses.
ReadScope(c) ==
  /\ pc[c] = "scope"
  /\ IF disarm # NoDisarm THEN Floored(c, DisarmFloor(c)) ELSE Goto(c, "failed", route[c])
  /\ UNCHANGED <<pin, rung, reasons, relief, refused, cmd>>

\* maintenance_allows(): an active window lifts and counts.
Liftable(c) == c \in Maintainable

Lift(c) ==
  /\ pc[c] = "lift"
  /\ \/ /\ Liftable(c) /\ Active(window)
        /\ window' = [window EXCEPT !.actions = @ + 1]
        /\ Goto(c, "cap", "ALLOW")
     \/ /\ ~(Liftable(c) /\ Active(window))
        /\ Goto(c, "cap", route[c])
        /\ UNCHANGED window
  /\ UNCHANGED <<pin, rung, reasons, disarm, refused, cmd>>

\* The guard of the disarm cap, with its own read of the state ...
Cappable_EvenHalt(c) == c \notin AlwaysDenied
Cappable(c) == route[c] # "HALT" /\ c \notin AlwaysDenied

ReadCap(c) ==
  /\ pc[c] = "cap"
  /\ Goto(c, IF Active(disarm) /\ Cappable(c) THEN "covers" ELSE "settle", route[c])
  /\ DropExpired
  /\ UNCHANGED <<pin, rung, window, refused, cmd>>

\* ... and then disarm_covers().
Cap(c) ==
  /\ pc[c] = "covers"
  /\ Goto(c, "settle", IF CoveredByDisarm(c) THEN "ALLOW" ELSE route[c])
  /\ UNCHANGED <<pin, rung, reasons, relief, refused, cmd>>

\* record_denial(): every HALT is remembered, the perimeter's own included.
\* The decision names the state.
Settle(c) ==
  /\ pc[c] = "settle"
  /\ Goto(c, "record", route[c])
  /\ refused' = IF route[c] = "HALT" THEN refused \union {IntentOf[c]} ELSE refused
  /\ DropExpired
  /\ UNCHANGED <<pin, rung, window, cmd>>

\* _record(): a ledger that cannot be written puts the perimeter in SAFE,
\* and the decision is answered all the same.
Record(c) ==
  /\ pc[c] = "record"
  /\ Goto(c, "done", route[c])
  /\ \/ UNCHANGED <<rung, reasons, disarm>>
     \/ SetState("SAFE", "ledger")
  /\ UNCHANGED <<pin, window, refused, cmd>>

CallStep(c) ==
  \/ ReadPrior(c)
  \/ ReadRung(c)
  \/ ReadInfo(c)
  \/ ReadStanding(c)
  \/ ReadScope(c)
  \/ Lift(c)
  \/ ReadCap(c)
  \/ Cap(c)
  \/ Settle(c)
  \/ Record(c)

-----------------------------------------------------------------------------
(* The operator's commands.  Disarm and Maintain passed the step-up.       *)

Served(k, kind, scope) ==
  /\ cmd[k].pc = "new"
  /\ cmd' = [cmd EXCEPT ![k] = [kind |-> kind, scope |-> scope, pc |-> "done", noted |-> 0]]

\* Perimeter.disarm(): a new disarm replaces the one in force, for as long as
\* the request says.
Disarm(k) ==
  /\ \E scope \in Scopes, n \in DisarmTimes :
       /\ Served(k, "disarm", scope)
       /\ disarm' = [by |-> k, scope |-> scope, left |-> n]
  /\ reasons' = reasons \union {"disarmed"}
  /\ UNCHANGED <<pin, rung, window, refused, callVars>>

\* Perimeter.begin_maintenance(): a new window replaces the one in force.
Maintain(k) ==
  /\ Served(k, "maintain", Everywhere)
  /\ \E n \in 1..WindowTTL : window' = [by |-> k, left |-> n, actions |-> 0]
  /\ DropExpired
  /\ UNCHANGED <<pin, rung, refused, callVars>>

\* Governor.end_maintenance() first reads what it will note ...
EndRead(k) ==
  /\ cmd[k].pc = "new"
  /\ cmd' = [cmd EXCEPT ![k] = [kind |-> "end", scope |-> Everywhere, pc |-> "end",
                                noted |-> IF Active(window) THEN window.actions ELSE 0]]
  /\ UNCHANGED <<pin, rung, reasons, relief, refused, callVars>>

\* ... and then ends whatever window there is.
EndClose(k) ==
  /\ cmd[k].pc = "end"
  /\ cmd' = [cmd EXCEPT ![k].pc = "done"]
  /\ window' = NoWindow
  /\ DropExpired
  /\ UNCHANGED <<pin, rung, refused, callVars>>

\* Governor.rearm(): back to ARMED, whatever the pin says; the window stays.
Rearm(k) ==
  /\ Served(k, "rearm", Everywhere)
  /\ rung' = "ARMED"
  /\ reasons' = {}
  /\ disarm' = NoDisarm
  /\ UNCHANGED <<pin, window, refused, callVars>>

\* Governor.kill_switch(): SAFE; disarm and window stay.
Kill(k) ==
  /\ Served(k, "kill", Everywhere)
  /\ SetState("SAFE", "kill")
  /\ UNCHANGED <<pin, window, refused, callVars>>

CommandStep(k) ==
  \/ Disarm(k)
  \/ Maintain(k)
  \/ EndRead(k)
  \/ EndClose(k)
  \/ Rearm(k)
  \/ Kill(k)

-----------------------------------------------------------------------------
(* Time and restarts.                                                      *)

\* Time passes for what is active.  A window that has expired is as good as
\* none to whoever reads it.
Tick ==
  /\ Active(disarm) \/ Active(window)
  /\ disarm' = IF Active(disarm) THEN [disarm EXCEPT !.left = @ - 1] ELSE disarm
  /\ window' = IF window.left > 1 THEN [window EXCEPT !.left = @ - 1] ELSE NoWindow
  /\ UNCHANGED <<pin, rung, reasons, refused, callVars, cmd>>

\* The console, or a call decided elsewhere, reads the state.
Look ==
  /\ disarm # InForce
  /\ DropExpired
  /\ UNCHANGED <<pin, rung, window, refused, callVars, cmd>>

\* denial_memory_seconds have passed since an intent's last refusal.
Forget ==
  /\ \E i \in refused : refused' = refused \ {i}
  /\ UNCHANGED <<pin, rung, reasons, relief, callVars, cmd>>

\* The governor stops and starts again.  Rung, relief and session memory
\* live in the process (perimeter.json is written and never read), the
\* policy may have changed meanwhile, and calls and commands under way die.
Restart ==
  /\ pin' \in Pins
  /\ rung' = RungAtStart(pin')
  /\ reasons' = ReasonsAtStart(pin')
  /\ disarm' = NoDisarm
  /\ window' = NoWindow
  /\ refused' = {}
  /\ pc' = [c \in Calls |-> IF pc[c] \in {"new", "done", "failed"} THEN pc[c] ELSE "lost"]
  /\ cmd' = [k \in Commands |-> [cmd[k] EXCEPT !.pc = IF @ = "end" THEN "lost" ELSE @]]
  /\ UNCHANGED route

Next ==
  \/ \E c \in Calls : CallStep(c)
  \/ \E k \in Commands : CommandStep(k)
  \/ Tick
  \/ Look
  \/ Forget
  \/ Restart

Spec == Init /\ [][Next]_vars

\* The threads of the daemon are scheduled and time passes.
Fairness ==
  /\ \A c \in Calls : WF_vars(CallStep(c))
  /\ \A k \in Commands : WF_vars(EndClose(k))
  /\ WF_vars(Tick)

FairSpec == Spec /\ Fairness

-----------------------------------------------------------------------------
(* What must hold.                                                         *)

Deciding == {"new", "rung", "info", "standing", "scope", "lift", "cap", "covers", "settle",
             "record", "done", "failed", "lost"}
SafeReasons == {"mismatch", "kill", "ledger"}
Kinds == {"none", "disarm", "maintain", "end", "rearm", "kill"}

\* The shape of the state.
TypeOK ==
  /\ pin \in Pins
  /\ rung \in Rungs
  /\ reasons \subseteq SafeReasons \union {"unpinned", "disarmed"}
  /\ disarm \in [by : Commands, scope : Scopes, left : Nat] \union {NoDisarm}
  /\ window \in [by : Commands, left : 1..WindowTTL, actions : Nat] \union {NoWindow}
  /\ refused \subseteq Intents
  /\ pc \in [Calls -> Deciding]
  /\ route \in [Calls -> Routes]
  /\ cmd \in [Commands -> [kind : Kinds, scope : Scopes,
                           pc : {"new", "end", "done", "lost"}, noted : Nat]]

\* A call that policy would not let run comes out ALLOW only because an
\* operator asked for relief that reaches it: a disarm whose scope covers its
\* directory, for what is short of a HALT and not always denied, or a
\* maintenance window, for the two maintainable classes.
DisarmReaches(k, c) ==
  /\ cmd[k].kind = "disarm"
  /\ Covers(cmd[k].scope, CwdOf[c])
  /\ c \notin AlwaysDenied
  /\ Base[c] # "HALT"
WindowReaches(k, c) ==
  /\ cmd[k].kind = "maintain"
  /\ c \in Maintainable
ReliefHasAnOwner ==
  \A c \in Calls :
    route[c] = "ALLOW" /\ Base[c] # "ALLOW" =>
      \E k \in Commands : DisarmReaches(k, c) \/ WindowReaches(k, c)

\* "Disarm caps, never below HALT": once any floor has said HALT - policy,
\* denial memory, an unattended review, the rung - nothing that happens while
\* the call is decided brings it back, a maintenance window excepted.
HaltIsFinal ==
  [][\A c \in Calls \ Maintainable : route[c] = "HALT" => route'[c] = "HALT"]_vars

\* The reasons the console shows belong to the rung the perimeter is at, after
\* any sequence of kills, ledger failures, disarms, rearms and restarts.
ReasonsMatchRung == (rung = "SAFE") <=> (reasons \intersect SafeReasons # {})

-----------------------------------------------------------------------------
(* What the repository says of this code and the code does not do.         *)

\* daemon.py, kill_switch: "Everything read-only, now."  A call that comes in
\* when the kill is the one reason on the console (a disarm asked for after it
\* would be another) does not get past the gate, unless it only reads or some
\* later command intervenes.
Unserved == {k \in Commands : cmd[k].pc = "new"}
KillSwitchHolds ==
  \A c \in Calls \ SafeAllowed, K \in SUBSET Commands :
    [](/\ reasons = {"kill"} /\ Unserved = K
       /\ pc[c] = "new"
       => [](reasons = {"kill"} /\ Unserved = K /\ pc[c] = "done" => route[c] = "HALT"))
=============================================================================
