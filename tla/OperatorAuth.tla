----------------------------- MODULE OperatorAuth -----------------------------
(***************************************************************************)
(* The operator's sessions (runwall/auth.py, OperatorStore) and the        *)
(* requests of the console that need one (runwall/daemon.py).              *)
(*                                                                         *)
(* Every request has a thread.  The store has a lock, but login, step-up   *)
(* and each command take it several times, and what they learnt may be     *)
(* stale by the next time.  Passwords and codes are not modelled: a        *)
(* request knows them or does not, and a code is known by the time at      *)
(* which it was read off.  An operator is enrolled.  What the commands do  *)
(* is the subject of modules Approvals and Perimeter.                      *)
(***************************************************************************)
EXTENDS Integers, FiniteSets

CONSTANTS
  Logins,       \* requests to /auth/login; the token of a session is its login
  Knowing,      \* the logins with the right name, password and secret
  StepUps,      \* requests to /auth/stepup
  Holding,      \* the step-ups with a code of the right secret
  Commands,     \* requests to the endpoints that need an operator
  Privileged,   \* of these: disarm and maintenance
  Approving,    \* of these: approvals
  Complete,     \* the commands that carry a reason
  BearerOf,     \* the token a request carries
  MaxFailed, Lockout, SessionTTL, StepUpTTL,
  Drift,        \* how much older than the clock a code may be
  MaxNow        \* bound on the clock

ASSUME RequestsAssumption ==
  /\ Knowing \subseteq Logins /\ Holding \subseteq StepUps
  /\ Complete \subseteq Commands
  /\ Privileged \subseteq Commands /\ Approving \subseteq Commands \ Privileged
  /\ StepUps \intersect Commands = {}
  /\ BearerOf \in [StepUps \union Commands -> Logins]
ASSUME TimesAssumption ==
  /\ {Lockout, SessionTTL, StepUpTTL, Drift, MaxNow} \subseteq Nat
  /\ MaxFailed \in Nat \ {0}

Requests == StepUps \union Commands

VARIABLES
  now,          \* time.time()
  live,         \* the tokens in OperatorStore._sessions
  issued, stepUpUntil,                \* of each session
  failed, lockedUntil,                \* OperatorStore._failed, _locked_until
  login,        \* where the thread of a login is
  began,        \* when it looked at the lockout; its code was read then
  req,          \* where the thread of a request is
  typed,        \* when the code of a step-up was read
  locks,        \* when lockouts began (an observation, not code)
  codes, spent, \* by token: step-ups so far, and when one was last consumed
  basis         \* what a command saw of these when it was authorised

session == <<live, issued, stepUpUntil>>
counter == <<failed, lockedUntil>>
threads == <<login, began, req, typed>>
seen    == <<locks, codes, spent, basis>>
vars    == <<now, session, counter, threads, seen>>

Clock == 0..MaxNow
NoBasis == [code |-> 0, spent |-> 0]

TypeOK ==
  /\ now \in Clock
  /\ live \subseteq Knowing
  /\ issued \in [Logins -> Clock]
  /\ stepUpUntil \in [Logins -> 0..(MaxNow + StepUpTTL)]
  /\ failed \in 0..(MaxFailed - 1)
  /\ lockedUntil \in 0..(MaxNow + Lockout)
  /\ login \in [Logins -> {"new", "checked", "good", "bad", "in", "refused"}]
  /\ began \in [Logins -> Clock]
  /\ req \in [Requests -> {"new", "admitted", "known", "verified", "authorised",
                           "done", "served", "refused", "failed"}]
  /\ typed \in [StepUps -> Clock]
  /\ locks \subseteq Clock
  /\ codes \in [Logins -> Nat]
  /\ spent \in [Logins -> Nat]
  /\ basis \in [Commands -> [code : Nat, spent : Nat]]

Init ==
  /\ now = 0
  /\ live = {}
  /\ issued = [l \in Logins |-> 0]
  /\ stepUpUntil = [l \in Logins |-> 0]
  /\ failed = 0
  /\ lockedUntil = 0
  /\ login = [l \in Logins |-> "new"]
  /\ began = [l \in Logins |-> 0]
  /\ req = [r \in Requests |-> "new"]
  /\ typed = [u \in StepUps |-> 0]
  /\ locks = {}
  /\ codes = [l \in Logins |-> 0]
  /\ spent = [l \in Logins |-> 0]
  /\ basis = [c \in Commands |-> NoBasis]

-----------------------------------------------------------------------------
(* login(): the lockout under the lock, the factors outside, and the       *)
(* counter or the new session under the lock again.                        *)

(* verify_totp() of a code that was the right one at time t.               *)
InWindow(t) == now - t <= Drift

LoginAt(l, p, q) == login[l] = p /\ login' = [login EXCEPT ![l] = q]

CheckLockout(l) ==
  /\ LoginAt(l, "new", IF now < lockedUntil THEN "refused" ELSE "checked")
  /\ began' = [began EXCEPT ![l] = now]
  /\ UNCHANGED <<now, session, counter, req, typed, seen>>

VerifyFactors(l) ==
  /\ LoginAt(l, "checked", IF l \in Knowing /\ InWindow(began[l]) THEN "good" ELSE "bad")
  /\ UNCHANGED <<now, session, counter, began, req, typed, seen>>

CountFailure_Late(l) ==
  /\ LoginAt(l, "bad", "refused")
  /\ failed' = failed + 1
  /\ IF failed >= MaxFailed
       THEN lockedUntil' = now + Lockout /\ locks' = locks \union {now}
       ELSE UNCHANGED <<lockedUntil, locks>>
  /\ UNCHANGED <<now, session, began, req, typed, codes, spent, basis>>
CountFailure(l) ==
  /\ LoginAt(l, "bad", "refused")
  /\ IF failed + 1 >= MaxFailed
       THEN failed' = 0 /\ lockedUntil' = now + Lockout /\ locks' = locks \union {now}
       ELSE failed' = failed + 1 /\ UNCHANGED <<lockedUntil, locks>>
  /\ UNCHANGED <<now, session, began, req, typed, codes, spent, basis>>

IssueSession_Unlock(l) ==
  /\ LoginAt(l, "good", "in")
  /\ failed' = 0
  /\ lockedUntil' = 0
  /\ live' = live \union {l}
  /\ issued' = [issued EXCEPT ![l] = now]
  /\ UNCHANGED <<now, stepUpUntil, began, req, typed, seen>>
IssueSession(l) ==
  /\ LoginAt(l, "good", "in")
  /\ failed' = 0
  /\ live' = live \union {l}
  /\ issued' = [issued EXCEPT ![l] = now]
  /\ UNCHANGED <<now, stepUpUntil, lockedUntil, began, req, typed, seen>>

LoginStep(l) == CheckLockout(l) \/ VerifyFactors(l) \/ CountFailure(l) \/ IssueSession(l)

(* logout()                                                                *)
Logout(l) ==
  /\ l \in live
  /\ live' = live \ {l}
  /\ UNCHANGED <<now, issued, stepUpUntil, counter, threads, seen>>

-----------------------------------------------------------------------------
(* _require_operator(), of every other request: session() drops a session  *)
(* that has expired.  (It marks the others as seen, for operator_present(), *)
(* which the modules of the gate take as a free choice.)                   *)
Serves(t) == t \in live /\ now - issued[t] <= SessionTTL

ReqAt(r, p, q) == req[r] = p /\ req' = [req EXCEPT ![r] = q]

Admit(r) ==
  LET t == BearerOf[r] IN
  /\ ReqAt(r, "new", IF Serves(t) THEN "admitted" ELSE "refused")
  /\ live' = IF Serves(t) THEN live ELSE live \ {t}
  /\ typed' = IF r \in StepUps THEN [typed EXCEPT ![r] = now] ELSE typed
  /\ UNCHANGED <<now, issued, stepUpUntil, counter, login, began, seen>>

(* step_up(): the session is looked up, the code verified without the      *)
(* lock, and the session looked up again; one that has gone is an error.   *)
FindSession(u) ==
  /\ ReqAt(u, "admitted", IF BearerOf[u] \in live THEN "known" ELSE "refused")
  /\ UNCHANGED <<now, session, counter, login, began, typed, seen>>
VerifyCode(u) ==
  /\ ReqAt(u, "known", IF u \in Holding /\ InWindow(typed[u]) THEN "verified" ELSE "refused")
  /\ UNCHANGED <<now, session, counter, login, began, typed, seen>>
StepUp(u) ==
  LET t == BearerOf[u] IN
  /\ ReqAt(u, "verified", IF t \in live THEN "done" ELSE "failed")
  /\ IF t \in live
       THEN /\ stepUpUntil' = [stepUpUntil EXCEPT ![t] = now + StepUpTTL]
            /\ codes' = [codes EXCEPT ![t] = @ + 1]
       ELSE UNCHANGED <<stepUpUntil, codes>>
  /\ UNCHANGED <<now, live, issued, counter, login, began, typed,
                 locks, spent, basis>>
StepUpStep(u) == Admit(u) \/ FindSession(u) \/ VerifyCode(u) \/ StepUp(u)

(* Disarm and maintenance: has_step_up(), the reason, consume_step_up(),   *)
(* and then what is commanded.  So for an approval, without a reason, if   *)
(* the blast of the call is high, which may be or not.  The other commands *)
(* need no more than the session.                                          *)
HasStepUp(t) == t \in live /\ now < stepUpUntil[t]

Authorise(c) ==
  LET t == BearerOf[c] IN
  /\ c \in Privileged \union Approving
  /\ ReqAt(c, "admitted", IF HasStepUp(t) /\ (c \in Privileged => c \in Complete)
                          THEN "authorised" ELSE "refused")
  /\ basis' = [basis EXCEPT ![c] = [code |-> codes[t], spent |-> spent[t]]]
  /\ UNCHANGED <<now, session, counter, login, began, typed, locks, codes, spent>>

ConsumeStepUp_Keep(c) ==
  LET t == BearerOf[c] IN
  /\ ReqAt(c, "authorised", "done")
  /\ spent' = [spent EXCEPT ![t] = codes[t]]
  /\ UNCHANGED <<now, live, issued, stepUpUntil, counter, login, began, typed,
                 locks, codes, basis>>
ConsumeStepUp(c) ==
  LET t == BearerOf[c] IN
  /\ ReqAt(c, "authorised", "done")
  /\ stepUpUntil' = IF t \in live THEN [stepUpUntil EXCEPT ![t] = 0] ELSE stepUpUntil
  /\ spent' = [spent EXCEPT ![t] = codes[t]]
  /\ UNCHANGED <<now, live, issued, counter, login, began, typed,
                 locks, codes, basis>>
Serve(c) ==
  /\ c \notin Privileged
  /\ ReqAt(c, "admitted", "served")
  /\ UNCHANGED <<now, session, counter, login, began, typed, seen>>
CommandStep(c) == Admit(c) \/ Authorise(c) \/ ConsumeStepUp(c) \/ Serve(c)

Tick ==
  /\ now < MaxNow
  /\ now' = now + 1
  /\ UNCHANGED <<session, counter, threads, seen>>

Next ==
  \/ \E l \in Logins : LoginStep(l) \/ Logout(l)
  \/ \E u \in StepUps : StepUpStep(u)
  \/ \E c \in Commands : CommandStep(c)
  \/ Tick

Spec == Init /\ [][Next]_vars

-----------------------------------------------------------------------------
(* Properties.                                                             *)

(* A step-up that has been consumed authorises nothing more: a privileged  *)
(* command that goes ahead does so on a code given after the last one that *)
(* had been consumed when it asked.  Commands that ask before either has   *)
(* consumed share one, which the lock does not prevent.                    *)
StepUpIsSpent ==
  \A c \in Commands :
    req[c] \in {"authorised", "done"} => basis[c].code > basis[c].spent

(* A lockout holds: a login that begins while one lasts gets no session,   *)
(* whatever logins that had begun before it come to.                       *)
LockedOutStaysOut ==
  \A l \in Logins : login[l] = "in" =>
    \A k \in locks : ~(k < began[l] /\ began[l] < k + Lockout)
=============================================================================
