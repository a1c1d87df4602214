--------------------------- MODULE OperatorAuthProof ---------------------------
(***************************************************************************)
(* Theorems about OperatorAuth, for any number of requests and any limits: *)
(* the type invariant, that a consumed step-up authorises nothing more,    *)
(* and that a lockout holds against the logins already under way.          *)
(***************************************************************************)
EXTENDS OperatorAuth, TLAPS

(* Who has been issued a session had the right factors, and nobody else's  *)
(* token is ever live or stepped up.                                       *)
TokenInv ==
  /\ \A l \in Logins : login[l] \in {"good", "in"} => l \in Knowing
  /\ \A l \in live : login[l] = "in"
  /\ \A l \in Logins : stepUpUntil[l] # 0 => login[l] = "in"

(* A step-up that still stands rests on a code that is not spent.          *)
SpentInv ==
  /\ \A t \in Logins : spent[t] <= codes[t]
  /\ \A t \in live : stepUpUntil[t] # 0 => codes[t] > spent[t]
  /\ StepUpIsSpent

(* The end of the lockout is that of the latest one, and a login that has  *)
(* passed the check did so outside every lockout known by then.            *)
LockInv ==
  /\ \A k \in locks : k <= now /\ k + Lockout <= lockedUntil
  /\ \A l \in Logins : began[l] <= now
  /\ \A l \in Logins : login[l] \in {"checked", "good", "bad", "in"} =>
       \A k \in locks : ~(k < began[l] /\ began[l] < k + Lockout)

USE DEF session, counter, threads, seen

-----------------------------------------------------------------------------
(* The initial state satisfies all of them.                                *)
LEMMA InitEstablishes == Init => TypeOK /\ TokenInv /\ SpentInv /\ LockInv
<1> SUFFICES ASSUME Init PROVE TypeOK /\ TokenInv /\ SpentInv /\ LockInv
  OBVIOUS
<1> USE TimesAssumption, RequestsAssumption
<1>1. TypeOK
  BY DEF Init, TypeOK, Clock, NoBasis, Requests
<1>2. TokenInv
  BY DEF Init, TokenInv
<1>3. SpentInv
  BY DEF Init, SpentInv, StepUpIsSpent, Requests
<1>4. LockInv
  BY DEF Init, LockInv
<1>5. QED
  BY <1>1, <1>2, <1>3, <1>4

-----------------------------------------------------------------------------
(* Types and tokens, one lemma for each kind of thread.                    *)

(* The steps of a login keep the types and the tokens.                     *)
LEMMA LoginKeepsTypes ==
  ASSUME TypeOK, TokenInv, NEW l \in Logins, LoginStep(l) \/ Logout(l)
  PROVE  TypeOK' /\ TokenInv'
<1> USE TimesAssumption, RequestsAssumption DEF TypeOK, TokenInv, Clock, Requests
<1>1. CASE CheckLockout(l)
  BY <1>1 DEF CheckLockout, LoginAt
<1>2. CASE VerifyFactors(l)
  BY <1>2 DEF VerifyFactors, LoginAt
<1>3. CASE CountFailure(l)
  <2>1. TokenInv' /\ UNCHANGED <<now, session, began, req, typed, codes, spent, basis>>
    BY <1>3 DEF CountFailure, LoginAt
  <2>2. login' = [login EXCEPT ![l] = "refused"]
    BY <1>3 DEF CountFailure, LoginAt
  <2>3. CASE failed + 1 >= MaxFailed
    <3>1. failed' = 0 /\ lockedUntil' = now + Lockout /\ locks' = locks \union {now}
      BY <1>3, <2>3 DEF CountFailure
    <3> QED BY <2>1, <2>2, <3>1
  <2>4. CASE ~(failed + 1 >= MaxFailed)
    <3>1. failed' = failed + 1 /\ UNCHANGED <<lockedUntil, locks>>
      BY <1>3, <2>4 DEF CountFailure
    <3> QED BY <2>1, <2>2, <2>4, <3>1
  <2> QED BY <2>3, <2>4
<1>4. CASE IssueSession(l)
  BY <1>4 DEF IssueSession, LoginAt
<1>5. CASE Logout(l)
  BY <1>5 DEF Logout
<1>6. QED
  BY <1>1, <1>2, <1>3, <1>4, <1>5 DEF LoginStep

(* The steps of a step-up keep the types and the tokens.                   *)
LEMMA StepUpKeepsTypes ==
  ASSUME TypeOK, TokenInv, NEW u \in StepUps, StepUpStep(u)
  PROVE  TypeOK' /\ TokenInv'
<1> USE TimesAssumption, RequestsAssumption DEF TypeOK, TokenInv, Clock, Requests
<1>1. CASE Admit(u)
  BY <1>1 DEF Admit, ReqAt
<1>2. CASE FindSession(u)
  BY <1>2 DEF FindSession, ReqAt
<1>3. CASE VerifyCode(u)
  BY <1>3 DEF VerifyCode, ReqAt
<1>4. CASE StepUp(u)
  BY <1>4 DEF StepUp, ReqAt
<1>5. QED
  BY <1>1, <1>2, <1>3, <1>4 DEF StepUpStep

(* The steps of a command keep the types and the tokens.                   *)
LEMMA CommandKeepsTypes ==
  ASSUME TypeOK, TokenInv, NEW c \in Commands, CommandStep(c)
  PROVE  TypeOK' /\ TokenInv'
<1> USE TimesAssumption, RequestsAssumption DEF TypeOK, TokenInv, Clock, Requests
<1>1. CASE Admit(c)
  BY <1>1 DEF Admit, ReqAt
<1>2. CASE Authorise(c)
  BY <1>2 DEF Authorise, ReqAt
<1>3. CASE ConsumeStepUp(c)
  BY <1>3 DEF ConsumeStepUp, ReqAt
<1>4. CASE Serve(c)
  BY <1>4 DEF Serve, ReqAt
<1>5. QED
  BY <1>1, <1>2, <1>3, <1>4 DEF CommandStep

(* Every step does.                                                        *)
LEMMA NextKeepsTypes == TypeOK /\ TokenInv /\ [Next]_vars => TypeOK' /\ TokenInv'
<1> SUFFICES ASSUME TypeOK, TokenInv, [Next]_vars PROVE TypeOK' /\ TokenInv'
  OBVIOUS
<1>1. CASE \E l \in Logins : LoginStep(l) \/ Logout(l)
  BY <1>1, LoginKeepsTypes
<1>2. CASE \E u \in StepUps : StepUpStep(u)
  BY <1>2, StepUpKeepsTypes
<1>3. CASE \E c \in Commands : CommandStep(c)
  BY <1>3, CommandKeepsTypes
<1>4. CASE Tick
  BY <1>4, TimesAssumption DEF Tick, TypeOK, TokenInv, Clock, Requests
<1>5. CASE UNCHANGED vars
  BY <1>5 DEF vars, TypeOK, TokenInv, Requests
<1>6. QED
  BY <1>1, <1>2, <1>3, <1>4, <1>5 DEF Next

(* The operator store keeps its shape: the count of failures stays below   *)
(* the limit, and only logins with the right factors have a session.       *)
THEOREM OperatorTypeCorrect == Spec => []TypeOK
<1>1. Init => TypeOK /\ TokenInv
  BY InitEstablishes
<1>2. QED
  BY <1>1, NextKeepsTypes, PTL DEF Spec

-----------------------------------------------------------------------------
(* Spent step-ups.                                                         *)

(* What a step does to the sessions of a token decides this invariant:     *)
(* only StepUp sets a step-up, on a new code; only ConsumeStepUp spends    *)
(* one, and then resets it; only a login makes a token live.               *)
LEMMA NextKeepsSpent ==
  TypeOK /\ TokenInv /\ SpentInv /\ [Next]_vars => SpentInv'
<1> SUFFICES ASSUME TypeOK, TokenInv, SpentInv, [Next]_vars PROVE SpentInv'
  OBVIOUS
<1> USE RequestsAssumption DEF SpentInv, StepUpIsSpent
<1>1. ASSUME NEW l \in Logins, LoginStep(l) \/ Logout(l)
      PROVE  SpentInv'
  <2>1. UNCHANGED <<stepUpUntil, codes, spent, req, basis>>
    BY <1>1 DEF LoginStep, CheckLockout, VerifyFactors, CountFailure, IssueSession, Logout
  <2>2. ASSUME NEW t \in live', stepUpUntil[t] # 0 PROVE t \in live
    <3>1. CASE IssueSession(l)
      <4>1. live' = live \union {l} /\ login[l] = "good"
        BY <3>1 DEF IssueSession, LoginAt
      <4>2. t # l
        BY <4>1, <2>2, <1>1 DEF TokenInv
      <4> QED BY <4>1, <4>2
    <3>2. CASE ~IssueSession(l)
      BY <3>2, <1>1, <2>2 DEF LoginStep, CheckLockout, VerifyFactors, CountFailure, Logout
    <3> QED BY <3>1, <3>2
  <2> QED BY <2>1, <2>2
<1>2. ASSUME NEW u \in StepUps, StepUpStep(u)
      PROVE  SpentInv'
  <2>1. UNCHANGED <<spent, basis>> /\ live' \subseteq live
    BY <1>2 DEF StepUpStep, Admit, FindSession, VerifyCode, StepUp
  <2>2. \A c \in Commands : req'[c] = req[c]
    BY <1>2 DEF StepUpStep, Admit, FindSession, VerifyCode, StepUp, ReqAt, TypeOK, Requests
  <2>3. ASSUME NEW t \in Logins
        PROVE  /\ spent'[t] <= codes'[t]
               /\ t \in live' /\ stepUpUntil'[t] # 0 => codes'[t] > spent'[t]
    <3>1. codes[t] \in Nat /\ spent[t] \in Nat /\ spent'[t] = spent[t] /\ spent[t] <= codes[t]
      BY <2>1 DEF TypeOK
    <3>2. CASE StepUp(u) /\ t = BearerOf[u] /\ t \in live
      <4>1. codes'[t] = codes[t] + 1
        BY <3>2 DEF StepUp, TypeOK
      <4> QED BY <3>1, <4>1
    <3>3. CASE ~(StepUp(u) /\ t = BearerOf[u] /\ t \in live)
      <4>1. codes'[t] = codes[t] /\ stepUpUntil'[t] = stepUpUntil[t]
        BY <1>2, <3>3 DEF StepUpStep, Admit, FindSession, VerifyCode, StepUp, TypeOK
      <4> QED BY <2>1, <3>1, <4>1
    <3> QED BY <3>2, <3>3
  <2>4. live' \subseteq Logins
    BY <2>1 DEF TypeOK
  <2> QED BY <2>1, <2>2, <2>3, <2>4
<1>3. ASSUME NEW c \in Commands, CommandStep(c)
      PROVE  SpentInv'
  <2> DEFINE t == BearerOf[c]
  <2>1. t \in Logins /\ UNCHANGED codes /\ live' \subseteq live
    BY <1>3 DEF CommandStep, Admit, Authorise, ConsumeStepUp, Serve, Requests
  <2>2. \A d \in Commands \ {c} : req'[d] = req[d] /\ basis'[d] = basis[d]
    BY <1>3 DEF CommandStep, Admit, Authorise, ConsumeStepUp, Serve, ReqAt, TypeOK, Requests
  <2>3. ASSUME NEW s \in Logins
        PROVE  /\ spent'[s] <= codes'[s]
               /\ s \in live' /\ stepUpUntil'[s] # 0 => codes'[s] > spent'[s]
    <3>1. codes[s] \in Nat /\ spent[s] \in Nat /\ spent[s] <= codes[s]
      BY DEF TypeOK
    <3>2. CASE ConsumeStepUp(c) /\ s = t
      <4>1. spent'[s] = codes[s]
        BY <3>2 DEF ConsumeStepUp, TypeOK
      <4>2. s \in live' => stepUpUntil'[s] = 0
        BY <3>2 DEF ConsumeStepUp, TypeOK
      <4> QED BY <2>1, <3>1, <4>1, <4>2
    <3>3. CASE ~(ConsumeStepUp(c) /\ s = t)
      <4>1. spent'[s] = spent[s] /\ stepUpUntil'[s] = stepUpUntil[s]
        BY <1>3, <3>3 DEF CommandStep, Admit, Authorise, ConsumeStepUp, Serve, TypeOK
      <4> QED BY <2>1, <3>1, <4>1
    <3> QED BY <3>2, <3>3
  <2>4. req'[c] \in {"authorised", "done"} => basis'[c].code > basis'[c].spent
    <3>1. CASE Admit(c)
      <4>1. req'[c] \in {"admitted", "refused"}
        BY <3>1 DEF Admit, ReqAt, TypeOK, Requests
      <4> QED BY <4>1
    <3>2. CASE Serve(c)
      <4>1. req'[c] = "served"
        BY <3>2 DEF Serve, ReqAt, TypeOK, Requests
      <4> QED BY <4>1
    <3>3. CASE ConsumeStepUp(c)
      <4>1. req[c] = "authorised" /\ basis' = basis
        BY <3>3 DEF ConsumeStepUp, ReqAt
      <4> QED BY <4>1
    <3>4. CASE Authorise(c)
      <4>1. basis'[c] = [code |-> codes[t], spent |-> spent[t]]
        BY <3>4 DEF Authorise, TypeOK
      <4>2. req'[c] \in {"authorised", "done"} => HasStepUp(t)
        BY <3>4 DEF Authorise, ReqAt, TypeOK, Requests
      <4>3. HasStepUp(t) => t \in live /\ stepUpUntil[t] # 0
        BY <2>1 DEF HasStepUp, TypeOK, Clock
      <4> QED BY <4>1, <4>2, <4>3
    <3> QED BY <1>3, <3>1, <3>2, <3>3, <3>4 DEF CommandStep
  <2>5. live' \subseteq Logins
    BY <2>1 DEF TypeOK
  <2> QED BY <2>2, <2>3, <2>4, <2>5
<1>4. CASE Tick \/ UNCHANGED vars
  BY <1>4 DEF Tick, vars
<1> QED BY <1>1, <1>2, <1>3, <1>4 DEF Next

(* A consumed step-up authorises nothing more: a privileged command that   *)
(* goes ahead does so on a code given after the last one consumed when it  *)
(* asked.                                                                  *)
THEOREM ConsumedMeansSpent == Spec => []StepUpIsSpent
<1> DEFINE Inv == TypeOK /\ TokenInv /\ SpentInv
<1>1. Init => Inv
  BY InitEstablishes
<1>2. Inv /\ [Next]_vars => Inv'
  BY NextKeepsTypes, NextKeepsSpent
<1>3. Inv => StepUpIsSpent
  BY DEF SpentInv
<1> QED BY <1>1, <1>2, <1>3, PTL DEF Spec

-----------------------------------------------------------------------------
(* Lockouts.                                                               *)

(* A lockout that begins now lies after the check of every login under     *)
(* way; a login that checks now does so when all of them are over.         *)
LEMMA NextKeepsLocks == TypeOK /\ LockInv /\ [Next]_vars => LockInv'
<1> SUFFICES ASSUME TypeOK, LockInv, [Next]_vars PROVE LockInv'
  OBVIOUS
<1>0. /\ Lockout \in Nat /\ now \in Nat /\ lockedUntil \in Nat
      /\ \A k \in locks : k \in Nat
      /\ \A m \in Logins : began[m] \in Nat
  BY TimesAssumption DEF TypeOK, Clock
<1> USE DEF LockInv
<1>1. ASSUME NEW l \in Logins, CheckLockout(l)
      PROVE  LockInv'
  <2>1. UNCHANGED <<now, lockedUntil, locks>>
    BY <1>1 DEF CheckLockout
  <2>2. began' = [began EXCEPT ![l] = now] /\ \A m \in Logins \ {l} : login'[m] = login[m]
    BY <1>1 DEF CheckLockout, LoginAt, TypeOK
  <2>3. login'[l] = "refused" \/ now >= lockedUntil
    BY <1>0, <1>1 DEF CheckLockout, LoginAt, TypeOK
  <2>4. now >= lockedUntil => \A k \in locks : ~(now < k + Lockout)
    BY <1>0
  <2>5. began'[l] = now /\ \A m \in Logins \ {l} : began'[m] = began[m]
    BY <2>2 DEF TypeOK
  <2>6. \A m \in Logins : began'[m] <= now'
    BY <1>0, <2>1, <2>5
  <2>7. ASSUME NEW m \in Logins, login'[m] \in {"checked", "good", "bad", "in"},
               NEW k \in locks'
        PROVE  ~(k < began'[m] /\ began'[m] < k + Lockout)
    BY <2>1, <2>2, <2>3, <2>4, <2>5, <2>7
  <2> QED BY <2>1, <2>6, <2>7
<1>2. ASSUME NEW l \in Logins, VerifyFactors(l) \/ IssueSession(l)
      PROVE  LockInv'
  <2>1. UNCHANGED <<now, lockedUntil, locks, began>>
    BY <1>2 DEF VerifyFactors, IssueSession
  <2>2. \A m \in Logins : login'[m] \in {"checked", "good", "bad", "in"}
                           => login[m] \in {"checked", "good", "bad", "in"}
    BY <1>2 DEF VerifyFactors, IssueSession, LoginAt, TypeOK
  <2> QED BY <2>1, <2>2
<1>3. ASSUME NEW l \in Logins, CountFailure(l)
      PROVE  LockInv'
  <2>1. UNCHANGED <<now, began>>
    BY <1>3 DEF CountFailure
  <2>2. \A m \in Logins : login'[m] \in {"checked", "good", "bad", "in"}
                           => login[m] \in {"checked", "good", "bad", "in"}
    BY <1>3 DEF CountFailure, LoginAt, TypeOK
  <2>3. \/ UNCHANGED <<lockedUntil, locks>>
        \/ lockedUntil' = now + Lockout /\ locks' = locks \union {now}
    BY <1>3 DEF CountFailure
  <2>4. CASE UNCHANGED <<lockedUntil, locks>>
    BY <2>1, <2>2, <2>4
  <2>5. CASE lockedUntil' = now + Lockout /\ locks' = locks \union {now}
    <3>1. ASSUME NEW k \in locks' PROVE k <= now' /\ k + Lockout <= lockedUntil'
      BY <1>0, <2>1, <2>5
    <3>2. ASSUME NEW m \in Logins, login'[m] \in {"checked", "good", "bad", "in"},
                 NEW k \in locks'
          PROVE  ~(k < began'[m] /\ began'[m] < k + Lockout)
      <4>1. CASE k \in locks
        BY <2>1, <2>2, <3>2, <4>1
      <4>2. CASE k = now
        BY <1>0, <2>1, <4>2
      <4> QED BY <2>5, <4>1, <4>2
    <3> QED BY <2>1, <3>1, <3>2
  <2> QED BY <2>3, <2>4, <2>5
<1>4. ASSUME \/ \E l \in Logins : Logout(l)
             \/ \E u \in StepUps : StepUpStep(u)
             \/ \E c \in Commands : CommandStep(c)
             \/ UNCHANGED vars
      PROVE  LockInv'
  <2>1. UNCHANGED <<now, lockedUntil, locks, began, login>>
    BY <1>4 DEF Logout, StepUpStep, Admit, FindSession, VerifyCode, StepUp,
                CommandStep, Authorise, ConsumeStepUp, Serve, vars
  <2> QED BY <2>1
<1>5. CASE Tick
  <2>1. now' = now + 1 /\ UNCHANGED <<lockedUntil, locks, began, login>>
    BY <1>5 DEF Tick
  <2> QED BY <1>0, <2>1
<1> QED BY <1>1, <1>2, <1>3, <1>4, <1>5 DEF Next, LoginStep

(* A login that begins while a lockout lasts gets no session, whatever the *)
(* logins that had begun before it come to.                                *)
THEOREM LockoutHolds == Spec => []LockedOutStaysOut
<1> DEFINE Inv == TypeOK /\ TokenInv /\ LockInv
<1>1. Init => Inv
  BY InitEstablishes
<1>2. Inv /\ [Next]_vars => Inv'
  BY NextKeepsTypes, NextKeepsLocks
<1>3. Inv => LockedOutStaysOut
  BY DEF LockInv, LockedOutStaysOut
<1> QED BY <1>1, <1>2, <1>3, PTL DEF Spec
=============================================================================
