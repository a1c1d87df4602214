------------------------------ MODULE Evaluation ------------------------------
(***************************************************************************)
(* What decide() of runwall/gate.py makes of one call before it looks at   *)
(* the session and the perimeter: the findings of the rules, the label,    *)
(* the score, the blast radius (runwall/blast.py), the floors of the       *)
(* policy, and the strictest of them.  Confidence is in hundredths.        *)
(***************************************************************************)
EXTENDS RulePacks

CONSTANTS
  ReviewAt, HaltAt,   \* policy.thresholds
  GateMatrix,         \* policy.gate_matrix
  TaintFloors,        \* the floor of each level of taint: exposed_floor, instructed_floor
  BreachRoute,        \* policy.budgets["breach_route"]
  UnattendedReviewHalts   \* policy.approval["unattended_review_halts"]

Routes == {"ALLOW", "REVIEW", "HALT"}

(* What _validate() of runwall/policy.py asks of a policy: ordered         *)
(* thresholds, a gate for every action that classify() knows and for no    *)
(* other, and gates for the floors and the breach route.                   *)
ValidPolicy ==
  /\ {ReviewAt, HaltAt} \subseteq 1..100 /\ ReviewAt < HaltAt
  /\ GateMatrix \in [Actions -> Routes]
  /\ TaintFloors \in [CLEAN..INSTRUCTED -> Routes]
  /\ BreachRoute \in Routes
  /\ UnattendedReviewHalts \in BOOLEAN

ASSUME PolicyAssumption == ValidPolicy

(* Action classes of runwall/state.py.                                     *)
AlwaysDenied == {
    "modify_governor", "read_governor_files", "touch_sealed_surface",
    "modify_harness_config", "terminate_governor",
    "launch_ungoverned_harness", "read_governor_secrets",
    "destroy_data", "destroy_storage", "rewrite_history"}
Maintainable == {"modify_governor", "read_governor_files"}

-----------------------------------------------------------------------------
(* Routes.                                                                 *)

Severity(gate) == CASE gate = "ALLOW" -> 0 [] gate = "REVIEW" -> 1 [] OTHER -> 2
AtLeast(g, h) == Severity(g) >= Severity(h)

(* gate.strictest(); a value that is not a route counts as HALT.           *)
Strictest(gates) ==
    IF gates \subseteq Routes /\ gates # {}
    THEN CHOOSE g \in gates : \A h \in gates : AtLeast(g, h)
    ELSE "HALT"

(* route_from_score().  The sum of the scores, none of which is over 100,   *)
(* is counted: a finding contributes one point for each unit of its score. *)
Points(findings) == {p \in findings \X (1..100) : p[2] <= p[1].score}
Score(findings) ==
    LET sum == Cardinality(Points(findings))
    IN  IF sum > 100 THEN 100 ELSE sum
Halted(findings) == (\E f \in findings : f.halt) \/ Score(findings) >= HaltAt
RouteFromScore(findings) ==
    IF Halted(findings) THEN "HALT"
    ELSE IF Score(findings) >= ReviewAt THEN "REVIEW" ELSE "ALLOW"

(* Policy.gate_for_action()                                                *)
GateForAction(action) == IF action \in DOMAIN GateMatrix THEN GateMatrix[action] ELSE "HALT"

-----------------------------------------------------------------------------
(* Blast radius.                                                           *)

Scopes == <<"local", "repo", "machine", "network", "external">>

(* What the text says of how far the call reaches.                         *)
BlastSigns == {"url", "leaves", "destroy_word", "fanout"}

(* _widen(): the furthest scope that anything in the call reaches.         *)
ScopesReached(env) ==
    {"local"}
      \union (IF ToolClass(env.tool) \in {"write", "exec"} THEN {"repo"} ELSE {})
      \union (IF ToolClass(env.tool) = "network" \/ "url" \in env.normalized
              THEN {"network"} ELSE {})
      \union (IF "system_path" \in AllPaths(env) \/ IsInterpreterInvocation(env.normalized)
              THEN {"machine"} ELSE {})
      \union (IF "leaves" \in env.normalized THEN {"external"} ELSE {})
Widest(scopes) == Scopes[CHOOSE i \in DOMAIN Scopes :
    /\ Scopes[i] \in scopes
    /\ \A j \in DOMAIN Scopes : Scopes[j] \in scopes => j <= i]
Scope(env) == Widest(ScopesReached(env))

Reversibility_Recalled(env, findings) ==
    IF (\E f \in findings : f.halt) \/ "destroy_word" \in env.normalized
    THEN "irreversible"
    ELSE IF ToolClass(env.tool) = "read" THEN "trivial" ELSE "recoverable"
Reversibility(env, findings) ==
    IF \/ \E f \in findings : f.halt
       \/ "destroy_word" \in env.normalized
       \/ Scope(env) = "external"
    THEN "irreversible"
    ELSE IF ToolClass(env.tool) = "read" THEN "trivial" ELSE "recoverable"

Hints == {"secret_hint", "personal_hint", "financial_hint"}
DataClasses(env) == (env.normalized \union AllPaths(env)) \intersect Hints

FansOut(env) ==
    "fanout" \in env.normalized /\ ToolClass(env.tool) \in {"write", "exec", "network"}

Confidence(env) ==
    LET loss == (IF env.tool = "Bash" THEN 20 ELSE 0)
                  + (IF IsInterpreterInvocation(env.normalized) THEN 30 ELSE 0)
                  + 10 * env.passes
    IN  IF env.oversized \/ loss > 85 THEN 0 ELSE 85 - loss

BlastRadius(env, findings) ==
    [scope         |-> Scope(env),
     reversibility |-> Reversibility(env, findings),
     data          |-> DataClasses(env),
     fanout        |-> FansOut(env),
     confidence    |-> Confidence(env)]

IsHigh(b) ==
    \/ b.scope \in {"machine", "network", "external"}
    \/ b.reversibility = "irreversible"
    \/ b.fanout
    \/ b.data # {}

FloorRoute(b) ==
    IF \/ b.confidence < 40 /\ IsHigh(b)
       \/ b.scope = "external" /\ b.reversibility = "irreversible"
       \/ "secret_hint" \in b.data /\ b.scope \in {"network", "external"}
       \/ b.fanout /\ b.reversibility = "irreversible"
    THEN "REVIEW" ELSE "ALLOW"

-----------------------------------------------------------------------------
(* The verdict of decide() on the call alone, with the rules in raising    *)
(* failing and the others reading this taint.                              *)
Judge(call, taint, raising) ==
    LET env      == EnvelopeOf(call)
        findings == EvaluateAll(env, taint, raising)
        action   == Classify(env, RuleIds(findings))
    IN  [findings |-> findings,
         action   |-> action,
         route    |-> Strictest({RouteFromScore(findings), GateForAction(action),
                                 FloorRoute(BlastRadius(env, findings))})]

(* The rest of decide(), in an armed perimeter: the floors of the session, *)
(* the unattended review, and the maintenance window, which lifts whatever *)
(* carries one of its two labels.  given says what the session and the     *)
(* perimeter are like.                                                     *)
Givens == [taint    : CLEAN..INSTRUCTED,
           raising  : SUBSET RuleNames,
           refused  : BOOLEAN,
           breached : BOOLEAN,
           attended : BOOLEAN,
           window   : BOOLEAN]

Floor(judgement, given) ==
    Strictest({judgement.route, TaintFloors[given.taint],
               IF given.breached THEN BreachRoute ELSE "ALLOW",
               IF given.refused THEN "HALT" ELSE "ALLOW"})
Attended(route, present) ==
    IF route = "REVIEW" /\ ~present /\ UnattendedReviewHalts THEN "HALT" ELSE route
Decide(call, given) ==
    LET judgement == Judge(call, given.taint, given.raising)
    IN  IF given.window /\ judgement.action \in Maintainable THEN "ALLOW"
        ELSE Attended(Floor(judgement, given), given.attended)
=============================================================================
