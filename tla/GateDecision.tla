----------------------------- MODULE GateDecision -----------------------------
(***************************************************************************)
(* One call before the gate: decide() of runwall/gate.py as a function of  *)
(* the call and of what the session and the perimeter are like, and the    *)
(* hook that asks, which waits no longer than its deadline.  The           *)
(* properties relate a verdict to the verdicts on other calls, or on the   *)
(* same call in other circumstances.                                       *)
(***************************************************************************)
EXTENDS Evaluation, HookClient

CONSTANTS
  Inputs,   \* the pairs <<call, circumstances>> that are looked at
  Signs     \* the signs that a text may bear

(* A call, as it reaches the governor.  Where nothing is encoded there is  *)
(* no decoy before it, and no path is base64.                              *)
IsCall(c) ==
  /\ DOMAIN c = {"tool", "params", "layers", "decoy", "size"}
  /\ DOMAIN c.params \subseteq AllKinds
  /\ \A kind \in DOMAIN c.params : c.params[kind] \subseteq Signs
  /\ c.layers \in Nat /\ c.decoy \in BOOLEAN /\ c.size \in {"fits", "head", "tail"}
  /\ c.layers = 0 => ~c.decoy
  /\ Bears(c, {"path"}) \intersect EncodedSigns = {}

ASSUME InputsAssumption ==
  \A input \in Inputs : /\ input = <<input[1], input[2]>>
                        /\ IsCall(input[1]) /\ input[2] \in Givens

VARIABLES
  call, given,
  verdict,   \* of the governor
  answer     \* of the hook, and whose it is

vars == <<call, given, verdict, answer>>

Unjudged == [route |-> "none", action |-> "none", findings |-> {}]
Waiting  == [by |-> "nobody", says |-> "nothing"]

Init ==
  /\ \E input \in Inputs : call = input[1] /\ given = input[2]
  /\ verdict = Unjudged
  /\ answer = Waiting

Judged  == verdict # Unjudged
Pending == answer = Waiting

Evaluate ==
  /\ ~Judged
  /\ verdict' = LET j == Judge(call, given.taint, given.raising)
                IN  [j EXCEPT !.route = Decide(call, given)]
  /\ UNCHANGED <<call, given, answer>>

Answer(who, what) ==
  /\ Pending
  /\ answer' = [by |-> who, says |-> what]
  /\ UNCHANGED <<call, given, verdict>>

(* The hook has the governor's answer; or an HTTP error, on which it       *)
(* refuses; or no answer, in which case the governor may have judged the   *)
(* call or may yet do so; or one that it cannot parse, which ends it.      *)
Relay     == Judged /\ Answer("governor", Relayed(verdict.route))
Reject    == Answer("error", "deny")
FallBack  == \E says \in FallbackAnswers(call) : Answer("fallback", says)
BreakDown == Answer("exception", "nothing")

Next == Evaluate \/ Relay \/ Reject \/ FallBack \/ BreakDown

Spec == Init /\ [][Next]_vars

-----------------------------------------------------------------------------
(* What the shipped policy and the tools of the harness satisfy, though    *)
(* nothing in the program asks for it.  Some properties depend on it: each *)
(* theorem names what it supposes.                                         *)

(* The floor for a session rises with its taint.                           *)
RisingFloors ==
  \A t, u \in CLEAN..INSTRUCTED : t <= u => AtLeast(TaintFloors[u], TaintFloors[t])

(* The gates follow the order of classify(), "most consequential first",   *)
(* and rewriting history, the one label that a scored finding gives, is    *)
(* gated no milder than any label that depends on the call alone.          *)
OrderedGates ==
  /\ \A i, j \in DOMAIN TextLabels :
       i <= j => AtLeast(GateMatrix[TextLabels[i][2]], GateMatrix[TextLabels[j][2]])
  /\ \A i \in DOMAIN TextLabels :
       AtLeast(GateMatrix[TextLabels[i][2]], GateMatrix["run_shell_command"])
  /\ \A a \in {"write_local_file", "edit_local_file"} :
       AtLeast(GateMatrix["write_protected_path"], GateMatrix[a])
  /\ \A a \in Actions \ AlwaysDenied :
       AtLeast(GateMatrix["rewrite_history"], GateMatrix[a])

(* What is left encoded, and widened permissions, need a review by their   *)
(* scores.                                                                 *)
ResidueIsReviewed     == ReviewAt <= 55
PermissionsAreReviewed == ReviewAt <= 60

(* The hook decodes no further than the governor.                          *)
HookReadsLess == HookPasses <= MaxDecodePasses

(* The tools that run commands take no path and no contents.               *)
ShellCalls ==
  \A input \in Inputs :
    ToolClass(input[1].tool) = "exec" => DOMAIN input[1].params \subseteq {"action", "other"}

(* Hook and governor read the same: a writing tool has a path and no       *)
(* command, and what stands on no list, beside something that does, bears  *)
(* nothing that the hook looks for.                                        *)
ReadAlike ==
  \A input \in Inputs :
    LET c == input[1]
        kinds == DOMAIN c.params
    IN  /\ c.tool \in WriteTools => "path" \in kinds /\ "action" \notin kinds
        /\ "other" \in kinds /\ kinds # {"other"} => c.params.other \intersect FallbackSigns = {}

-----------------------------------------------------------------------------
(* Properties.                                                             *)

RulesFound == RuleIds(verdict.findings)
Encoded(n, d) == [call EXCEPT !.layers = n, !.decoy = d]
WithSign(kind, s) == [call EXCEPT !.params[kind] = @ \union {s}]

(* evaluate_all() turns the exception of a rule into a halting finding:    *)
(* outside a maintenance window a call on which some rule fails or halts   *)
(* is refused, whatever the other rules, its label and the session say.    *)
FailureHalts ==
  (/\ Judged
   /\ given.raising # {} \/ \E f \in verdict.findings : f.halt
   /\ ~given.window)
  => verdict.route = "HALT"

(* touch_own_files() reports the sealed surface apart from the source, so  *)
(* that the label of the call is never one that a window lifts ("Everything*)
(* sealed stays sealed", gate.py), whichever other rules speak first.      *)
SealedSurfaceIsFinal ==
  "self_protect.sealed_surface" \in RulesFound
  => verdict.route = "HALT" /\ verdict.action \notin Maintainable

(* An action that leaves this machine cannot be recalled and is never      *)
(* allowed by itself, even by a tool the gate matrix allows: the floor of  *)
(* the blast radius stands beside the labels.                              *)
LeavingIsReviewed ==
  (/\ Judged
   /\ "leaves" \in EnvelopeOf(call).normalized
   /\ verdict.action \notin Maintainable)
  => verdict.route # "ALLOW"

(* What deep_decode() undoes is judged as the plain text is, whatever      *)
(* stands before it, and one encoding too many is itself noticed where     *)
(* nothing does: a command that is not allowed in plain text is not        *)
(* allowed so encoded, if nothing in it is an encoding already.            *)
EncodingNeverAllows ==
  (/\ Judged /\ Pending
   /\ call.layers = 0 /\ Bears(call, AllKinds) \intersect EncodedSigns = {}
   /\ ToolClass(call.tool) = "exec"
   /\ verdict.route # "ALLOW")
  => \A n \in 1..(MaxDecodePasses + 1), d \in BOOLEAN :
       n <= MaxDecodePasses \/ ~d => Decide(Encoded(n, d), given) # "ALLOW"

(* More evidence never helps a call: one more sign in any of its           *)
(* parameters, outside a maintenance window, gives the same route or a     *)
(* stricter one.  Labels that come early in classify(), and rules that     *)
(* keep silent when another speaks, could break it.                        *)
EvidenceOnlyTightens ==
  (Judged /\ Pending /\ ~given.window)
  => \A kind \in DOMAIN call.params, s \in Signs :
       IsCall(WithSign(kind, s))
         => AtLeast(Decide(WithSign(kind, s), given), verdict.route)

(* Neither does more taint: the laundering rule and the floor for tainted  *)
(* sessions agree in direction.                                            *)
TaintOnlyTightens ==
  (Judged /\ Pending) => \A t \in given.taint..INSTRUCTED :
    AtLeast(Decide(call, [given EXCEPT !.taint = t]), verdict.route)

(* The hook decides by its own copy of the patterns and the governor, late, *)
(* by its rules: what the hook has refused for want of a governor is not   *)
(* on record as allowed.  That holds of the tools that both know, as long  *)
(* as nothing in the call looks like a danger to the hook alone.           *)
LateVerdictAgrees ==
  (/\ answer = [by |-> "fallback", says |-> "deny"]
   /\ HookText(call) \intersect LooseSigns = {}
   /\ Judged /\ ~given.window
   /\ call.tool \in WriteTools \union ReadTools \union {"Bash"})
  => verdict.route # "ALLOW"

-----------------------------------------------------------------------------
(* What the repository says of itself and the code does not do.            *)

(* "Never liftable, by disarm or maintenance or anything else" (state.py,  *)
(* of the classes that are not maintainable): a call whose findings name a *)
(* sealed surface, the keys or the hook is refused, window or not.         *)
SealedStaysSealed ==
  RulesFound \intersect {"self_protect.sealed_surface", "self_protect.harness_config",
                         "self_protect.kill_governor", "self_protect.ungoverned_harness",
                         "self_protect.disable_hook", "self_protect.read_secrets"} # {}
  => verdict.route = "HALT"
=============================================================================
