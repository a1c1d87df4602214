------------------------------- MODULE Envelope -------------------------------
(***************************************************************************)
(* What the governor sees of a call (runwall/envelope.py).                 *)
(*                                                                         *)
(* A call is [tool, params, layers, decoy, size].  params maps each kind   *)
(* of parameter that the call has - "action" (command, url, query,         *)
(* pattern), "path", "content", or "other" for a key on no list - to the   *)
(* signs its value bears.  A sign stands for one pattern that the rules    *)
(* look for, or for one class of path.  layers counts the base64 encodings *)
(* around the text; decoy says that a run of letters that decodes to       *)
(* nothing precedes the encoded part; size is "fits", or, over the payload *)
(* limit, "head" or "tail" after where the signs of the payload are.       *)
(***************************************************************************)
EXTENDS Naturals, FiniteSets

CONSTANT MaxDecodePasses   \* passes of deep_decode

ASSUME PassesAssumption == MaxDecodePasses \in Nat

WriteTools == {"Write", "Edit", "MultiEdit", "NotebookEdit"}
ReadTools  == {"Read", "NotebookRead", "Grep", "Glob"}

(* Paths by the surface they lie in.  The governor's secrets lie in its    *)
(* state directory, which is sealed.                                       *)
SecretPaths == {"secret_path"}
SealedPaths == {"state_path", "anchor_path"} \union SecretPaths
SourcePaths == {"source_path"}
PathSigns   == SealedPaths \union SourcePaths
                 \union {"settings_path", "protected_path", "system_path",
                         "outside_path", "plain_path"}

(* A label that is base64 itself: decoding the text around it once more    *)
(* deletes it.                                                             *)
EncodedSigns == {"dns_label"}

(* The signs of the parameters of the given kinds, and what so many passes *)
(* leave of them: nothing under the last encoding, all once it is off, and *)
(* a pass later all but the encoded signs.  A parameter that names a path  *)
(* is never encoded.                                                       *)
Bears(call, kinds) == UNION {call.params[k] : k \in kinds \intersect DOMAIN call.params}
SignsAfter(call, kind, passes) ==
    LET layers == IF kind = "path" THEN 0 ELSE call.layers
    IN  IF passes < layers THEN {}
        ELSE IF passes = layers THEN call.params[kind]
        ELSE call.params[kind] \ EncodedSigns
View(call, kinds, passes) ==
    UNION {SignsAfter(call, k, passes) : k \in kinds \intersect DOMAIN call.params}

AllKinds == {"action", "path", "content", "other"}

(* The kinds that are scanned at all: the listed ones, or, if the call has *)
(* none of them, all.                                                      *)
TextKinds(call) ==
    IF DOMAIN call.params \intersect {"action", "path", "content"} = {}
    THEN AllKinds ELSE AllKinds \ {"other"}

(* The kinds that say what the call does rather than what it stores.       *)
ActionKinds(call) ==
    IF DOMAIN call.params \intersect {"action", "path", "content"} = {}
    THEN AllKinds ELSE {"action", "path"}

(* deep_decode removes a layer per pass, an encoded sign being one more,   *)
(* and stops at its limit; what is left over is noticed unless the first   *)
(* thing that looks encoded is not.                                        *)
LayersOf(call) ==
    call.layers + (IF Bears(call, TextKinds(call)) \intersect EncodedSigns = {} THEN 0 ELSE 1)
DecodePasses(call) == IF LayersOf(call) <= MaxDecodePasses THEN LayersOf(call)
                                                           ELSE MaxDecodePasses
ResidualEncoding_Never(call) == FALSE
ResidualEncoding(call) == LayersOf(call) > MaxDecodePasses /\ ~call.decoy

(* _derive for a payload over the limit: the first part of its text, and   *)
(* no more.                                                                *)
Oversized(call) ==
    [tool       |-> call.tool,
     normalized |-> IF call.size = "head" THEN View(call, AllKinds, MaxDecodePasses)
                                          ELSE {},
     action     |-> {},
     raw        |-> {},
     paths      |-> {},
     textPaths  |-> {},
     written    |-> View(call, {"content"}, 0),
     passes     |-> 0,
     residual   |-> FALSE,
     oversized  |-> TRUE]

(* _derive: the views of the text, decoded and not, the declared paths and *)
(* those named in the action text, and what decoding left.  written is     *)
(* what a rule finds in raw_params.                                        *)
Derive(call) ==
    LET action == View(call, ActionKinds(call), MaxDecodePasses)
        paths  == Bears(call, {"path"}) \intersect PathSigns
    IN  [tool       |-> call.tool,
         normalized |-> View(call, TextKinds(call), MaxDecodePasses),
         action     |-> action,
         raw        |-> View(call, TextKinds(call), 0),
         paths      |-> paths,
         textPaths  |-> (action \intersect PathSigns) \ paths,
         written    |-> View(call, {"content"}, 0),
         passes     |-> DecodePasses(call),
         residual   |-> ResidualEncoding(call),
         oversized  |-> FALSE]

EnvelopeOf(call) == IF call.size = "fits" THEN Derive(call) ELSE Oversized(call)

AllPaths(env) == env.paths \union env.textPaths

(* What a writing tool acts on is the path it declares, and nothing it     *)
(* merely mentions.                                                        *)
TargetPaths(env) == IF env.tool \in WriteTools THEN env.paths ELSE AllPaths(env)
=============================================================================
