------------------------------ MODULE HookClient ------------------------------
(***************************************************************************)
(* What the hook (hook/runwall_hook.py) answers for a call: the governor's *)
(* route, or, when the governor cannot be reached in time, what its own    *)
(* copy of the most important patterns says.                               *)
(***************************************************************************)
EXTENDS Envelope

HookPasses == 3   \* the decoding passes of the hook, fewer than the governor's

HookReadTools == ReadTools \union {"TodoRead", "TodoWrite"}

(* FALLBACK_DENY.  Most of what these patterns match a rule of the packs   *)
(* destructive and self_protect matches too; of paths they know settings   *)
(* files, the keys, the anchor and the governor's source.  But they are    *)
(* looser than the rules: settings.json of any program, any directory      *)
(* named runwall, names inside longer names.  A lookalike is a text or a   *)
(* path that they match and no rule does.                                  *)
SharedSigns == {
    "recursive_delete", "sql", "device", "ungoverned", "kill", "hijack",
    "fork_bomb", "chmod", "settings_text", "settings_path", "secret_name",
    "secret_path", "anchor_name", "anchor_path", "source_path"}
LooseSigns    == {"lookalike"}
FallbackSigns == SharedSigns \union LooseSigns

(* Every parameter but the contents, on a list or not.                     *)
HookText(call) == View(call, AllKinds \ {"content"}, HookPasses)

(* fallback().  Refused is what bears a sign, unless decoding has spoilt   *)
(* it: _decode takes any long run of letters, digits and slashes for       *)
(* base64, and tries UTF-16 before UTF-8, under which almost anything is   *)
(* printable text.                                                         *)
FallbackAnswers(call) ==
    (IF HookText(call) \intersect FallbackSigns # {} THEN {"deny"} ELSE {})
      \union (IF call.tool \in HookReadTools THEN {"allow"} ELSE {"ask"})

(* main(), of the governor's answer: a REVIEW has had its wait and is a    *)
(* refusal.                                                                *)
Relayed(route) == IF route = "ALLOW" THEN "allow" ELSE "deny"
=============================================================================
