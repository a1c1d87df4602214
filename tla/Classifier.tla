------------------------------ MODULE Classifier ------------------------------
(***************************************************************************)
(* The action label of a call (runwall/classify.py), with the tool classes *)
(* of policy/default.yml and the vocabulary of runwall/interpreters.py.    *)
(***************************************************************************)
EXTENDS Envelope, Sequences

Actions == {
    "read_local_file", "search_local", "list_directory", "write_local_file",
    "edit_local_file", "write_protected_path", "delete_file",
    "run_shell_command", "run_interpreter", "install_dependency",
    "run_git_local", "run_git_remote", "fetch_external_content",
    "send_external_message", "upload_or_publish", "destroy_data",
    "destroy_storage", "rewrite_history", "modify_governor",
    "read_governor_files", "touch_sealed_surface", "modify_harness_config",
    "terminate_governor", "launch_ungoverned_harness",
    "read_governor_secrets", "unknown_action"}

ToolClass(tool) ==
    CASE tool \in {"Read", "NotebookRead", "Grep", "Glob", "TodoRead"} -> "read"
      [] tool \in WriteTools                                           -> "write"
      [] tool \in {"Bash", "BashOutput", "KillShell"}                  -> "exec"
      [] tool \in {"WebFetch", "WebSearch"}                            -> "network"
      [] OTHER                                                         -> "unknown"

(* A text that starts a program whose effects the governor cannot see.     *)
InterpreterSigns == {"interpreter", "piped_interpreter"}
IsInterpreterInvocation(signs) == signs \intersect InterpreterSigns # {}

(* What else the text of a command says of its label.                      *)
CommandSigns == {"publish", "send", "install", "git_remote", "delete_verb", "fetch", "git"}

(* The label of a command by its text, most consequential first.           *)
TextLabels == <<
    <<{"publish"}, "upload_or_publish">>,
    <<{"send"}, "send_external_message">>,
    <<{"install"}, "install_dependency">>,
    <<InterpreterSigns, "run_interpreter">>,
    <<{"git_remote"}, "run_git_remote">>,
    <<{"delete_verb"}, "delete_file">>,
    <<{"fetch"}, "fetch_external_content">>,
    <<{"git"}, "run_git_local">> >>

(* The label of the first entry of a table that the signs meet, or deflt.  *)
FirstLabel(table, signs, deflt) ==
    LET hits == {i \in DOMAIN table : table[i][1] \intersect signs # {}}
    IN  IF hits = {} THEN deflt
        ELSE table[CHOOSE i \in hits : \A j \in hits : i <= j][2]

(* classify without findings: the tool where that settles it, then the     *)
(* text.                                                                   *)
LabelOfWrite(env) ==
    IF "protected_path" \in env.paths THEN "write_protected_path"
    ELSE IF env.tool = "Write" THEN "write_local_file" ELSE "edit_local_file"

LabelOfCall(env) ==
    CASE env.tool \in {"Read", "NotebookRead"}         -> "read_local_file"
      [] env.tool = "Grep"                             -> "search_local"
      [] env.tool = "Glob"                             -> "list_directory"
      [] env.tool \in WriteTools                       -> LabelOfWrite(env)
      [] env.tool \in {"WebFetch", "WebSearch"}        -> "fetch_external_content"
      [] ToolClass(env.tool) \in {"exec", "unknown"}   ->
            FirstLabel(TextLabels, env.normalized, "run_shell_command")
      [] ToolClass(env.tool) = "read" /\ env.tool \notin ReadTools -> "read_local_file"
      [] OTHER                                         -> "unknown_action"

(* A rule that has concluded something specific settles the label; the     *)
(* first finding that has one wins, in the order the rules are registered. *)
DataLabels == <<
    <<{"destructive.recursive_delete"}, "destroy_data">>,
    <<{"destructive.storage"}, "destroy_storage">>,
    <<{"destructive.sql"}, "destroy_data">>,
    <<{"destructive.git"}, "rewrite_history">>,
    <<{"destructive.fork_bomb"}, "destroy_storage">>,
    <<{"destructive.halt_pattern"}, "destroy_data">>,
    <<{"egress.blocked_domain"}, "fetch_external_content">>,
    <<{"secrets.exfiltration"}, "send_external_message">> >>
HookLabels == <<
    <<{"self_protect.interpreter_hijack",
       "self_protect.disable_hook"}, "modify_governor">> >>
SelfLabels == <<
    <<{"self_protect.sealed_surface"}, "touch_sealed_surface">>,
    <<{"self_protect.read_governor_files"}, "read_governor_files">>,
    <<{"self_protect.modify_governor"}, "modify_governor">>,
    <<{"self_protect.harness_config"}, "modify_harness_config">>,
    <<{"self_protect.kill_governor"}, "terminate_governor">>,
    <<{"self_protect.ungoverned_harness"}, "launch_ungoverned_harness">> >>
SecretLabels == << <<{"self_protect.read_secrets"}, "read_governor_secrets">> >>
LabelledRules_HookFirst == HookLabels \o DataLabels \o SelfLabels \o SecretLabels
LabelledRules == DataLabels \o SelfLabels \o HookLabels \o SecretLabels

Classify(env, ruleIds) == FirstLabel(LabelledRules, ruleIds, LabelOfCall(env))
=============================================================================
