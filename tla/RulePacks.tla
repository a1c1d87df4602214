------------------------------ MODULE RulePacks ------------------------------
(***************************************************************************)
(* The rules (runwall/rules/), one operator per registered rule.  A        *)
(* pattern is a sign (see Envelope); where a rule has several patterns     *)
(* whose findings add up without halting, each is a sign of its own.  A    *)
(* finding is [rule, on, score, halt], where on is the sign it rests on:   *)
(* messages, evidence and severities are left out.                         *)
(***************************************************************************)
EXTENDS Classifier

(* SessionState.taint                                                      *)
CLEAN      == 0
EXPOSED    == 1
INSTRUCTED == 2

(* One finding per sign of S among the given signs.                        *)
Scored(rule, score, signs, S) ==
    {[rule |-> rule, on |-> s, score |-> score, halt |-> FALSE] : s \in signs \intersect S}
Halting(rule, signs, S) ==
    {[rule |-> rule, on |-> s, score |-> 100, halt |-> TRUE] : s \in signs \intersect S}
Finding(rule, score, halt, condition) ==
    IF condition THEN {[rule |-> rule, on |-> rule, score |-> score, halt |-> halt]} ELSE {}

(* destructive: the pattern tables, as signs.                              *)
DestructiveSigns == {
    "recursive_delete", "device", "sql", "git_rewrite", "git_reset", "git_clean",
    "git_branch", "chmod", "icacls", "icacls_sid", "chown", "fork_bomb", "decode_exec"}
RecursiveDelete(env) == Halting("destructive.recursive_delete", env.action, {"recursive_delete"})
StorageDestruction(env) == Halting("destructive.storage", env.action, {"device"})
SqlDestruction(env) == Halting("destructive.sql", env.action, {"sql"})
GitHistory(env) ==
    Halting("destructive.git", env.action, {"git_rewrite"})
      \union Scored("destructive.git", 45, env.action,
                       {"git_reset", "git_clean", "git_branch"})
PermissionWidening(env) ==
    Scored("destructive.permissions", 60, env.action,
           {"chmod", "icacls", "icacls_sid", "chown"})
ForkBomb(env) == Halting("destructive.fork_bomb", env.action, {"fork_bomb"})
DecodeAndExecute(env) == Halting("destructive.decode_exec", env.action, {"decode_exec"})
ProtectedPathWrite(env) ==
    Finding("destructive.protected_path", 50, FALSE,
            env.tool \in WriteTools /\ "protected_path" \in TargetPaths(env))
HaltPattern(env) == Halting("destructive.halt_pattern", env.action, {"halt_literal"})

(* egress: the pattern tables, as signs, and the kinds of host a text      *)
(* names.  Loopback is on no list.                                         *)
EgressSigns == {"proxy_off", "piped_uri", "dns_label", "dns_opaque", "doh", "raw_socket",
                "tunnel"}
DeniedHosts   == {"denied_host"}
LoopbackHosts == {"loopback_host"}
UnlistedHosts == {"unlisted_host", "other_host", "third_host"} \union LoopbackHosts
Hosts         == {"listed_host"} \union DeniedHosts \union UnlistedHosts

DestinationGating(env) ==
    Halting("egress.blocked_domain", env.action, DeniedHosts)
      \union Scored("egress.unlisted_domain", 35, env.action, UnlistedHosts)
      \union Scored("egress.loopback_api", 50, env.action, LoopbackHosts)
ProxyEvasion(env) == Halting("egress.proxy_evasion", env.action, {"proxy_off"})
DynamicDestination(env) == Halting("egress.dynamic_destination", env.action, {"piped_uri"})

(* The one rule that reads the text undecoded, contents included: a DNS    *)
(* label that is base64 itself stands nowhere else, unlike one in which    *)
(* nothing can be decoded.                                                 *)
CovertChannel(env) ==
    Halting("egress.covert_channel", env.action \union env.raw,
            {"dns_label", "dns_opaque", "doh", "raw_socket", "tunnel"})

(* injection                                                               *)
InjectionSigns == {"marker", "authority"}
InjectionMarkers(env) ==
    Scored("injection.marker", 55, env.normalized, {"marker"})
      \union Scored("injection.authority_claim", 60, env.normalized, {"authority"})

Consequential == {"delete_file", "run_interpreter", "install_dependency",
                  "run_git_remote", "send_external_message",
                  "upload_or_publish", "write_protected_path"}

TaintedConsequentialAction_Swapped(env, taint) ==
    LET applies == LabelOfCall(env) \in Consequential
    IN  Finding("injection.laundered_instruction", 100, TRUE, applies /\ taint = EXPOSED)
          \union Finding("injection.tainted_session", 50, FALSE, applies /\ taint >= INSTRUCTED)
TaintedConsequentialAction(env, taint) ==
    LET applies == LabelOfCall(env) \in Consequential
    IN  Finding("injection.laundered_instruction", 100, TRUE, applies /\ taint >= INSTRUCTED)
          \union Finding("injection.tainted_session", 50, FALSE, applies /\ taint = EXPOSED)

InstructionInWrittenContent(env) ==
    IF env.tool \in WriteTools
    THEN Scored("injection.planted_instruction", 85, env.written, {"marker"}) ELSE {}

(* scope                                                                   *)
ScopeSigns == {"persistence", "privilege", "security_off", "link", "traversal"}
Persistence(env) == Halting("scope.persistence", env.action, {"persistence"})
PrivilegeEscalation(env) == Halting("scope.privilege", env.action, {"privilege"})
SecurityDisable(env) == Halting("scope.security_disable", env.action, {"security_off"})
LinkCreation(env) == Scored("scope.link_creation", 60, env.action, {"link"})
Traversal(env) == Scored("scope.traversal", 45, env.action, {"traversal"})
OutsideWorkingRoot(env) ==
    Finding("scope.outside_root", 30, FALSE,
            ToolClass(env.tool) \in {"write", "exec"} /\ "outside_path" \in env.paths)

(* secrets                                                                 *)
SecretsSigns == {"secret_literal", "secret_ref", "secret_file", "secret_found",
                 "outbound", "packed", "history_wipe"}
LiteralSecretPresent(env) ==
    Scored("secrets.literal_credential", 80, env.action, {"secret_literal"})
CarriesSecret_NoFile(env) ==
    env.action \intersect {"secret_ref", "secret_literal", "secret_found"} # {}
CarriesSecret(env) ==
    env.action \intersect {"secret_ref", "secret_file", "secret_literal", "secret_found"} # {}
Exfiltration(env) ==
    LET sends == "outbound" \in env.action /\ CarriesSecret(env)
    IN  Finding("secrets.exfiltration", 100, TRUE, sends)
          \union Finding("secrets.encoded_exfiltration", 100, TRUE,
                         sends /\ "packed" \in env.action)
CredentialFileRead(env) ==
    Finding("secrets.credential_access", 30, FALSE,
            "secret_file" \in env.action /\ "outbound" \notin env.action)
AntiForensics(env) == Halting("secrets.anti_forensics", env.action, {"history_wipe"})

(* self_protect                                                            *)
ProtectSigns == {"kill", "ungoverned", "hijack", "unhook"}
FileSigns    == {"read_verb", "write_sign"}
IsReadOnly(env) ==
    \/ env.tool \in ReadTools
    \/ env.tool = "Bash" /\ "write_sign" \notin env.action /\ "read_verb" \in env.action

(* Telling names, whatever the path around them: of the governor's files,  *)
(* and of the harness's.                                                   *)
OwnNames  == {"self_name", "secret_name", "anchor_name"}
NameSigns == OwnNames \union {"settings_text"}

(* Exactly one finding: of the sealed surface if a target lies in it, else *)
(* of the governor's own files.                                            *)
TouchOwnFiles(env) ==
    LET targets == TargetPaths(env)
        sealed  == targets \intersect SealedPaths # {}
        own     == targets \intersect SourcePaths # {} \/ env.action \intersect OwnNames # {}
    IN  IF env.tool \notin WriteTools \union ReadTools \union {"Bash"} THEN {}
        ELSE Finding("self_protect.sealed_surface", 100, TRUE, sealed)
               \union Finding("self_protect.read_governor_files", 100, TRUE,
                              ~sealed /\ own /\ IsReadOnly(env))
               \union Finding("self_protect.modify_governor", 100, TRUE,
                              ~sealed /\ own /\ ~IsReadOnly(env))
ModifyHarnessConfig_PathOnly(env) ==
    Finding("self_protect.harness_config", 100, TRUE, "settings_path" \in TargetPaths(env))
ModifyHarnessConfig(env) ==
    Finding("self_protect.harness_config", 100, TRUE,
            "settings_path" \in TargetPaths(env) \/ "settings_text" \in env.action)
KillGovernor(env) == Halting("self_protect.kill_governor", env.action, {"kill"})
UngovernedHarness(env) == Halting("self_protect.ungoverned_harness", env.action, {"ungoverned"})
InterpreterHijack(env) == Halting("self_protect.interpreter_hijack", env.action, {"hijack"})
DisableHook(env) == Halting("self_protect.disable_hook", env.action, {"unhook"})
ReadGovernorSecrets(env) ==
    Finding("self_protect.read_secrets", 100, TRUE,
            TargetPaths(env) \intersect SecretPaths # {} \/ "secret_name" \in env.action)
OversizedOrObfuscated(env) ==
    Finding("self_protect.oversized_payload", 100, TRUE, env.oversized)
      \union Finding("self_protect.residual_encoding", 55, FALSE, env.residual)
      \union Finding("self_protect.obfuscated_payload", 25, FALSE,
                     ~env.residual /\ env.passes >= 2)

(* The registry, with what each rule finds.                                *)
Registry(env, taint) == [
    recursive_delete |-> RecursiveDelete(env),
    storage_destruction |-> StorageDestruction(env),
    sql_destruction |-> SqlDestruction(env),
    git_history |-> GitHistory(env),
    permission_widening |-> PermissionWidening(env),
    fork_bomb |-> ForkBomb(env),
    decode_and_execute |-> DecodeAndExecute(env),
    protected_path_write |-> ProtectedPathWrite(env),
    halt_pattern |-> HaltPattern(env),
    destination_gating |-> DestinationGating(env),
    proxy_evasion |-> ProxyEvasion(env),
    dynamic_destination |-> DynamicDestination(env),
    covert_channel |-> CovertChannel(env),
    injection_markers |-> InjectionMarkers(env),
    tainted_consequential_action |-> TaintedConsequentialAction(env, taint),
    instruction_in_written_content |-> InstructionInWrittenContent(env),
    persistence |-> Persistence(env),
    privilege_escalation |-> PrivilegeEscalation(env),
    security_disable |-> SecurityDisable(env),
    link_creation |-> LinkCreation(env),
    traversal |-> Traversal(env),
    outside_working_root |-> OutsideWorkingRoot(env),
    literal_secret_present |-> LiteralSecretPresent(env),
    exfiltration |-> Exfiltration(env),
    credential_file_read |-> CredentialFileRead(env),
    anti_forensics |-> AntiForensics(env),
    touch_own_files |-> TouchOwnFiles(env),
    modify_harness_config |-> ModifyHarnessConfig(env),
    kill_governor |-> KillGovernor(env),
    ungoverned_harness |-> UngovernedHarness(env),
    interpreter_hijack |-> InterpreterHijack(env),
    disable_hook |-> DisableHook(env),
    read_governor_secrets |-> ReadGovernorSecrets(env),
    oversized_or_obfuscated |-> OversizedOrObfuscated(env)]

RuleNames == {
    "recursive_delete", "storage_destruction", "sql_destruction",
    "git_history", "permission_widening", "fork_bomb", "decode_and_execute",
    "protected_path_write", "halt_pattern", "destination_gating",
    "proxy_evasion", "dynamic_destination", "covert_channel",
    "injection_markers", "tainted_consequential_action",
    "instruction_in_written_content", "persistence", "privilege_escalation",
    "security_disable", "link_creation", "traversal", "outside_working_root",
    "literal_secret_present", "exfiltration", "credential_file_read",
    "anti_forensics", "touch_own_files", "modify_harness_config",
    "kill_governor", "ungoverned_harness", "interpreter_hijack",
    "disable_hook", "read_governor_secrets", "oversized_or_obfuscated"}

(* evaluate_all: a rule that raises is a halting finding itself.           *)
RuleError(rule) == [rule |-> "rule_error", on |-> rule, score |-> 100, halt |-> TRUE]
EvaluateAll_Skip(env, taint, raising) ==
    LET found == Registry(env, taint)
    IN  UNION {found[r] : r \in RuleNames \ raising}
EvaluateAll(env, taint, raising) ==
    LET found == Registry(env, taint)
    IN  UNION {IF r \in raising THEN {RuleError(r)} ELSE found[r] : r \in RuleNames}
RuleIds(findings) == {f.rule : f \in findings}
=============================================================================
