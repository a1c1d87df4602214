---------------------------- MODULE MCGateDecision ----------------------------
(***************************************************************************)
(* The shipped policy (policy/default.yml) and a family of calls for TLC:  *)
(* shell commands with every pair of signs, calls of the other tools, and  *)
(* the encodings, failures and circumstances around single signs.          *)
(***************************************************************************)
EXTENDS GateDecision

DefaultMatrix == [a \in Actions |->
    CASE a \in {"write_protected_path", "delete_file", "run_interpreter",
                "install_dependency", "run_git_remote", "send_external_message",
                "upload_or_publish", "rewrite_history", "unknown_action"} -> "REVIEW"
      [] a \in AlwaysDenied \ {"rewrite_history"}                         -> "HALT"
      [] OTHER                                                            -> "ALLOW"]

DefaultTaintFloors == [t \in CLEAN..INSTRUCTED |->
    IF t = INSTRUCTED THEN "REVIEW" ELSE "ALLOW"]

TextSigns ==
    DestructiveSigns \union EgressSigns \union Hosts \union InjectionSigns
      \union ScopeSigns \union SecretsSigns \union ProtectSigns \union FileSigns
      \union NameSigns \union CommandSigns \union InterpreterSigns
      \union BlastSigns \union Hints \union LooseSigns \union {"halt_literal"}
AllSigns == TextSigns \union PathSigns

\* A text that bears the signs S bears these as well, by its patterns.
Closure(S) ==
    S \union (IF S \intersect {"git_rewrite", "git_reset", "git_clean", "git_branch",
                             "git_remote"} # {}
              THEN {"git"} ELSE {})
      \union (IF S \intersect {"chmod", "icacls", "icacls_sid", "chown"} # {}
              THEN {"write_sign"} ELSE {})
      \union (IF S \intersect Hosts # {} THEN {"url"} ELSE {})
      \union (IF "recursive_delete" \in S THEN {"delete_verb"} ELSE {})

Plain(tool, params) ==
    [tool |-> tool, params |-> params, layers |-> 0, decoy |-> FALSE, size |-> "fits"]
Command(S) == Plain("Bash", [action |-> Closure(S)])

Quiet == [taint |-> CLEAN, raising |-> {}, refused |-> FALSE, breached |-> FALSE,
          attended |-> TRUE, window |-> FALSE]

\* What the session and the perimeter may be like.
Circumstances ==
    {[Quiet EXCEPT !.taint = t, !.window = w] : t \in CLEAN..INSTRUCTED, w \in BOOLEAN}
      \union {[Quiet EXCEPT !.refused = r, !.breached = b, !.attended = a] :
                r, b, a \in BOOLEAN}

\* Shell commands with no, one and two signs.
Commands == {Command({s}) : s \in AllSigns} \union {Command({})}
Pairs == {Command({s, z}) : s, z \in AllSigns}

\* The other tools, known to the policy and not, with a path, contents or a
\* parameter on no list.
OtherCalls ==
    {Plain(tool, [path |-> {p}]) : tool \in ReadTools, p \in PathSigns}
      \union {Plain(tool, [path |-> {p, "lookalike"}]) :
                tool \in ReadTools \union WriteTools, p \in PathSigns}
      \union {Plain(tool, [path |-> {p}, content |-> Closure({s})]) :
                tool \in {"Write", "NotebookEdit"}, p \in PathSigns, s \in TextSigns}
      \union {Plain(tool, [action |-> Closure({s})]) :
                tool \in {"WebFetch", "TodoRead", "mcp_tool"}, s \in TextSigns}
      \union {Plain("mcp_tool", [other |-> Closure({s})]) : s \in AllSigns}

\* Commands around which there is an encoding, or too much text.
Wrapped ==
    {[Command({s}) EXCEPT !.layers = n, !.decoy = d] :
        s \in TextSigns, n \in 1..(MaxDecodePasses + 1), d \in BOOLEAN}
      \union {[Plain("Write", [path |-> {"plain_path"}, content |-> {s}]) EXCEPT
                 !.layers = n, !.decoy = d] :
        s \in {"marker", "dns_label", "dns_opaque"}, n \in 1..(MaxDecodePasses + 1),
        d \in BOOLEAN}
      \union {[Command({s}) EXCEPT !.size = z] : s \in TextSigns, z \in {"head", "tail"}}

DefaultInputs ==
    (Commands \X Circumstances)
      \union (Pairs \X {[Quiet EXCEPT !.window = w] : w \in BOOLEAN})
      \union ((OtherCalls \union Wrapped) \X {Quiet, [Quiet EXCEPT !.taint = EXPOSED]})
      \union (Commands \X {[Quiet EXCEPT !.raising = {r}] : r \in RuleNames})

\* The shipped policy and these calls are as the theorems suppose.
ASSUME ShippedAssumption ==
    /\ RisingFloors /\ OrderedGates
    /\ ResidueIsReviewed /\ PermissionsAreReviewed /\ HookReadsLess
    /\ ShellCalls /\ ReadAlike
=============================================================================
