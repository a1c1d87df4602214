--------------------------- MODULE EvaluationProof ---------------------------
(***************************************************************************)
(* Theorems about GateDecision, for every policy that loads and every set  *)
(* of calls: a rule that halts or raises refuses the call, what leaves the *)
(* machine is not allowed by itself, no window reaches the sealed surface; *)
(* and, of two calls or of two sessions, that the one with more against it *)
(* is judged no milder.  For the latter decide() is taken apart: the score *)
(* rises with the findings, the floor with the reach, the gate with the    *)
(* label, the findings with the text, and the verdict with all of them.    *)
(***************************************************************************)
EXTENDS GateDecision, FiniteSetTheorems, TLAPS

-----------------------------------------------------------------------------
(* Routes.                                                                 *)

(* A set of routes has a strictest one.                                    *)
LEMMA StrictestExists ==
  ASSUME NEW S \in SUBSET Routes, S # {}
  PROVE  \E g \in S : \A h \in S : AtLeast(g, h)
<1>1. CASE "HALT" \in S
  BY <1>1 DEF AtLeast, Severity, Routes
<1>2. CASE "HALT" \notin S /\ "REVIEW" \in S
  BY <1>2 DEF AtLeast, Severity, Routes
<1>3. CASE "HALT" \notin S /\ "REVIEW" \notin S
  <2>1. S = {"ALLOW"}
    BY <1>3 DEF Routes
  <2> QED BY <2>1 DEF AtLeast, Severity
<1> QED BY <1>1, <1>2, <1>3

(* strictest() returns one of the routes it is given, and the strictest;   *)
(* what is not a route makes it HALT.                                      *)
LEMMA StrictestIsLeastUpperBound ==
  ASSUME NEW S
  PROVE  /\ S \subseteq Routes /\ S # {} => /\ Strictest(S) \in S
                                            /\ \A h \in S : AtLeast(Strictest(S), h)
         /\ ~(S \subseteq Routes /\ S # {}) => Strictest(S) = "HALT"
<1>1. ASSUME S \subseteq Routes, S # {}
      PROVE  Strictest(S) \in S /\ \A h \in S : AtLeast(Strictest(S), h)
  <2>1. \E g \in S : \A h \in S : AtLeast(g, h)
    BY <1>1, StrictestExists
  <2>2. Strictest(S) = CHOOSE g \in S : \A h \in S : AtLeast(g, h)
    BY <1>1 DEF Strictest
  <2> QED BY <2>1, <2>2
<1>2. ~(S \subseteq Routes /\ S # {}) => Strictest(S) = "HALT"
  BY DEF Strictest
<1> QED BY <1>1, <1>2

(* One refusal among the routes is enough, and one that is not ALLOW is    *)
(* enough for the result not to be.                                        *)
LEMMA StrictestKeeps ==
  ASSUME NEW S, NEW r \in S
  PROVE  /\ r = "HALT" => Strictest(S) = "HALT"
         /\ r # "ALLOW" => Strictest(S) # "ALLOW"
<1>1. CASE S \subseteq Routes
  <2>1. Strictest(S) \in Routes /\ AtLeast(Strictest(S), r) /\ r \in Routes
    BY <1>1, StrictestIsLeastUpperBound
  <2> QED BY <2>1 DEF AtLeast, Severity, Routes
<1>2. CASE ~(S \subseteq Routes)
  BY <1>2, StrictestIsLeastUpperBound
<1> QED BY <1>1, <1>2

-----------------------------------------------------------------------------
(* What decide() makes of a judgement.                                     *)

(* Without a window that applies, decide() is at least as strict as the    *)
(* judgement.                                                              *)
LEMMA DecideKeeps ==
  ASSUME NEW c, NEW g,
         ~(g.window /\ Judge(c, g.taint, g.raising).action \in Maintainable)
  PROVE  /\ Judge(c, g.taint, g.raising).route = "HALT" => Decide(c, g) = "HALT"
         /\ Judge(c, g.taint, g.raising).route # "ALLOW" => Decide(c, g) # "ALLOW"
<1> DEFINE j == Judge(c, g.taint, g.raising)
<1>1. Decide(c, g) = Attended(Floor(j, g), g.attended)
  BY DEF Decide
<1>2. \E S : j.route \in S /\ Floor(j, g) = Strictest(S)
  BY DEF Floor
<1>3. /\ j.route = "HALT" => Floor(j, g) = "HALT"
      /\ j.route # "ALLOW" => Floor(j, g) # "ALLOW"
  <2> HIDE DEF j
  <2> QED BY <1>2, StrictestKeeps
<1>4. /\ Floor(j, g) = "HALT" => Attended(Floor(j, g), g.attended) = "HALT"
      /\ Floor(j, g) # "ALLOW" => Attended(Floor(j, g), g.attended) # "ALLOW"
  <2> HIDE DEF j
  <2> QED BY DEF Attended
<1> QED BY <1>1, <1>3, <1>4

(* The route of a judgement is the strictest of three.                     *)
LEMMA JudgeRoute ==
  ASSUME NEW c, NEW t, NEW raising
  PROVE  /\ Judge(c, t, raising).findings = EvaluateAll(EnvelopeOf(c), t, raising)
         /\ \E score, gate :
              Judge(c, t, raising).route =
                Strictest({score, gate,
                           FloorRoute(BlastRadius(EnvelopeOf(c), Judge(c, t, raising).findings))})
         /\ \E gate, floor :
              Judge(c, t, raising).route =
                Strictest({RouteFromScore(Judge(c, t, raising).findings), gate, floor})
<1> DEFINE found == EvaluateAll(EnvelopeOf(c), t, raising)
           label == Classify(EnvelopeOf(c), RuleIds(found))
           judged == Judge(c, t, raising)
<1>1. judged.findings = found
  BY DEF Judge
<1>2. judged.route = Strictest({RouteFromScore(found), GateForAction(label),
                                FloorRoute(BlastRadius(EnvelopeOf(c), found))})
  BY DEF Judge
<1> HIDE DEF found, label, judged
<1>3. /\ \E score, gate : judged.route =
           Strictest({score, gate, FloorRoute(BlastRadius(EnvelopeOf(c), judged.findings))})
      /\ \E gate, floor : judged.route =
           Strictest({RouteFromScore(judged.findings), gate, floor})
  BY <1>1, <1>2
<1> QED BY <1>1, <1>3 DEF found, judged

(* A halting finding is a refusal, whatever the score.                     *)
LEMMA HaltingFindingRefuses ==
  ASSUME NEW c, NEW t, NEW raising,
         NEW f \in Judge(c, t, raising).findings, f.halt
  PROVE  Judge(c, t, raising).route = "HALT"
<1> DEFINE j == Judge(c, t, raising)
<1>1. RouteFromScore(j.findings) = "HALT"
  <2>1. \E g \in j.findings : g.halt
    BY Zenon
  <2>2. Halted(j.findings)
    BY <2>1, Zenon DEF Halted
  <2> QED BY <2>2, Zenon DEF RouteFromScore
<1>2. PICK g, floor : j.route = Strictest({RouteFromScore(j.findings), g, floor})
  BY JudgeRoute, Zenon
<1>3. Strictest({"HALT", g, floor}) = "HALT"
  BY StrictestKeeps
<1> QED BY <1>1, <1>2, <1>3, Zenon

(* So is a rule that raises.                                               *)
LEMMA RaisingRefuses ==
  ASSUME NEW c, NEW t, NEW raising, NEW r \in RuleNames, r \in raising
  PROVE  Judge(c, t, raising).route = "HALT"
<1>1. RuleError(r) \in EvaluateAll(EnvelopeOf(c), t, raising)
  BY DEF EvaluateAll
<1>2. Judge(c, t, raising).findings = EvaluateAll(EnvelopeOf(c), t, raising)
  BY JudgeRoute, Zenon
<1>3. RuleError(r) \in Judge(c, t, raising).findings
  BY <1>1, <1>2, Zenon
<1>4. RuleError(r).halt
  BY DEF RuleError
<1> QED BY <1>3, <1>4, HaltingFindingRefuses, Zenon

(* What leaves the machine does not come back: the floor is a review.      *)
LEMMA LeavingHasFloor ==
  ASSUME NEW env, NEW findings, "leaves" \in env.normalized
  PROVE  FloorRoute(BlastRadius(env, findings)) = "REVIEW"
<1>1. "external" \in ScopesReached(env)
  BY DEF ScopesReached
<1>2. Scope(env) = "external"
  <2>1. /\ Scopes[5] = "external" /\ 5 \in DOMAIN Scopes
        /\ \A j \in DOMAIN Scopes : j <= 5
    BY DEF Scopes
  <2>2. \A i \in DOMAIN Scopes :
          i = 5 <=> /\ Scopes[i] \in ScopesReached(env)
                    /\ \A j \in DOMAIN Scopes : Scopes[j] \in ScopesReached(env) => j <= i
    BY <1>1, <2>1 DEF Scopes
  <2> QED BY <2>1, <2>2 DEF Scope, Widest
<1>3. Reversibility(env, findings) = "irreversible"
  BY <1>2 DEF Reversibility
<1>4. /\ BlastRadius(env, findings).scope = "external"
      /\ BlastRadius(env, findings).reversibility = "irreversible"
  BY <1>2, <1>3 DEF BlastRadius
<1> QED BY <1>4 DEF FloorRoute

(* Such a call is at least reviewed.                                       *)
LEMMA LeavingJudged ==
  ASSUME NEW c, NEW t, NEW raising, "leaves" \in EnvelopeOf(c).normalized
  PROVE  Judge(c, t, raising).route # "ALLOW"
<1> DEFINE j == Judge(c, t, raising)
           floor == FloorRoute(BlastRadius(EnvelopeOf(c), j.findings))
<1>1. floor = "REVIEW"
  <2> HIDE DEF j
  <2> QED BY LeavingHasFloor
<1>2. \E s, g : j.route = Strictest({s, g, floor})
  BY JudgeRoute, Zenon
<1> HIDE DEF j, floor
<1>3. PICK s, g : j.route = Strictest({s, g, floor})
  BY <1>2
<1>4. Strictest({s, g, "REVIEW"}) # "ALLOW"
  BY StrictestKeeps
<1> QED BY <1>1, <1>3, <1>4 DEF j

-----------------------------------------------------------------------------
(* Scores.                                                                 *)

(* The image of a finite set is finite.                                    *)
LEMMA ImageFinite ==
  ASSUME NEW S, IsFiniteSet(S), NEW f
  PROVE  IsFiniteSet({f[x] : x \in S})
<1> DEFINE T == {f[x] : x \in S}
           g == [x \in S |-> f[x]]
<1>1. g \in Surjection(S, T)
  BY DEF Surjection
<1> QED BY <1>1, FS_Surjection

(* The tables of the rules are short.                                      *)
LEMMA FourFinite ==
  ASSUME NEW a, NEW b, NEW c, NEW d
  PROVE  IsFiniteSet({a, b, c, d})
<1>1. IsFiniteSet({a})
  BY FS_Singleton
<1>2. IsFiniteSet({a} \union {b})
  BY <1>1, FS_AddElement
<1>3. IsFiniteSet(({a} \union {b}) \union {c})
  BY <1>2, FS_AddElement
<1>4. IsFiniteSet((({a} \union {b}) \union {c}) \union {d})
  BY <1>3, FS_AddElement
<1>5. (({a} \union {b}) \union {c}) \union {d} = {a, b, c, d}
  OBVIOUS
<1> QED BY <1>4, <1>5

(* So is the registry.                                                     *)
LEMMA RuleNamesFinite == IsFiniteSet(RuleNames)
<1> DEFINE A == {"recursive_delete", "storage_destruction", "sql_destruction", "git_history"}
           B == {"permission_widening", "fork_bomb", "decode_and_execute", "protected_path_write"}
           C == {"halt_pattern", "destination_gating", "proxy_evasion", "dynamic_destination"}
           D == {"covert_channel", "injection_markers", "tainted_consequential_action",
                 "instruction_in_written_content"}
           E == {"persistence", "privilege_escalation", "security_disable", "link_creation"}
           F == {"traversal", "outside_working_root", "literal_secret_present", "exfiltration"}
           G == {"credential_file_read", "anti_forensics", "touch_own_files",
                 "modify_harness_config"}
           H == {"kill_governor", "ungoverned_harness", "interpreter_hijack", "disable_hook"}
           K == {"read_governor_secrets", "oversized_or_obfuscated",
                 "oversized_or_obfuscated", "oversized_or_obfuscated"}
<1>1. /\ IsFiniteSet(A) /\ IsFiniteSet(B) /\ IsFiniteSet(C) /\ IsFiniteSet(D)
      /\ IsFiniteSet(E) /\ IsFiniteSet(F) /\ IsFiniteSet(G) /\ IsFiniteSet(H)
      /\ IsFiniteSet(K)
  BY FourFinite
<1>2. RuleNames = ((((((((A \union B) \union C) \union D) \union E) \union F) \union G)
                      \union H) \union K)
  BY Zenon DEF RuleNames
<1> HIDE DEF A, B, C, D, E, F, G, H, K
<1>3. IsFiniteSet(A \union B)
  BY <1>1, FS_Union
<1>4. IsFiniteSet((A \union B) \union C)
  BY <1>1, <1>3, FS_Union
<1>5. IsFiniteSet(((A \union B) \union C) \union D)
  BY <1>1, <1>4, FS_Union
<1>6. IsFiniteSet((((A \union B) \union C) \union D) \union E)
  BY <1>1, <1>5, FS_Union
<1>7. IsFiniteSet(((((A \union B) \union C) \union D) \union E) \union F)
  BY <1>1, <1>6, FS_Union
<1>8. IsFiniteSet((((((A \union B) \union C) \union D) \union E) \union F) \union G)
  BY <1>1, <1>7, FS_Union
<1>9. IsFiniteSet(((((((A \union B) \union C) \union D) \union E) \union F) \union G) \union H)
  BY <1>1, <1>8, FS_Union
<1> QED BY <1>1, <1>2, <1>9, FS_Union

(* What a table finds, and a single finding, are finitely many findings.   *)
LEMMA FindingsFinite ==
  /\ \A rule, score, signs, S :
       IsFiniteSet(S) => /\ IsFiniteSet(Scored(rule, score, signs, S))
                         /\ IsFiniteSet(Halting(rule, signs, S))
  /\ \A rule, score, halt, condition : IsFiniteSet(Finding(rule, score, halt, condition))
<1>1. ASSUME NEW rule, NEW score, NEW signs, NEW S, IsFiniteSet(S)
      PROVE  /\ IsFiniteSet(Scored(rule, score, signs, S))
             /\ IsFiniteSet(Halting(rule, signs, S))
  <2> DEFINE hits == signs \intersect S
             f == [s \in hits |-> [rule |-> rule, on |-> s, score |-> score, halt |-> FALSE]]
             g == [s \in hits |-> [rule |-> rule, on |-> s, score |-> 100, halt |-> TRUE]]
  <2>1. IsFiniteSet(hits)
    BY <1>1, FS_Intersection
  <2>2. IsFiniteSet({f[s] : s \in hits}) /\ IsFiniteSet({g[s] : s \in hits})
    <3> HIDE DEF hits, f, g
    <3> QED BY <2>1, ImageFinite
  <2>3. {f[s] : s \in hits} = Scored(rule, score, signs, S)
    BY DEF Scored
  <2>4. {g[s] : s \in hits} = Halting(rule, signs, S)
    BY DEF Halting
  <2> QED BY <2>2, <2>3, <2>4
<1>2. ASSUME NEW rule, NEW score, NEW halt, NEW condition
      PROVE  IsFiniteSet(Finding(rule, score, halt, condition))
  BY FS_EmptySet, FS_Singleton DEF Finding
<1> QED BY <1>1, <1>2

(* Every rule finds finitely many.                                         *)
LEMMA RegistryFinite ==
  ASSUME NEW env, NEW taint, NEW r \in RuleNames
  PROVE  IsFiniteSet(Registry(env, taint)[r])
<1>1. /\ \A a : IsFiniteSet({a})
      /\ \A a, b : IsFiniteSet({a, b})
      /\ \A a, b, c : IsFiniteSet({a, b, c})
      /\ \A a, b, c, d : IsFiniteSet({a, b, c, d})
      /\ \A a, b, c, d, x : IsFiniteSet({a, b, c, d, x})
  <2>1. \A a, b, c, d : IsFiniteSet({a, b, c, d})
    BY FourFinite
  <2>2. ASSUME NEW a, NEW b PROVE IsFiniteSet({a, b})
    <3>1. {a, b} = {a, a, a, b}
      OBVIOUS
    <3> QED BY <2>1, <3>1
  <2>3. \A a : IsFiniteSet({a})
    BY FS_Singleton
  <2>4. ASSUME NEW a, NEW b, NEW c PROVE IsFiniteSet({a, b, c})
    <3>1. {a, b, c} = {a, a, b, c}
      OBVIOUS
    <3> QED BY <2>1, <3>1
  <2>5. ASSUME NEW a, NEW b, NEW c, NEW d, NEW x PROVE IsFiniteSet({a, b, c, d, x})
    <3>1. IsFiniteSet({a, b, c, d} \union {x})
      BY <2>1, FS_AddElement
    <3>2. {a, b, c, d} \union {x} = {a, b, c, d, x}
      OBVIOUS
    <3> QED BY <3>1, <3>2
  <2> QED BY <2>1, <2>2, <2>3, <2>4, <2>5
<1>2. \A S, T : IsFiniteSet(S) /\ IsFiniteSet(T) => IsFiniteSet(S \union T)
  BY FS_Union
<1>3. IsFiniteSet({})
  BY FS_EmptySet
<1>4. /\ \A rule, score, signs, S :
           IsFiniteSet(S) => /\ IsFiniteSet(Scored(rule, score, signs, S))
                             /\ IsFiniteSet(Halting(rule, signs, S))
      /\ \A rule, score, halt, condition : IsFiniteSet(Finding(rule, score, halt, condition))
  BY FindingsFinite
<1>5. /\ IsFiniteSet(RecursiveDelete(env))
      /\ IsFiniteSet(StorageDestruction(env))
      /\ IsFiniteSet(SqlDestruction(env))
      /\ IsFiniteSet(GitHistory(env))
      /\ IsFiniteSet(PermissionWidening(env))
      /\ IsFiniteSet(ForkBomb(env))
      /\ IsFiniteSet(DecodeAndExecute(env))
      /\ IsFiniteSet(ProtectedPathWrite(env))
      /\ IsFiniteSet(HaltPattern(env))
  BY <1>1, <1>2, <1>3, <1>4, Zenon
     DEF RecursiveDelete, StorageDestruction, SqlDestruction, GitHistory,
         PermissionWidening, ForkBomb, DecodeAndExecute, ProtectedPathWrite, HaltPattern
<1>6. /\ IsFiniteSet(DestinationGating(env))
      /\ IsFiniteSet(ProxyEvasion(env))
      /\ IsFiniteSet(DynamicDestination(env))
      /\ IsFiniteSet(CovertChannel(env))
      /\ IsFiniteSet(InjectionMarkers(env))
      /\ IsFiniteSet(TaintedConsequentialAction(env, taint))
      /\ IsFiniteSet(InstructionInWrittenContent(env))
  <2>1. /\ IsFiniteSet(UnlistedHosts) /\ IsFiniteSet(DeniedHosts)
        /\ IsFiniteSet(LoopbackHosts)
    <3>1. /\ IsFiniteSet({"unlisted_host", "other_host", "third_host", "third_host"})
          /\ IsFiniteSet({"loopback_host"}) /\ IsFiniteSet({"denied_host"})
      BY <1>1, Zenon
    <3>2. {"unlisted_host", "other_host", "third_host", "third_host"}
            = {"unlisted_host", "other_host", "third_host"}
      OBVIOUS
    <3> QED BY <1>2, <3>1, <3>2, Zenon DEF UnlistedHosts, DeniedHosts, LoopbackHosts
  <2>2. IsFiniteSet(DestinationGating(env))
    BY <1>2, <1>4, <2>1, Zenon DEF DestinationGating
  <2> QED BY <1>1, <1>2, <1>3, <1>4, <2>2, Zenon
     DEF ProxyEvasion, DynamicDestination, CovertChannel, InjectionMarkers,
         TaintedConsequentialAction, InstructionInWrittenContent
<1>7. /\ IsFiniteSet(Persistence(env))
      /\ IsFiniteSet(PrivilegeEscalation(env))
      /\ IsFiniteSet(SecurityDisable(env))
      /\ IsFiniteSet(LinkCreation(env))
      /\ IsFiniteSet(Traversal(env))
      /\ IsFiniteSet(OutsideWorkingRoot(env))
      /\ IsFiniteSet(LiteralSecretPresent(env))
      /\ IsFiniteSet(Exfiltration(env))
      /\ IsFiniteSet(CredentialFileRead(env))
      /\ IsFiniteSet(AntiForensics(env))
  BY <1>1, <1>2, <1>3, <1>4, Zenon
     DEF Persistence, PrivilegeEscalation, SecurityDisable, LinkCreation, Traversal,
         OutsideWorkingRoot, LiteralSecretPresent, Exfiltration, CredentialFileRead,
         AntiForensics
<1>8. /\ IsFiniteSet(TouchOwnFiles(env))
      /\ IsFiniteSet(ModifyHarnessConfig(env))
      /\ IsFiniteSet(KillGovernor(env))
      /\ IsFiniteSet(UngovernedHarness(env))
      /\ IsFiniteSet(InterpreterHijack(env))
      /\ IsFiniteSet(DisableHook(env))
      /\ IsFiniteSet(ReadGovernorSecrets(env))
      /\ IsFiniteSet(OversizedOrObfuscated(env))
  <2>1. IsFiniteSet(TouchOwnFiles(env))
    <3> DEFINE Own(rule) == [rule |-> rule, on |-> rule, score |-> 100, halt |-> TRUE]
               all == {Own("self_protect.sealed_surface"),
                       Own("self_protect.read_governor_files"),
                       Own("self_protect.modify_governor"),
                       Own("self_protect.modify_governor")}
    <3>1. TouchOwnFiles(env) \subseteq all
      BY SMT DEF TouchOwnFiles, Finding
    <3>2. IsFiniteSet(all)
      BY FourFinite, Zenon
    <3> HIDE DEF all
    <3> QED BY <3>1, <3>2, FS_Subset
  <2>2. IsFiniteSet(OversizedOrObfuscated(env))
    BY <1>2, <1>4, Zenon DEF OversizedOrObfuscated
  <2> QED BY <1>1, <1>4, <2>1, <2>2, Zenon
     DEF ModifyHarnessConfig, KillGovernor, UngovernedHarness, InterpreterHijack,
     DisableHook, ReadGovernorSecrets
<1>9. CASE r \in {"recursive_delete", "storage_destruction", "sql_destruction", "git_history", "permission_widening", "fork_bomb", "decode_and_execute", "protected_path_write", "halt_pattern"}
  BY <1>5, <1>9 DEF Registry
<1>10. CASE r \in {"destination_gating", "proxy_evasion", "dynamic_destination", "covert_channel", "injection_markers", "tainted_consequential_action", "instruction_in_written_content"}
  BY <1>6, <1>10 DEF Registry
<1>11. CASE r \in {"persistence", "privilege_escalation", "security_disable", "link_creation", "traversal", "outside_working_root", "literal_secret_present", "exfiltration", "credential_file_read", "anti_forensics"}
  BY <1>7, <1>11 DEF Registry
<1>12. CASE r \in {"touch_own_files", "modify_harness_config", "kill_governor", "ungoverned_harness", "interpreter_hijack", "disable_hook", "read_governor_secrets", "oversized_or_obfuscated"}
  BY <1>8, <1>12 DEF Registry
<1> QED BY <1>9, <1>10, <1>11, <1>12 DEF RuleNames

(* So do all of them.                                                      *)
LEMMA EvaluateAllFinite ==
  ASSUME NEW env, NEW taint, NEW raising
  PROVE  IsFiniteSet(EvaluateAll(env, taint, raising))
<1> DEFINE f == [r \in RuleNames |-> IF r \in raising THEN {RuleError(r)}
                                     ELSE Registry(env, taint)[r]]
<1>1. IsFiniteSet({f[r] : r \in RuleNames})
  <2> HIDE DEF f
  <2> QED BY RuleNamesFinite, ImageFinite
<1>2. \A T \in {f[r] : r \in RuleNames} : IsFiniteSet(T)
  <2>1. SUFFICES ASSUME NEW r \in RuleNames PROVE IsFiniteSet(f[r])
    BY Zenon
  <2>2. IsFiniteSet(Registry(env, taint)[r])
    BY RegistryFinite
  <2>3. IsFiniteSet({RuleError(r)})
    BY FS_Singleton
  <2> QED BY <2>2, <2>3
<1>3. EvaluateAll(env, taint, raising) = UNION {f[r] : r \in RuleNames}
  BY DEF EvaluateAll
<1> HIDE DEF f
<1> QED BY <1>1, <1>2, <1>3, FS_UNION

(* The points of finitely many findings can be counted.                    *)
LEMMA PointsFinite ==
  ASSUME NEW F, IsFiniteSet(F)
  PROVE  IsFiniteSet(Points(F)) /\ Cardinality(Points(F)) \in Nat
<1>1. IsFiniteSet(1..100)
  <2>1. 1 \in Int /\ 100 \in Int
    OBVIOUS
  <2> QED BY <2>1, FS_Interval, Zenon
<1>2. IsFiniteSet(F \X (1..100))
  BY <1>1, FS_Product
<1>3. Points(F) \in SUBSET (F \X (1..100))
  BY DEF Points
<1> QED BY <1>2, <1>3, FS_Subset, FS_CardinalityType

(* More findings never lower the score.                                    *)
LEMMA ScoreMonotone ==
  ASSUME NEW F, NEW F2, IsFiniteSet(F2), F \subseteq F2
  PROVE  Score(F) \in Nat /\ Score(F2) \in Nat /\ Score(F) <= Score(F2)
<1>1. IsFiniteSet(F)
  BY FS_Subset
<1>2. /\ IsFiniteSet(Points(F2)) /\ Cardinality(Points(F2)) \in Nat
      /\ Cardinality(Points(F)) \in Nat
  BY <1>1, PointsFinite
<1>3. Points(F) \in SUBSET Points(F2)
  BY DEF Points
<1>4. Cardinality(Points(F)) <= Cardinality(Points(F2))
  BY <1>2, <1>3, FS_Subset
<1> QED BY <1>2, <1>4 DEF Score

(* The points of one finding are as many as its score.                     *)
LEMMA PointsOfOne ==
  ASSUME NEW f, f.score \in 1..100
  PROVE  IsFiniteSet(Points({f})) /\ Cardinality(Points({f})) = f.score
<1>1. Points({f}) = {f} \X (1..f.score)
  BY DEF Points
<1>2. IsFiniteSet({f}) /\ Cardinality({f}) = 1
  BY FS_Singleton
<1>3. IsFiniteSet(1..f.score) /\ Cardinality(1..f.score) = f.score
  <2>1. 1 \in Int /\ f.score \in Int /\ f.score - 1 + 1 = f.score /\ ~(1 > f.score)
    OBVIOUS
  <2> QED BY <2>1, FS_Interval, Zenon
<1>4. /\ IsFiniteSet({f} \X (1..f.score))
      /\ Cardinality({f} \X (1..f.score)) = Cardinality({f}) * Cardinality(1..f.score)
  BY <1>2, <1>3, FS_Product, Zenon
<1>5. Cardinality({f} \X (1..f.score)) = 1 * f.score
  BY <1>2, <1>3, <1>4, Zenon
<1>6. 1 * f.score = f.score
  OBVIOUS
<1> QED BY <1>1, <1>4, <1>5, <1>6, Zenon

(* The score is no lower than that of any one finding.                     *)
LEMMA ScoreCounts ==
  ASSUME NEW F, IsFiniteSet(F), NEW f \in F, f.score \in 1..100
  PROVE  Score(F) \in Nat /\ f.score <= Score(F)
<1>1. Points({f}) \in SUBSET Points(F)
  BY DEF Points
<1>2. Cardinality(Points({f})) = f.score
  BY PointsOfOne
<1>3. IsFiniteSet(Points(F)) /\ Cardinality(Points(F)) \in Nat
  BY PointsFinite
<1>4. Cardinality(Points({f})) <= Cardinality(Points(F))
  BY <1>1, <1>3, FS_Subset
<1> QED BY <1>2, <1>3, <1>4 DEF Score

-----------------------------------------------------------------------------
(* Comparing routes.                                                       *)

(* Strictness is a linear order of the routes.                             *)
LEMMA AtLeastOrders ==
  /\ \A g \in Routes : AtLeast(g, g) /\ AtLeast("HALT", g) /\ AtLeast(g, "ALLOW")
  /\ \A g, h, k \in Routes : AtLeast(g, h) /\ AtLeast(h, k) => AtLeast(g, k)
BY DEF AtLeast, Severity, Routes

(* The strictest of routes each of which is answered by one as strict.     *)
LEMMA StrictestMonotone ==
  ASSUME NEW S \in SUBSET Routes, NEW S2 \in SUBSET Routes, S # {},
         \A g \in S : \E h \in S2 : AtLeast(h, g)
  PROVE  /\ AtLeast(Strictest(S2), Strictest(S))
         /\ Strictest(S) \in Routes /\ Strictest(S2) \in Routes
<1>1. Strictest(S) \in S
  BY StrictestIsLeastUpperBound
<1>2. PICK h \in S2 : AtLeast(h, Strictest(S))
  BY <1>1
<1>3. Strictest(S2) \in S2 /\ AtLeast(Strictest(S2), h)
  BY <1>2, StrictestIsLeastUpperBound
<1> QED BY <1>1, <1>2, <1>3, AtLeastOrders

(* The gates of the policy are routes.                                     *)
LEMMA GateIsRoute == \A action : GateForAction(action) \in Routes
BY PolicyAssumption DEF ValidPolicy, GateForAction, Routes

-----------------------------------------------------------------------------
(* More findings.                                                          *)

Halts(findings) == \E f \in findings : f.halt

(* What rule oversized_or_obfuscated finds of much decoding, and what it   *)
(* finds instead when something is left.                                   *)
Obfuscated == [rule |-> "self_protect.obfuscated_payload",
               on |-> "self_protect.obfuscated_payload", score |-> 25, halt |-> FALSE]
Residue == [rule |-> "self_protect.residual_encoding",
            on |-> "self_protect.residual_encoding", score |-> 55, halt |-> FALSE]

(* The later findings are all of the earlier and more, or halt anyway, or  *)
(* the second of these has taken the place of the first.                   *)
Covers(later, earlier) ==
  \/ earlier \subseteq later
  \/ Halts(later)
  \/ earlier \ {Obfuscated} \subseteq later /\ Residue \in later \ earlier

(* What is left weighs more than what was decoded.                         *)
LEMMA ResidueWeighsMore ==
  ASSUME NEW F, NEW F2, IsFiniteSet(F2),
         F \ {Obfuscated} \subseteq F2, Residue \in F2 \ F
  PROVE  Score(F) \in Nat /\ Score(F2) \in Nat /\ Score(F) <= Score(F2)
<1> DEFINE rest == F \ {Obfuscated}
           P == Points(rest)
           O == Points({Obfuscated})
           R == Points({Residue})
<1>1. IsFiniteSet(rest) /\ IsFiniteSet(F)
  <2>1. IsFiniteSet(rest)
    BY FS_Subset
  <2>2. IsFiniteSet(rest \union {Obfuscated})
    BY <2>1, FS_AddElement
  <2>3. F \subseteq rest \union {Obfuscated}
    OBVIOUS
  <2> QED BY <2>1, <2>2, <2>3, FS_Subset
<1>2. /\ IsFiniteSet(P) /\ Cardinality(P) \in Nat
      /\ Cardinality(Points(F)) \in Nat
      /\ IsFiniteSet(Points(F2)) /\ Cardinality(Points(F2)) \in Nat
  BY <1>1, PointsFinite
<1>3. /\ IsFiniteSet(O) /\ Cardinality(O) = 25
      /\ IsFiniteSet(R) /\ Cardinality(R) = 55
  <2>1. Obfuscated.score = 25 /\ Residue.score = 55
    BY DEF Obfuscated, Residue
  <2>2. Obfuscated.score \in 1..100 /\ Residue.score \in 1..100
    BY <2>1
  <2>3. /\ IsFiniteSet(O) /\ Cardinality(O) = Obfuscated.score
        /\ IsFiniteSet(R) /\ Cardinality(R) = Residue.score
    BY <2>2, PointsOfOne, Zenon
  <2> QED BY <2>1, <2>3, Zenon
<1>4. Points(F) \subseteq P \union O /\ P \union R \subseteq Points(F2) /\ P \intersect R = {}
  BY DEF Points
<1> HIDE DEF rest, P, O, R
<1>5. Cardinality(Points(F)) <= Cardinality(P) + 25
  <2>1. /\ IsFiniteSet(P \union O)
        /\ Cardinality(P \union O) = Cardinality(P) + Cardinality(O) - Cardinality(P \intersect O)
    BY <1>2, <1>3, FS_Union
  <2>2. Cardinality(P \intersect O) \in Nat
    BY <1>2, FS_Intersection, FS_CardinalityType
  <2>3. Cardinality(Points(F)) <= Cardinality(P \union O)
    BY <1>4, <2>1, FS_Subset
  <2> QED BY <1>2, <1>3, <2>1, <2>2, <2>3
<1>6. Cardinality(P) + 55 <= Cardinality(Points(F2))
  <2>1. Cardinality(P \union R) = Cardinality(P) + Cardinality(R) - Cardinality(P \intersect R)
    BY <1>2, <1>3, FS_Union
  <2>2. Cardinality(P \intersect R) = 0
    BY <1>4, FS_EmptySet
  <2>3. Cardinality(P \union R) <= Cardinality(Points(F2))
    BY <1>2, <1>4, FS_Subset
  <2> QED BY <1>2, <1>3, <2>1, <2>2, <2>3
<1>7. Cardinality(Points(F)) <= Cardinality(Points(F2))
  BY <1>2, <1>5, <1>6
<1> QED BY <1>2, <1>7 DEF Score

(* The route by score follows.                                             *)
LEMMA RouteFromScoreMonotone ==
  ASSUME NEW F, NEW F2, IsFiniteSet(F2), Covers(F2, F)
  PROVE  /\ AtLeast(RouteFromScore(F2), RouteFromScore(F))
         /\ RouteFromScore(F) \in Routes /\ RouteFromScore(F2) \in Routes
<1>1. RouteFromScore(F) \in Routes /\ RouteFromScore(F2) \in Routes
  BY DEF RouteFromScore, Routes
<1>2. CASE Halts(F2)
  <2>1. RouteFromScore(F2) = "HALT"
    BY <1>2, Zenon DEF RouteFromScore, Halted, Halts
  <2> QED BY <1>1, <2>1, AtLeastOrders
<1>3. CASE \/ F \subseteq F2
            \/ (F \ {Obfuscated} \subseteq F2 /\ Residue \in F2 \ F)
  <2>1. Score(F) \in Nat /\ Score(F2) \in Nat /\ Score(F) <= Score(F2)
    BY <1>3, ScoreMonotone, ResidueWeighsMore
  <2>2. ReviewAt \in Nat /\ HaltAt \in Nat
    <3>1. ReviewAt \in 1..100 /\ HaltAt \in 1..100
      BY PolicyAssumption, Zenon DEF ValidPolicy
    <3> QED BY <3>1
  <2>3. Halted(F) => Halted(F2)
    <3>1. (\E f \in F : f.halt) => \E f \in F2 : f.halt
      <4>1. ~Obfuscated.halt
        BY DEF Obfuscated
      <4> QED BY <1>3, <4>1, Zenon
    <3>2. Score(F) >= HaltAt => Score(F2) >= HaltAt
      BY <2>1, <2>2
    <3> QED BY <3>1, <3>2, Zenon DEF Halted
  <2>4. Score(F) >= ReviewAt => Score(F2) >= ReviewAt
    BY <2>1, <2>2
  <2>5. \/ RouteFromScore(F2) = "HALT"
        \/ RouteFromScore(F) = "ALLOW"
        \/ RouteFromScore(F) = "REVIEW" /\ RouteFromScore(F2) = "REVIEW"
    BY <2>3, <2>4, Zenon DEF RouteFromScore
  <2> QED BY <1>1, <2>5, AtLeastOrders
<1>4. \/ F \subseteq F2
      \/ Halts(F2)
      \/ (F \ {Obfuscated} \subseteq F2 /\ Residue \in F2 \ F)
  BY Zenon DEF Covers
<1> QED BY <1>1, <1>2, <1>3, <1>4, Zenon

-----------------------------------------------------------------------------
(* More of a text.                                                         *)

(* What the blast radius reads of an envelope, and what only grows in it.  *)
Reaches(later, earlier) ==
  /\ later.tool = earlier.tool
  /\ earlier.normalized \subseteq later.normalized
  /\ AllPaths(earlier) \subseteq AllPaths(later)
  /\ {earlier.passes, later.passes} \subseteq Nat /\ earlier.passes <= later.passes
  /\ later.oversized = earlier.oversized

(* How far a call reaches is told by the furthest scope.                   *)
LEMMA ScopeFurthest ==
  ASSUME NEW env
  PROVE  /\ Scope(env) = "external" <=> "external" \in ScopesReached(env)
         /\ Scope(env) \in {"network", "external"}
              <=> ScopesReached(env) \intersect {"network", "external"} # {}
         /\ Scope(env) \in {"machine", "network", "external"}
              <=> ScopesReached(env) \intersect {"machine", "network", "external"} # {}
<1> DEFINE R == ScopesReached(env)
           Last(i) == Scopes[i] \in R /\ \A j \in 1..5 : Scopes[j] \in R => j <= i
<1>1. /\ DOMAIN Scopes = 1..5
      /\ Scopes[1] = "local" /\ Scopes[2] = "repo" /\ Scopes[3] = "machine"
      /\ Scopes[4] = "network" /\ Scopes[5] = "external"
  BY DEF Scopes
<1>2. "local" \in R
  BY DEF ScopesReached
<1>3. Scope(env) = Scopes[CHOOSE i \in 1..5 : Last(i)]
  BY <1>1, Zenon DEF Scope, Widest
<1> HIDE DEF R
<1>4. \E i \in 1..5 : Last(i)
  <2>1. CASE Scopes[5] \in R
    BY <2>1
  <2>2. CASE Scopes[5] \notin R /\ Scopes[4] \in R
    BY <2>2
  <2>3. CASE Scopes[5] \notin R /\ Scopes[4] \notin R /\ Scopes[3] \in R
    BY <2>3
  <2>4. CASE Scopes[5] \notin R /\ Scopes[4] \notin R /\ Scopes[3] \notin R /\ Scopes[2] \in R
    BY <2>4
  <2>5. CASE Scopes[5] \notin R /\ Scopes[4] \notin R /\ Scopes[3] \notin R /\ Scopes[2] \notin R
    BY <1>1, <1>2, <2>5
  <2> QED BY <2>1, <2>2, <2>3, <2>4, <2>5
<1>5. PICK i \in 1..5 : Last(i) /\ Scope(env) = Scopes[i]
  BY <1>3, <1>4
<1> QED BY <1>1, <1>5 DEF R

(* Its floor is no milder when it reaches as far or further, and the rules *)
(* find as much or more.                                                   *)
LEMMA FloorMonotone ==
  ASSUME NEW e, NEW e2, NEW F, NEW F2, Reaches(e2, e), Covers(F2, F)
  PROVE  /\ AtLeast(FloorRoute(BlastRadius(e2, F2)), FloorRoute(BlastRadius(e, F)))
         /\ FloorRoute(BlastRadius(e, F)) \in Routes /\ FloorRoute(BlastRadius(e2, F2)) \in Routes
<1> DEFINE b  == BlastRadius(e, F)
           b2 == BlastRadius(e2, F2)
<1>1. ScopesReached(e) \subseteq ScopesReached(e2)
  BY DEF Reaches, ScopesReached, IsInterpreterInvocation
<1>2. /\ b.scope = "external" => b2.scope = "external"
      /\ b.scope \in {"network", "external"} => b2.scope \in {"network", "external"}
      /\ b.scope \in {"machine", "network", "external"}
           => b2.scope \in {"machine", "network", "external"}
  BY <1>1, ScopeFurthest DEF BlastRadius
<1>3. b.reversibility = "irreversible" => b2.reversibility = "irreversible"
  <2>1. Halts(F) => Halts(F2)
    <3>1. ~Obfuscated.halt
      BY DEF Obfuscated
    <3> QED BY <3>1, Zenon DEF Covers, Halts
  <2>2. "destroy_word" \in e.normalized => "destroy_word" \in e2.normalized
    BY DEF Reaches
  <2>3. Scope(e) = "external" => Scope(e2) = "external"
    BY <1>2 DEF BlastRadius
  <2>4. b.reversibility = Reversibility(e, F) /\ b2.reversibility = Reversibility(e2, F2)
    BY DEF BlastRadius
  <2>5. \A env, G : Reversibility(env, G) = "irreversible"
          <=> Halts(G) \/ "destroy_word" \in env.normalized \/ Scope(env) = "external"
    BY Zenon DEF Reversibility, Halts
  <2> QED BY <2>1, <2>2, <2>3, <2>4, <2>5, Zenon
<1>4. b.fanout => b2.fanout
  BY Zenon DEF BlastRadius, FansOut, Reaches
<1>5. b.data \subseteq b2.data
  BY DEF BlastRadius, DataClasses, Reaches
<1>6. b.confidence < 40 => b2.confidence < 40
  BY DEF BlastRadius, Confidence, Reaches, IsInterpreterInvocation
<1> HIDE DEF b, b2
<1>7. IsHigh(b) => IsHigh(b2)
  BY <1>2, <1>3, <1>4, <1>5, Zenon DEF IsHigh
<1>8. FloorRoute(b) = "REVIEW" => FloorRoute(b2) = "REVIEW"
  BY <1>2, <1>3, <1>4, <1>5, <1>6, <1>7 DEF FloorRoute
<1>9. FloorRoute(b) \in {"ALLOW", "REVIEW"} /\ FloorRoute(b2) \in {"ALLOW", "REVIEW"}
  BY Zenon DEF FloorRoute
<1> QED BY <1>8, <1>9, AtLeastOrders DEF b, b2, Routes

-----------------------------------------------------------------------------
(* Labels.                                                                 *)

(* A set of numbers that is not empty has a first.                         *)
LEMMA FirstExists ==
  ASSUME NEW S \in SUBSET Nat, S # {}
  PROVE  \E i \in S : \A j \in S : i <= j
<1> DEFINE Below == OpToRel(<, Nat)
<1>1. IsWellFoundedOn(Below, Nat)
  BY NatLessThanWellFounded
<1>2. \E i \in S : \A j \in S : ~(<<j, i>> \in Below)
  <2> HIDE DEF Below
  <2> QED BY <1>1, WFMin
<1>3. PICK i \in S : \A j \in S : ~(<<j, i>> \in Below)
  BY <1>2
<1>4. ASSUME NEW j \in S PROVE i <= j
  <2>1. ~(j < i)
    BY <1>3 DEF OpToRel
  <2> QED BY <2>1
<1> QED BY <1>4

(* The label of a table is that of the first entry that the signs meet.    *)
LEMMA FirstLabelIs ==
  ASSUME NEW table, DOMAIN table \subseteq Nat, NEW signs, NEW deflt
  PROVE  \/ /\ \A i \in DOMAIN table : table[i][1] \intersect signs = {}
            /\ FirstLabel(table, signs, deflt) = deflt
         \/ \E i \in DOMAIN table :
              /\ table[i][1] \intersect signs # {}
              /\ \A j \in DOMAIN table : table[j][1] \intersect signs # {} => i <= j
              /\ FirstLabel(table, signs, deflt) = table[i][2]
<1> DEFINE hits == {i \in DOMAIN table : table[i][1] \intersect signs # {}}
<1>1. CASE hits = {}
  <2>1. FirstLabel(table, signs, deflt) = deflt
    BY <1>1, Zenon DEF FirstLabel
  <2> QED BY <1>1, <2>1
<1>2. CASE hits # {}
  <2>1. \E i \in hits : \A j \in hits : i <= j
    <3>1. hits \in SUBSET Nat
      OBVIOUS
    <3> HIDE DEF hits
    <3> QED BY <1>2, <3>1, FirstExists
  <2>2. FirstLabel(table, signs, deflt) = table[CHOOSE i \in hits : \A j \in hits : i <= j][2]
    BY <1>2, Zenon DEF FirstLabel
  <2> DEFINE first == CHOOSE i \in hits : \A j \in hits : i <= j
  <2>3. first \in hits /\ \A j \in hits : first <= j
    BY <2>1
  <2> HIDE DEF first
  <2>4. FirstLabel(table, signs, deflt) = table[first][2]
    BY <2>2 DEF first
  <2> QED BY <2>3, <2>4
<1> QED BY <1>1, <1>2

LabelOfText(signs) == FirstLabel(TextLabels, signs, "run_shell_command")

(* The table of commands, spelt out.                                       *)
LEMMA TextLabelsAre ==
  /\ DOMAIN TextLabels = 1..8
  /\ \A i \in 1..8 : TextLabels[i][2] \in Actions \ AlwaysDenied
  /\ \A i \in 1..6 : TextLabels[i][2] \in Consequential
  /\ \A i \in 7..8 : TextLabels[i][2] \notin Consequential
  /\ "run_shell_command" \in (Actions \ AlwaysDenied) \ Consequential
<1>1. DOMAIN TextLabels = 1..8
  BY DEF TextLabels
<1>2. /\ TextLabels[1][2] = "upload_or_publish"
      /\ TextLabels[2][2] = "send_external_message"
      /\ TextLabels[3][2] = "install_dependency"
      /\ TextLabels[4][2] = "run_interpreter"
      /\ TextLabels[5][2] = "run_git_remote"
      /\ TextLabels[6][2] = "delete_file"
      /\ TextLabels[7][2] = "fetch_external_content"
      /\ TextLabels[8][2] = "run_git_local"
  BY DEF TextLabels
<1>3. \A i \in 1..8 : TextLabels[i][2] \in Actions \ AlwaysDenied
  BY <1>2 DEF Actions, AlwaysDenied
<1>4. \A i \in 1..6 : TextLabels[i][2] \in Consequential
  BY <1>2 DEF Consequential
<1>5. \A i \in 7..8 : TextLabels[i][2] \notin Consequential
  BY <1>2 DEF Consequential
<1>6. "run_shell_command" \in (Actions \ AlwaysDenied) \ Consequential
  BY DEF Actions, AlwaysDenied, Consequential
<1> QED BY <1>1, <1>3, <1>4, <1>5, <1>6

(* More signs give a text a label that is gated no milder, and do not take *)
(* it from the consequential ones.                                         *)
LEMMA TextLabelMonotone ==
  ASSUME NEW s, NEW s2, s \subseteq s2
  PROVE  /\ OrderedGates => AtLeast(GateMatrix[LabelOfText(s2)], GateMatrix[LabelOfText(s)])
         /\ LabelOfText(s) \in Consequential => LabelOfText(s2) \in Consequential
         /\ LabelOfText(s) \in Actions \ AlwaysDenied
<1>1. DOMAIN TextLabels \subseteq Nat
  BY TextLabelsAre
<1>2. CASE \A i \in DOMAIN TextLabels : TextLabels[i][1] \intersect s = {}
  <2>1. LabelOfText(s) = "run_shell_command"
    BY <1>1, <1>2, FirstLabelIs DEF LabelOfText
  <2>2. \/ LabelOfText(s2) = "run_shell_command"
        \/ \E i \in DOMAIN TextLabels : LabelOfText(s2) = TextLabels[i][2]
    BY <1>1, FirstLabelIs DEF LabelOfText
  <2>3. OrderedGates => AtLeast(GateMatrix[LabelOfText(s2)], GateMatrix["run_shell_command"])
    <3>1. GateMatrix["run_shell_command"] \in Routes
      BY PolicyAssumption, TextLabelsAre DEF ValidPolicy
    <3> QED BY <2>2, <3>1, AtLeastOrders DEF OrderedGates
  <2> QED BY <2>1, <2>3, TextLabelsAre
<1>3. ASSUME NEW k \in DOMAIN TextLabels, TextLabels[k][1] \intersect s # {}
      PROVE  /\ OrderedGates => AtLeast(GateMatrix[LabelOfText(s2)], GateMatrix[LabelOfText(s)])
             /\ LabelOfText(s) \in Consequential => LabelOfText(s2) \in Consequential
             /\ LabelOfText(s) \in Actions \ AlwaysDenied
  <2>1. PICK i \in DOMAIN TextLabels : /\ TextLabels[i][1] \intersect s # {}
                                       /\ LabelOfText(s) = TextLabels[i][2]
    BY <1>1, <1>3, FirstLabelIs DEF LabelOfText
  <2>2. TextLabels[i][1] \intersect s2 # {}
    BY <2>1
  <2>3. PICK i2 \in DOMAIN TextLabels : /\ i2 <= i
                                        /\ LabelOfText(s2) = TextLabels[i2][2]
    BY <1>1, <2>2, FirstLabelIs DEF LabelOfText
  <2>4. i \in 7..8 \/ i2 \in 1..6
    BY <2>3, TextLabelsAre
  <2> QED BY <2>1, <2>3, <2>4, TextLabelsAre DEF OrderedGates
<1> QED BY <1>2, <1>3

(* So does the label of a call without findings: for a command the text    *)
(* decides, for a file the path, and for the rest the tool alone.          *)
LEMMA LabelOfCallMonotone ==
  ASSUME NEW e, NEW e2, e2.tool = e.tool,
         e.normalized \subseteq e2.normalized, e.paths \subseteq e2.paths
  PROVE  /\ OrderedGates => AtLeast(GateMatrix[LabelOfCall(e2)], GateMatrix[LabelOfCall(e)])
         /\ LabelOfCall(e) \in Consequential => LabelOfCall(e2) \in Consequential
         /\ LabelOfCall(e) \in Actions \ AlwaysDenied
<1> DEFINE Goal == /\ OrderedGates => AtLeast(GateMatrix[LabelOfCall(e2)],
                                              GateMatrix[LabelOfCall(e)])
                   /\ LabelOfCall(e) \in Consequential => LabelOfCall(e2) \in Consequential
                   /\ LabelOfCall(e) \in Actions \ AlwaysDenied
<1>1. \A a \in Actions : GateMatrix[a] \in Routes /\ AtLeast(GateMatrix[a], GateMatrix[a])
  BY PolicyAssumption, AtLeastOrders DEF ValidPolicy
<1>2. CASE ToolClass(e.tool) \in {"exec", "unknown"}
  <2>1. /\ LabelOfCall(e) = LabelOfText(e.normalized)
        /\ LabelOfCall(e2) = LabelOfText(e2.normalized)
    BY <1>2 DEF LabelOfCall, LabelOfText, ToolClass, WriteTools, ReadTools
  <2> QED BY <2>1, TextLabelMonotone
<1>3. CASE e.tool \in WriteTools
  <2>1. LabelOfCall(e) = LabelOfWrite(e) /\ LabelOfCall(e2) = LabelOfWrite(e2)
    BY <1>3 DEF LabelOfCall, ToolClass, WriteTools, ReadTools
  <2>2. \/ LabelOfWrite(e2) = "write_protected_path"
        \/ LabelOfWrite(e2) = LabelOfWrite(e) /\ LabelOfWrite(e) # "write_protected_path"
    BY DEF LabelOfWrite
  <2>3. LabelOfWrite(e) \in {"write_protected_path", "write_local_file", "edit_local_file"}
    BY DEF LabelOfWrite
  <2>4. /\ LabelOfWrite(e) \in Actions \ AlwaysDenied
        /\ "write_protected_path" \in Consequential /\ "write_protected_path" \in Actions
    BY <2>3 DEF Actions, AlwaysDenied, Consequential
  <2> QED BY <1>1, <2>1, <2>2, <2>3, <2>4 DEF OrderedGates
<1>4. CASE e.tool \notin WriteTools /\ ToolClass(e.tool) \notin {"exec", "unknown"}
  <2>1. /\ LabelOfCall(e2) = LabelOfCall(e)
        /\ LabelOfCall(e) \in {"read_local_file", "search_local", "list_directory",
                               "fetch_external_content"}
    BY <1>4 DEF LabelOfCall, ToolClass, WriteTools, ReadTools
  <2>2. LabelOfCall(e) \in Actions \ AlwaysDenied
    BY <2>1 DEF Actions, AlwaysDenied
  <2> QED BY <1>1, <2>1, <2>2
<1> QED BY <1>2, <1>3, <1>4

-----------------------------------------------------------------------------
(* The rules, on more text.                                                *)

(* What the rules read of an envelope, and what only grows in it.          *)
Wider(later, earlier) ==
  /\ Reaches(later, earlier)
  /\ earlier.action \subseteq later.action
  /\ earlier.raw \subseteq later.raw
  /\ earlier.paths \subseteq later.paths
  /\ earlier.written \subseteq later.written
  /\ {later.residual, earlier.residual} \subseteq BOOLEAN
  /\ earlier.residual => later.residual

(* A table finds more.                                                     *)
LEMMA TablesGrow ==
  ASSUME NEW signs, NEW signs2, signs \subseteq signs2
  PROVE  /\ \A rule, S : Halting(rule, signs, S) \subseteq Halting(rule, signs2, S)
         /\ \A rule, score, S : Scored(rule, score, signs, S) \subseteq Scored(rule, score, signs2, S)
BY DEF Halting, Scored

(* The rule on encodings finds more, or what is left in place of what was  *)
(* decoded.                                                                *)
LEMMA ObfuscationGrows ==
  ASSUME NEW e, NEW e2, Wider(e2, e)
  PROVE  Covers(OversizedOrObfuscated(e2), OversizedOrObfuscated(e))
<1> DEFINE Big == [rule |-> "self_protect.oversized_payload",
                   on |-> "self_protect.oversized_payload", score |-> 100, halt |-> TRUE]
<1>1. \A x : OversizedOrObfuscated(x) =
        (IF x.oversized THEN {Big} ELSE {})
          \union (IF x.residual THEN {Residue} ELSE {})
          \union (IF ~x.residual /\ x.passes >= 2 THEN {Obfuscated} ELSE {})
  BY Zenon DEF OversizedOrObfuscated, Finding, Residue, Obfuscated
<1>2. /\ e2.oversized = e.oversized
      /\ e.residual => e2.residual
      /\ e.passes >= 2 => e2.passes >= 2
  BY DEF Wider, Reaches
<1>3. Residue # Obfuscated /\ Residue # Big
  BY DEF Residue, Obfuscated
<1> HIDE DEF Big
<1>4. CASE e.residual \/ ~e2.residual
  <2>1. OversizedOrObfuscated(e) \subseteq OversizedOrObfuscated(e2)
    BY <1>1, <1>2, <1>4, Zenon
  <2> QED BY <2>1 DEF Covers
<1>5. CASE ~e.residual /\ e2.residual
  <2>1. /\ OversizedOrObfuscated(e) \subseteq (IF e.oversized THEN {Big} ELSE {}) \union {Obfuscated}
        /\ OversizedOrObfuscated(e2) = (IF e.oversized THEN {Big} ELSE {}) \union {Residue}
    BY <1>1, <1>2, <1>5, SMT
  <2>2. /\ OversizedOrObfuscated(e) \ {Obfuscated} \subseteq OversizedOrObfuscated(e2)
        /\ Residue \in OversizedOrObfuscated(e2) \ OversizedOrObfuscated(e)
    BY <1>3, <2>1
  <2> QED BY <2>2 DEF Covers
<1> QED BY <1>4, <1>5

(* Every rule finds what it found before, or halts; the rule on credential *)
(* files falls silent when the one on exfiltration speaks.                 *)
LEMMA RulesGrow ==
  ASSUME NEW e, NEW e2, Wider(e2, e), NEW taint, NEW r \in RuleNames \ {"credential_file_read"}
  PROVE  Covers(Registry(e2, taint)[r], Registry(e, taint)[r])
<1>1. /\ e2.tool = e.tool
      /\ e.action \subseteq e2.action
      /\ e.paths \subseteq e2.paths
      /\ e.written \subseteq e2.written
      /\ e.normalized \subseteq e2.normalized
      /\ e.action \union e.raw \subseteq e2.action \union e2.raw
      /\ TargetPaths(e) \subseteq TargetPaths(e2)
  BY DEF Wider, Reaches, TargetPaths
<1>2. /\ \A rule, S : Halting(rule, e.action, S) \subseteq Halting(rule, e2.action, S)
      /\ \A rule, S : Halting(rule, e.action \union e.raw, S)
                        \subseteq Halting(rule, e2.action \union e2.raw, S)
      /\ \A rule, n, S : Scored(rule, n, e.action, S) \subseteq Scored(rule, n, e2.action, S)
      /\ \A rule, n, S : Scored(rule, n, e.normalized, S)
                           \subseteq Scored(rule, n, e2.normalized, S)
      /\ \A rule, n, S : Scored(rule, n, e.written, S) \subseteq Scored(rule, n, e2.written, S)
  BY <1>1, TablesGrow, Zenon
<1>3. CASE r \in {"recursive_delete", "storage_destruction", "sql_destruction",
                  "git_history", "permission_widening", "fork_bomb", "decode_and_execute",
                  "halt_pattern"}
  <2>1. /\ RecursiveDelete(e) \subseteq RecursiveDelete(e2)
        /\ StorageDestruction(e) \subseteq StorageDestruction(e2)
        /\ SqlDestruction(e) \subseteq SqlDestruction(e2)
        /\ GitHistory(e) \subseteq GitHistory(e2)
        /\ PermissionWidening(e) \subseteq PermissionWidening(e2)
        /\ ForkBomb(e) \subseteq ForkBomb(e2)
        /\ DecodeAndExecute(e) \subseteq DecodeAndExecute(e2)
        /\ HaltPattern(e) \subseteq HaltPattern(e2)
    BY <1>1, <1>2, Zenon
       DEF RecursiveDelete, StorageDestruction, SqlDestruction, GitHistory,
           PermissionWidening, ForkBomb, DecodeAndExecute, HaltPattern
  <2> QED BY <1>3, <2>1 DEF Registry, Covers
<1>4. CASE r \in {"destination_gating", "proxy_evasion", "dynamic_destination",
                  "covert_channel", "injection_markers", "instruction_in_written_content"}
  <2>1. /\ DestinationGating(e) \subseteq DestinationGating(e2)
        /\ ProxyEvasion(e) \subseteq ProxyEvasion(e2)
        /\ DynamicDestination(e) \subseteq DynamicDestination(e2)
        /\ CovertChannel(e) \subseteq CovertChannel(e2)
        /\ InjectionMarkers(e) \subseteq InjectionMarkers(e2)
        /\ InstructionInWrittenContent(e) \subseteq InstructionInWrittenContent(e2)
    BY <1>1, <1>2, Zenon
       DEF DestinationGating, ProxyEvasion, DynamicDestination, CovertChannel,
           InjectionMarkers, InstructionInWrittenContent
  <2> QED BY <1>4, <2>1 DEF Registry, Covers
<1>5. CASE r \in {"persistence", "privilege_escalation", "security_disable",
                  "link_creation", "traversal", "literal_secret_present", "anti_forensics",
                  "kill_governor", "ungoverned_harness", "interpreter_hijack",
                  "disable_hook"}
  <2>1. /\ Persistence(e) \subseteq Persistence(e2)
        /\ PrivilegeEscalation(e) \subseteq PrivilegeEscalation(e2)
        /\ SecurityDisable(e) \subseteq SecurityDisable(e2)
        /\ LinkCreation(e) \subseteq LinkCreation(e2)
        /\ Traversal(e) \subseteq Traversal(e2)
        /\ LiteralSecretPresent(e) \subseteq LiteralSecretPresent(e2)
        /\ AntiForensics(e) \subseteq AntiForensics(e2)
        /\ KillGovernor(e) \subseteq KillGovernor(e2)
        /\ UngovernedHarness(e) \subseteq UngovernedHarness(e2)
        /\ InterpreterHijack(e) \subseteq InterpreterHijack(e2)
        /\ DisableHook(e) \subseteq DisableHook(e2)
    BY <1>1, <1>2, Zenon
       DEF Persistence, PrivilegeEscalation, SecurityDisable, LinkCreation, Traversal,
           LiteralSecretPresent, AntiForensics, KillGovernor, UngovernedHarness,
           InterpreterHijack, DisableHook
  <2> QED BY <1>5, <2>1 DEF Registry, Covers
<1>6. CASE r \in {"protected_path_write", "outside_working_root", "exfiltration",
                  "modify_harness_config", "read_governor_secrets"}
  <2>1. Registry(e, taint)[r] \subseteq Registry(e2, taint)[r]
    BY <1>1, <1>6, SMT DEF Registry, ProtectedPathWrite, OutsideWorkingRoot, Exfiltration,
       CarriesSecret, ModifyHarnessConfig, ReadGovernorSecrets, Finding
  <2> QED BY <2>1 DEF Covers
<1>7. CASE r = "tainted_consequential_action"
  <2>1. LabelOfCall(e) \in Consequential => LabelOfCall(e2) \in Consequential
    BY <1>1, LabelOfCallMonotone
  <2>2. Registry(e, taint)[r] \subseteq Registry(e2, taint)[r]
    BY <1>7, <2>1, SMT DEF Registry, TaintedConsequentialAction, Finding
  <2> QED BY <2>2 DEF Covers
<1>8. CASE r = "touch_own_files"
  <2>1. \/ TouchOwnFiles(e) = {}
        \/ \E f \in TouchOwnFiles(e2) : f.halt
    <3> DEFINE sealed(env) == TargetPaths(env) \intersect SealedPaths # {}
               own(env) == \/ TargetPaths(env) \intersect SourcePaths # {}
                           \/ env.action \intersect OwnNames # {}
    <3>1. sealed(e) \/ own(e) => sealed(e2) \/ own(e2)
      BY <1>1
    <3>2. CASE e.tool \notin WriteTools \union ReadTools \union {"Bash"} \/ ~(sealed(e) \/ own(e))
      BY <3>2, Zenon DEF TouchOwnFiles, Finding
    <3>3. CASE e.tool \in WriteTools \union ReadTools \union {"Bash"} /\ (sealed(e) \/ own(e))
      <4>1. TouchOwnFiles(e2) =
              Finding("self_protect.sealed_surface", 100, TRUE, sealed(e2))
                \union Finding("self_protect.read_governor_files", 100, TRUE,
                               ~sealed(e2) /\ own(e2) /\ IsReadOnly(e2))
                \union Finding("self_protect.modify_governor", 100, TRUE,
                               ~sealed(e2) /\ own(e2) /\ ~IsReadOnly(e2))
        BY <1>1, <3>3, Zenon DEF TouchOwnFiles
      <4>2. \A rule, condition : condition => \E f \in Finding(rule, 100, TRUE, condition) : f.halt
        BY DEF Finding
      <4> HIDE DEF sealed, own
      <4> QED BY <3>1, <3>3, <4>1, <4>2, Zenon
    <3> QED BY <3>2, <3>3
  <2> QED BY <1>8, <2>1 DEF Registry, Covers, Halts
<1>9. CASE r = "oversized_or_obfuscated"
  <2>1. Covers(OversizedOrObfuscated(e2), OversizedOrObfuscated(e))
    BY ObfuscationGrows
  <2> QED BY <1>9, <2>1 DEF Registry
<1> QED BY <1>3, <1>4, <1>5, <1>6, <1>7, <1>8, <1>9, SMT DEF RuleNames

(* What a rule finds is among all that is found, unless the rule raises,   *)
(* which is a halting finding too.                                         *)
LEMMA FoundOrRaised ==
  ASSUME NEW env, NEW taint, NEW raising, NEW r \in RuleNames, NEW f \in Registry(env, taint)[r]
  PROVE  /\ f \in EvaluateAll(env, taint, raising) \/ Halts(EvaluateAll(env, taint, raising))
         /\ f.halt => Halts(EvaluateAll(env, taint, raising))
<1>1. CASE r \in raising
  <2>1. RuleError(r) \in EvaluateAll(env, taint, raising)
    BY <1>1 DEF EvaluateAll
  <2>2. RuleError(r).halt
    BY DEF RuleError
  <2> QED BY <2>1, <2>2, Zenon DEF Halts
<1>2. CASE r \notin raising
  <2>1. f \in EvaluateAll(env, taint, raising)
    BY <1>2 DEF EvaluateAll
  <2> QED BY <2>1, Zenon DEF Halts
<1> QED BY <1>1, <1>2

(* No other rule finds what decoding leaves.                               *)
LEMMA ResidueHasOneRule ==
  ASSUME NEW env, NEW taint, NEW r \in RuleNames, Residue \in Registry(env, taint)[r]
  PROVE  r = "oversized_or_obfuscated"
<1> DEFINE f == Residue
<1>0. f.rule = "self_protect.residual_encoding" /\ f \in Registry(env, taint)[r]
  BY DEF Residue
<1> HIDE DEF f
<1>1. r \notin {"recursive_delete", "storage_destruction", "sql_destruction",
                 "git_history", "permission_widening", "fork_bomb", "decode_and_execute",
                 "protected_path_write", "halt_pattern"}
  BY <1>0, SMT DEF Registry, RecursiveDelete, StorageDestruction, SqlDestruction, GitHistory,
     PermissionWidening, ForkBomb, DecodeAndExecute, ProtectedPathWrite, HaltPattern,
     Scored, Halting, Finding
<1>2. r \notin {"destination_gating", "proxy_evasion", "dynamic_destination",
                 "covert_channel", "injection_markers", "tainted_consequential_action",
                 "instruction_in_written_content"}
  BY <1>0, SMT DEF Registry, DestinationGating, ProxyEvasion, DynamicDestination, CovertChannel,
     InjectionMarkers, TaintedConsequentialAction, InstructionInWrittenContent,
     Scored, Halting, Finding
<1>3. r \notin {"persistence", "privilege_escalation", "security_disable", "link_creation",
                 "traversal", "outside_working_root", "literal_secret_present",
                 "exfiltration", "credential_file_read", "anti_forensics"}
  BY <1>0, SMT DEF Registry, Persistence, PrivilegeEscalation, SecurityDisable, LinkCreation,
     Traversal, OutsideWorkingRoot, LiteralSecretPresent, Exfiltration, CredentialFileRead,
     AntiForensics, Scored, Halting, Finding
<1>4. r \notin {"modify_harness_config", "kill_governor", "ungoverned_harness",
                 "interpreter_hijack", "disable_hook", "read_governor_secrets"}
  BY <1>0, SMT DEF Registry, ModifyHarnessConfig, KillGovernor, UngovernedHarness,
     InterpreterHijack, DisableHook, ReadGovernorSecrets, Halting, Finding
<1>5. r # "touch_own_files"
  <2>1. f \notin TouchOwnFiles(env)
    BY <1>0, SMT DEF TouchOwnFiles, Finding
  <2> QED BY <1>0, <2>1 DEF Registry
<1> QED BY <1>1, <1>2, <1>3, <1>4, <1>5 DEF RuleNames

(* Rule by rule.                                                           *)
LEMMA RuleByRule ==
  ASSUME NEW e, NEW e2, NEW t, NEW t2, NEW raising,
         \A r \in RuleNames : \/ Covers(Registry(e2, t2)[r], Registry(e, t)[r])
                              \/ Halts(EvaluateAll(e2, t2, raising))
  PROVE  Covers(EvaluateAll(e2, t2, raising), EvaluateAll(e, t, raising))
<1> DEFINE found == EvaluateAll(e, t, raising)
           found2 == EvaluateAll(e2, t2, raising)
<1>1. SUFFICES ASSUME ~Halts(found2) PROVE Covers(found2, found)
  BY DEF Covers
<1>2. ASSUME NEW r \in RuleNames
      PROVE  ~Halts(Registry(e2, t2)[r]) /\ Registry(e2, t2)[r] \subseteq found2
  <2>1. /\ \A g \in Registry(e2, t2)[r] : g.halt => Halts(found2)
        /\ \A g \in Registry(e2, t2)[r] : g \in found2 \/ Halts(found2)
    BY FoundOrRaised
  <2> QED BY <1>1, <2>1, Zenon DEF Halts
<1>3. ASSUME NEW f \in found, f # Obfuscated
      PROVE  f \in found2
  <2>1. PICK r \in RuleNames :
          f \in IF r \in raising THEN {RuleError(r)} ELSE Registry(e, t)[r]
    BY DEF EvaluateAll
  <2>2. CASE r \in raising
    BY <2>1, <2>2 DEF EvaluateAll
  <2>3. CASE r \notin raising
    <3>1. Covers(Registry(e2, t2)[r], Registry(e, t)[r])
      BY <1>1
    <3> QED BY <1>2, <1>3, <2>1, <2>3, <3>1 DEF Covers
  <2> QED BY <2>2, <2>3
<1>4. CASE Obfuscated \notin found \/ Obfuscated \in found2
  <2>1. found \subseteq found2
    BY <1>3, <1>4
  <2> QED BY <2>1 DEF Covers
<1>5. CASE Obfuscated \in found /\ Obfuscated \notin found2
  <2>1. PICK r \in RuleNames :
          Obfuscated \in IF r \in raising THEN {RuleError(r)} ELSE Registry(e, t)[r]
    BY <1>5 DEF EvaluateAll
  <2>2. r \notin raising
    BY <2>1 DEF RuleError, Obfuscated
  <2>3. Residue \in Registry(e2, t2)[r] /\ Residue \notin Registry(e, t)[r]
    BY <1>1, <1>2, <1>5, <2>1, <2>2 DEF Covers
  <2>4. r = "oversized_or_obfuscated"
    BY <2>3, ResidueHasOneRule
  <2>5. Residue \notin found
    <3>1. SUFFICES ASSUME NEW q \in RuleNames,
                          Residue \in IF q \in raising THEN {RuleError(q)} ELSE Registry(e, t)[q]
                   PROVE  FALSE
      BY DEF EvaluateAll
    <3>2. q \notin raising
      BY <3>1 DEF RuleError, Residue
    <3>3. q = "oversized_or_obfuscated"
      BY <3>1, <3>2, ResidueHasOneRule
    <3> QED BY <2>3, <2>4, <3>1, <3>2, <3>3
  <2>6. found \ {Obfuscated} \subseteq found2 /\ Residue \in found2 \ found
    BY <1>2, <1>3, <2>3, <2>5
  <2> QED BY <2>6 DEF Covers
<1> QED BY <1>4, <1>5

(* All that was found before is found again, or some rule halts.           *)
LEMMA FindingsGrow ==
  ASSUME NEW e, NEW e2, Wider(e2, e), NEW taint, NEW raising
  PROVE  Covers(EvaluateAll(e2, taint, raising), EvaluateAll(e, taint, raising))
<1> DEFINE found2 == EvaluateAll(e2, taint, raising)
<1>1. Covers(CredentialFileRead(e2), CredentialFileRead(e)) \/ Halts(found2)
  <2>1. CASE CredentialFileRead(e) = {}
    BY <2>1 DEF Covers
  <2>2. CASE CredentialFileRead(e) # {} /\ "outbound" \notin e2.action
    BY <2>2 DEF CredentialFileRead, Finding, Wider, Covers
  <2>3. CASE CredentialFileRead(e) # {} /\ "outbound" \in e2.action
    <3> DEFINE g == [rule |-> "secrets.exfiltration", on |-> "secrets.exfiltration",
                     score |-> 100, halt |-> TRUE]
    <3>1. "secret_file" \in e2.action
      BY <2>3 DEF CredentialFileRead, Finding, Wider
    <3>2. g \in Exfiltration(e2)
      BY <2>3, <3>1, Zenon DEF Exfiltration, CarriesSecret, Finding
    <3>3. g.halt
      OBVIOUS
    <3> HIDE DEF g
    <3>4. "exfiltration" \in RuleNames /\ g \in Registry(e2, taint)["exfiltration"]
      BY <3>2 DEF RuleNames, Registry
    <3> QED BY <3>3, <3>4, FoundOrRaised
  <2> QED BY <2>1, <2>2, <2>3
<1>2. \A r \in RuleNames : \/ Covers(Registry(e2, taint)[r], Registry(e, taint)[r])
                           \/ Halts(found2)
  <2>1. SUFFICES ASSUME NEW r \in RuleNames
                 PROVE  \/ Covers(Registry(e2, taint)[r], Registry(e, taint)[r])
                        \/ Halts(found2)
    OBVIOUS
  <2>2. CASE r = "credential_file_read"
    <3> HIDE DEF found2
    <3> QED BY <1>1, <2>2 DEF Registry
  <2>3. CASE r # "credential_file_read"
    BY <2>3, RulesGrow
  <2> QED BY <2>2, <2>3
<1> QED BY <1>2, RuleByRule

-----------------------------------------------------------------------------
(* The label, when no rule halts.                                          *)

(* The rules whose findings carry a label.                                 *)
Labelling == {
    "destructive.recursive_delete", "destructive.storage", "destructive.sql",
    "destructive.git", "destructive.fork_bomb", "destructive.halt_pattern",
    "egress.blocked_domain", "secrets.exfiltration", "self_protect.sealed_surface",
    "self_protect.read_governor_files", "self_protect.modify_governor",
    "self_protect.harness_config", "self_protect.kill_governor",
    "self_protect.ungoverned_harness", "self_protect.interpreter_hijack",
    "self_protect.disable_hook", "self_protect.read_secrets"}

LEMMA LabelledRulesAre ==
  /\ DOMAIN LabelledRules = 1..16
  /\ LabelledRules[4] = <<{"destructive.git"}, "rewrite_history">>
  /\ \A i \in 1..16 : LabelledRules[i][1] \subseteq Labelling
  /\ \A i \in (1..16) \ {4} : "destructive.git" \notin LabelledRules[i][1]
BY DEF LabelledRules, DataLabels, SelfLabels, HookLabels, SecretLabels, Labelling

(* Of these only the one on git finds anything without halting.            *)
LEMMA LabelsHalt ==
  ASSUME NEW env, NEW taint, NEW r \in RuleNames, NEW f \in Registry(env, taint)[r],
         f.rule \in Labelling
  PROVE  f.halt \/ f.rule = "destructive.git"
<1>1. CASE r \in {"recursive_delete", "storage_destruction", "sql_destruction",
                  "git_history", "permission_widening", "fork_bomb", "decode_and_execute",
                  "protected_path_write", "halt_pattern"}
  BY <1>1, SMT DEF Registry, RecursiveDelete, StorageDestruction, SqlDestruction, GitHistory,
     PermissionWidening, ForkBomb, DecodeAndExecute, ProtectedPathWrite, HaltPattern,
     Scored, Halting, Finding, Labelling
<1>2. CASE r \in {"destination_gating", "proxy_evasion", "dynamic_destination",
                  "covert_channel", "injection_markers", "tainted_consequential_action",
                  "instruction_in_written_content"}
  BY <1>2, SMT DEF Registry, DestinationGating, ProxyEvasion, DynamicDestination, CovertChannel,
     InjectionMarkers, TaintedConsequentialAction, InstructionInWrittenContent,
     Scored, Halting, Finding, Labelling
<1>3. CASE r \in {"persistence", "privilege_escalation", "security_disable", "link_creation",
                  "traversal", "outside_working_root", "literal_secret_present",
                  "exfiltration", "credential_file_read", "anti_forensics"}
  BY <1>3, SMT DEF Registry, Persistence, PrivilegeEscalation, SecurityDisable, LinkCreation,
     Traversal, OutsideWorkingRoot, LiteralSecretPresent, Exfiltration, CredentialFileRead,
     AntiForensics, Scored, Halting, Finding, Labelling
<1>4. CASE r \in {"modify_harness_config", "kill_governor", "ungoverned_harness",
                  "interpreter_hijack", "disable_hook", "read_governor_secrets",
                  "oversized_or_obfuscated"}
  BY <1>4, SMT DEF Registry, ModifyHarnessConfig, KillGovernor, UngovernedHarness,
     InterpreterHijack, DisableHook, ReadGovernorSecrets, OversizedOrObfuscated,
     Halting, Finding, Labelling
<1>5. CASE r = "touch_own_files"
  <2>1. f \in TouchOwnFiles(env)
    BY <1>5 DEF Registry
  <2> QED BY <2>1, SMT DEF TouchOwnFiles, Finding
<1> QED BY <1>1, <1>2, <1>3, <1>4, <1>5 DEF RuleNames

(* Where no rule halts the label is that of the call, or, if the rule on   *)
(* git has scored, the one for rewriting history.                          *)
LEMMA CalmLabel ==
  ASSUME NEW env, NEW taint, NEW raising, ~Halts(EvaluateAll(env, taint, raising))
  PROVE  LET ids == RuleIds(EvaluateAll(env, taint, raising))
         IN  Classify(env, ids) = IF "destructive.git" \in ids THEN "rewrite_history"
                                                                ELSE LabelOfCall(env)
<1> DEFINE found == EvaluateAll(env, taint, raising)
           ids == RuleIds(found)
<1>1. ids \intersect Labelling \subseteq {"destructive.git"}
  <2>1. SUFFICES ASSUME NEW f \in found, f.rule \in Labelling
                 PROVE  f.rule = "destructive.git"
    BY DEF RuleIds
  <2>2. PICK r \in RuleNames :
          f \in IF r \in raising THEN {RuleError(r)} ELSE Registry(env, taint)[r]
    BY DEF EvaluateAll
  <2>3. ~f.halt
    BY Zenon DEF Halts
  <2>4. r \notin raising
    BY <2>2, <2>3 DEF RuleError
  <2> QED BY <2>1, <2>2, <2>3, <2>4, LabelsHalt
<1> HIDE DEF found
<1>2. \A i \in 1..16 : LabelledRules[i][1] \intersect ids # {} => i = 4 /\ "destructive.git" \in ids
  BY <1>1, LabelledRulesAre
<1>3. "destructive.git" \in ids => LabelledRules[4][1] \intersect ids # {}
  BY LabelledRulesAre
<1>4. Classify(env, ids) = IF "destructive.git" \in ids THEN "rewrite_history"
                                                        ELSE LabelOfCall(env)
  <2>1. 1..16 \subseteq Nat
    OBVIOUS
  <2> HIDE DEF ids
  <2> QED BY <1>2, <1>3, <2>1, LabelledRulesAre, FirstLabelIs DEF Classify
<1> QED BY <1>4 DEF found

-----------------------------------------------------------------------------
(* From the findings to the verdict.                                       *)

(* What Judge() makes of its findings and its label.                       *)
Judgement(env, findings, action) ==
  Strictest({RouteFromScore(findings), GateForAction(action),
             FloorRoute(BlastRadius(env, findings))})

LEMMA JudgementMonotone ==
  ASSUME NEW e, NEW e2, NEW F, NEW F2, NEW a, NEW a2,
         IsFiniteSet(F2), Covers(F2, F), Reaches(e2, e),
         AtLeast(GateForAction(a2), GateForAction(a))
  PROVE  /\ AtLeast(Judgement(e2, F2, a2), Judgement(e, F, a))
         /\ Judgement(e, F, a) \in Routes /\ Judgement(e2, F2, a2) \in Routes
<1> DEFINE score == RouteFromScore(F)
           score2 == RouteFromScore(F2)
           gate == GateForAction(a)
           gate2 == GateForAction(a2)
           floor == FloorRoute(BlastRadius(e, F))
           floor2 == FloorRoute(BlastRadius(e2, F2))
<1>1. AtLeast(score2, score) /\ {score, score2} \subseteq Routes
  BY RouteFromScoreMonotone
<1>2. AtLeast(gate2, gate) /\ {gate, gate2} \subseteq Routes
  BY GateIsRoute
<1>3. AtLeast(floor2, floor) /\ {floor, floor2} \subseteq Routes
  BY FloorMonotone
<1> HIDE DEF score, score2, gate, gate2, floor, floor2
<1>4. /\ AtLeast(Strictest({score2, gate2, floor2}), Strictest({score, gate, floor}))
      /\ Strictest({score, gate, floor}) \in Routes
      /\ Strictest({score2, gate2, floor2}) \in Routes
  BY <1>1, <1>2, <1>3, StrictestMonotone
<1> QED BY <1>4 DEF Judgement, score, score2, gate, gate2, floor, floor2

(* The session and the perimeter add the same, or for more taint more.     *)
LEMMA DecideMonotone ==
  ASSUME NEW c, NEW c2, NEW g \in Givens, NEW g2 \in Givens,
         g2.refused = g.refused, g2.breached = g.breached, g2.attended = g.attended,
         AtLeast(TaintFloors[g2.taint], TaintFloors[g.taint]),
         AtLeast(Judge(c2, g2.taint, g2.raising).route, Judge(c, g.taint, g.raising).route),
         Judge(c2, g2.taint, g2.raising).route \in Routes,
         Judge(c, g.taint, g.raising).route \in Routes,
         g2.window /\ Judge(c2, g2.taint, g2.raising).action \in Maintainable
           => g.window /\ Judge(c, g.taint, g.raising).action \in Maintainable
  PROVE  AtLeast(Decide(c2, g2), Decide(c, g))
<1> DEFINE j == Judge(c, g.taint, g.raising)
           j2 == Judge(c2, g2.taint, g2.raising)
           breach == IF g.breached THEN BreachRoute ELSE "ALLOW"
           refusal == IF g.refused THEN "HALT" ELSE "ALLOW"
           S == {j.route, TaintFloors[g.taint], breach, refusal}
           S2 == {j2.route, TaintFloors[g2.taint], breach, refusal}
<1>1. {"ALLOW", "HALT", breach, refusal, TaintFloors[g.taint], TaintFloors[g2.taint]}
        \subseteq Routes
  BY PolicyAssumption DEF ValidPolicy, Givens, Routes
<1> HIDE DEF j, j2, breach, refusal
<1>2. Floor(j, g) = Strictest(S) /\ Floor(j2, g2) = Strictest(S2)
  BY DEF Floor, breach, refusal
<1>3. /\ AtLeast(Strictest(S2), Strictest(S))
      /\ Strictest(S) \in Routes /\ Strictest(S2) \in Routes
  <2>1. S \in SUBSET Routes /\ S2 \in SUBSET Routes /\ S # {}
    BY <1>1 DEF j, j2
  <2>2. \A h \in S : \E k \in S2 : AtLeast(k, h)
    BY <1>1, AtLeastOrders DEF j, j2
  <2> QED BY <2>1, <2>2, StrictestMonotone
<1>4. /\ AtLeast(Attended(Floor(j2, g2), g2.attended), Attended(Floor(j, g), g.attended))
      /\ Attended(Floor(j2, g2), g2.attended) \in Routes
  <2> HIDE DEF S, S2
  <2> QED BY <1>2, <1>3 DEF Attended, AtLeast, Severity, Routes
<1>5. CASE g.window /\ j.action \in Maintainable
  <2>1. Decide(c, g) = "ALLOW"
    BY <1>5 DEF Decide, j
  <2>2. Decide(c2, g2) \in Routes
    BY <1>1, <1>4 DEF Decide, j2
  <2> QED BY <2>1, <2>2, AtLeastOrders
<1>6. CASE ~(g.window /\ j.action \in Maintainable)
  <2>1. Decide(c, g) = Attended(Floor(j, g), g.attended)
    BY <1>6 DEF Decide, j
  <2>2. Decide(c2, g2) = Attended(Floor(j2, g2), g2.attended)
    BY <1>6 DEF Decide, j, j2
  <2> QED BY <1>4, <2>1, <2>2
<1> QED BY <1>5, <1>6

(* What decide() has found of a call, and the label it gives it.           *)
Found(c, g) == EvaluateAll(EnvelopeOf(c), g.taint, g.raising)
LabelOf(c, g) == Classify(EnvelopeOf(c), RuleIds(Found(c, g)))

(* What Judge() returns.                                                   *)
LEMMA JudgeIs ==
  ASSUME NEW c, NEW g
  PROVE  /\ Judge(c, g.taint, g.raising).findings = Found(c, g)
         /\ Judge(c, g.taint, g.raising).action = LabelOf(c, g)
         /\ Judge(c, g.taint, g.raising).route =
              Judgement(EnvelopeOf(c), Found(c, g), LabelOf(c, g))
BY Zenon DEF Judge, Judgement, Found, LabelOf

(* decide() is monotone.  Of two calls the rules find as much of the       *)
(* second or more, it reaches as far or further, its label is gated no     *)
(* milder and its session has no less against it: unless a window lifts    *)
(* the second alone, it is judged no milder.                               *)
THEOREM VerdictsAreMonotone ==
  ASSUME NEW c, NEW c2, NEW g \in Givens, NEW g2 \in Givens,
         g2.refused = g.refused, g2.breached = g.breached, g2.attended = g.attended,
         AtLeast(TaintFloors[g2.taint], TaintFloors[g.taint]),
         Reaches(EnvelopeOf(c2), EnvelopeOf(c)),
         Covers(Found(c2, g2), Found(c, g)),
         AtLeast(GateForAction(LabelOf(c2, g2)), GateForAction(LabelOf(c, g))),
         g2.window /\ LabelOf(c2, g2) \in Maintainable
           => g.window /\ LabelOf(c, g) \in Maintainable
  PROVE  AtLeast(Decide(c2, g2), Decide(c, g))
<1>1. IsFiniteSet(Found(c2, g2))
  BY EvaluateAllFinite DEF Found
<1>2. LET later == Judgement(EnvelopeOf(c2), Found(c2, g2), LabelOf(c2, g2))
          earlier == Judgement(EnvelopeOf(c), Found(c, g), LabelOf(c, g))
      IN  AtLeast(later, earlier) /\ earlier \in Routes /\ later \in Routes
  BY <1>1, JudgementMonotone
<1> QED BY <1>2, JudgeIs, DecideMonotone

-----------------------------------------------------------------------------
(* The sealed surface.                                                     *)

(* Only touch_own_files() reports it, and it halts.                        *)
LEMMA SealedFindingHalts ==
  ASSUME NEW env, NEW taint, NEW r \in RuleNames,
         NEW f \in Registry(env, taint)[r], f.rule = "self_protect.sealed_surface"
  PROVE  f.halt
BY LabelsHalt, Zenon DEF Labelling

(* Of two labels the one that stands first in the table is taken.          *)
LEMMA SealedLabelFirst ==
  ASSUME NEW env, NEW ids, "self_protect.sealed_surface" \in ids
  PROVE  Classify(env, ids) \notin Maintainable
<1> DEFINE hits == {i \in DOMAIN LabelledRules : LabelledRules[i][1] \intersect ids # {}}
<1>1. /\ DOMAIN LabelledRules = 1..16
      /\ LabelledRules[9] = <<{"self_protect.sealed_surface"}, "touch_sealed_surface">>
      /\ \A i \in 1..9 : LabelledRules[i][2] \notin Maintainable
  BY DEF LabelledRules, DataLabels, SelfLabels, HookLabels, SecretLabels, Maintainable
<1>2. 9 \in hits
  BY <1>1
<1>3. \E i \in hits : \A j \in hits : i <= j
  BY <1>1, <1>2
<1>4. PICK i \in hits : /\ \A j \in hits : i <= j
                        /\ Classify(env, ids) = LabelledRules[i][2]
  BY <1>2, <1>3 DEF Classify, FirstLabel
<1>5. i \in 1..9
  BY <1>1, <1>2, <1>4
<1> QED BY <1>1, <1>4, <1>5

-----------------------------------------------------------------------------
(* More taint.                                                             *)

(* The label depends on the findings that carry one, and on the call.      *)
LEMMA SameLabel ==
  ASSUME NEW e, NEW e2, NEW t, NEW t2, NEW raising, LabelOfCall(e2) = LabelOfCall(e),
         \A r \in RuleNames : \A f : f.rule \in Labelling =>
           (f \in Registry(e2, t2)[r] <=> f \in Registry(e, t)[r])
  PROVE  Classify(e2, RuleIds(EvaluateAll(e2, t2, raising)))
           = Classify(e, RuleIds(EvaluateAll(e, t, raising)))
<1> DEFINE ids == RuleIds(EvaluateAll(e, t, raising))
           ids2 == RuleIds(EvaluateAll(e2, t2, raising))
<1>1. \A f : f.rule \in Labelling =>
        (f \in EvaluateAll(e2, t2, raising) <=> f \in EvaluateAll(e, t, raising))
  BY DEF EvaluateAll
<1>2. ids \intersect Labelling = ids2 \intersect Labelling
  BY <1>1 DEF RuleIds
<1> HIDE DEF ids, ids2
<1>3. \A i \in DOMAIN LabelledRules :
        LabelledRules[i][1] \intersect ids # {} <=> LabelledRules[i][1] \intersect ids2 # {}
  BY <1>2, LabelledRulesAre
<1>4. {i \in DOMAIN LabelledRules : LabelledRules[i][1] \intersect ids # {}}
        = {i \in DOMAIN LabelledRules : LabelledRules[i][1] \intersect ids2 # {}}
  BY <1>3
<1>5. Classify(e2, ids2) = Classify(e, ids)
  <2> DEFINE hits == {i \in DOMAIN LabelledRules : LabelledRules[i][1] \intersect ids # {}}
             hits2 == {i \in DOMAIN LabelledRules : LabelledRules[i][1] \intersect ids2 # {}}
             Pick(H, deflt) == IF H = {} THEN deflt
                               ELSE LabelledRules[CHOOSE i \in H : \A j \in H : i <= j][2]
  <2>1. /\ Classify(e2, ids2) = Pick(hits2, LabelOfCall(e2))
        /\ Classify(e, ids) = Pick(hits, LabelOfCall(e))
    BY DEF Classify, FirstLabel
  <2>2. hits = hits2 /\ LabelOfCall(e2) = LabelOfCall(e)
    BY <1>4
  <2> HIDE DEF hits, hits2, Pick
  <2> QED BY <2>1, <2>2
<1> QED BY <1>5 DEF ids, ids2

(* The governor counts its passes.                                         *)
LEMMA EnvelopePasses ==
  ASSUME NEW c, IsCall(c)
  PROVE  EnvelopeOf(c).passes \in Nat
<1>1. LayersOf(c) \in Nat
  BY DEF IsCall, LayersOf
<1> QED BY <1>1, PassesAssumption DEF EnvelopeOf, Derive, Oversized, DecodePasses

(* Taint changes what one rule finds: it halts where it scored before, and *)
(* its findings carry no label.                                            *)
LEMMA TaintFindsMore ==
  ASSUME NEW e, NEW t \in CLEAN..INSTRUCTED, NEW u \in t..INSTRUCTED, NEW raising
  PROVE  /\ Covers(EvaluateAll(e, u, raising), EvaluateAll(e, t, raising))
         /\ Classify(e, RuleIds(EvaluateAll(e, u, raising)))
              = Classify(e, RuleIds(EvaluateAll(e, t, raising)))
<1>1. t \in {0, 1, 2} /\ u \in {0, 1, 2} /\ t <= u
  BY DEF CLEAN, EXPOSED, INSTRUCTED
<1>2. \A r \in RuleNames \ {"tainted_consequential_action"} :
        Registry(e, u)[r] = Registry(e, t)[r]
  BY SMT DEF Registry, RuleNames
<1>3. Covers(TaintedConsequentialAction(e, u), TaintedConsequentialAction(e, t))
  <2> DEFINE halting == [rule |-> "injection.laundered_instruction",
                         on |-> "injection.laundered_instruction", score |-> 100, halt |-> TRUE]
  <2>1. CASE LabelOfCall(e) \in Consequential /\ u = 2
    <3>1. halting \in TaintedConsequentialAction(e, u)
      BY <2>1, SMT DEF TaintedConsequentialAction, Finding, INSTRUCTED
    <3>2. halting.halt
      OBVIOUS
    <3> QED BY <3>1, <3>2, Zenon DEF Covers, Halts
  <2>2. CASE LabelOfCall(e) \notin Consequential \/ t = 0
    <3>1. TaintedConsequentialAction(e, t) = {}
      BY <2>2, SMT DEF TaintedConsequentialAction, Finding, EXPOSED, INSTRUCTED
    <3> QED BY <3>1 DEF Covers
  <2>3. CASE t = u
    BY <2>3 DEF Covers
  <2> QED BY <1>1, <2>1, <2>2, <2>3
<1>4. Covers(EvaluateAll(e, u, raising), EvaluateAll(e, t, raising))
  <2>1. \A r \in RuleNames : Covers(Registry(e, u)[r], Registry(e, t)[r])
    BY <1>2, <1>3 DEF Covers, Registry
  <2> QED BY <2>1, RuleByRule
<1>5. Classify(e, RuleIds(EvaluateAll(e, u, raising)))
        = Classify(e, RuleIds(EvaluateAll(e, t, raising)))
  <2>1. \A f, x : f.rule \in Labelling => f \notin TaintedConsequentialAction(e, x)
    BY SMT DEF TaintedConsequentialAction, Finding, Labelling
  <2>2. \A x : Registry(e, x)["tainted_consequential_action"] = TaintedConsequentialAction(e, x)
    BY DEF Registry
  <2>3. ASSUME NEW r \in RuleNames, NEW f, f.rule \in Labelling
        PROVE  f \in Registry(e, u)[r] <=> f \in Registry(e, t)[r]
    <3>1. CASE r = "tainted_consequential_action"
      BY <2>1, <2>2, <2>3, <3>1
    <3>2. CASE r # "tainted_consequential_action"
      BY <1>2, <3>2
    <3> QED BY <3>1, <3>2
  <2> QED BY <2>3, SameLabel
<1> QED BY <1>4, <1>5

(* The judgement of a call alone rises with the taint that the laundering  *)
(* rule reads, whatever the policy.  This is what module SessionMemory     *)
(* assumes of the routes of its calls.                                     *)
THEOREM JudgeRisesWithTaint ==
  ASSUME NEW c, IsCall(c), NEW t \in CLEAN..INSTRUCTED, NEW u \in t..INSTRUCTED, NEW raising
  PROVE  AtLeast(Judge(c, u, raising).route, Judge(c, t, raising).route)
<1> DEFINE e == EnvelopeOf(c)
           found == EvaluateAll(e, t, raising)
           found2 == EvaluateAll(e, u, raising)
           label == Classify(e, RuleIds(found))
<1>1. Covers(found2, found) /\ Classify(e, RuleIds(found2)) = label
  BY TaintFindsMore, Zenon
<1>2. Reaches(e, e)
  BY EnvelopePasses DEF Reaches
<1>3. IsFiniteSet(found2) /\ AtLeast(GateForAction(label), GateForAction(label))
  BY EvaluateAllFinite, GateIsRoute, AtLeastOrders
<1>4. /\ Judge(c, t, raising).route = Judgement(e, found, label)
      /\ Judge(c, u, raising).route = Judgement(e, found2, label)
  BY <1>1, Zenon DEF Judge, Judgement
<1> HIDE DEF e, found, found2, label
<1> QED BY <1>1, <1>2, <1>3, <1>4, JudgementMonotone

(* So does the verdict, where the floors of the policy do.                 *)
LEMMA TaintTightens ==
  ASSUME RisingFloors, NEW c, IsCall(c), NEW g \in Givens, NEW t \in g.taint..INSTRUCTED
  PROVE  AtLeast(Decide(c, [g EXCEPT !.taint = t]), Decide(c, g))
<1>1. g.taint \in CLEAN..INSTRUCTED /\ t \in CLEAN..INSTRUCTED /\ g.taint <= t
  BY DEF Givens, CLEAN, INSTRUCTED
<1>2. PICK g2 : g2 = [g EXCEPT !.taint = t]
  OBVIOUS
<1>3. /\ g2 \in Givens /\ g2.taint = t /\ g2.raising = g.raising /\ g2.window = g.window
      /\ g2.refused = g.refused /\ g2.breached = g.breached /\ g2.attended = g.attended
  BY <1>1, <1>2 DEF Givens
<1>4. AtLeast(TaintFloors[t], TaintFloors[g.taint])
  BY <1>1 DEF RisingFloors
<1>5. Covers(Found(c, g2), Found(c, g)) /\ LabelOf(c, g2) = LabelOf(c, g)
  BY <1>1, <1>3, TaintFindsMore DEF Found, LabelOf
<1>6. Reaches(EnvelopeOf(c), EnvelopeOf(c))
  BY EnvelopePasses DEF Reaches
<1>7. AtLeast(GateForAction(LabelOf(c, g)), GateForAction(LabelOf(c, g)))
  BY GateIsRoute, AtLeastOrders
<1>8. AtLeast(Decide(c, g2), Decide(c, g))
  BY <1>3, <1>4, <1>5, <1>6, <1>7, VerdictsAreMonotone
<1> QED BY <1>2, <1>8

-----------------------------------------------------------------------------
(* More evidence.                                                          *)

(* One more sign in one parameter, and the governor sees more of the call  *)
(* or the same.                                                            *)
LEMMA SignWidens ==
  ASSUME NEW c, IsCall(c), NEW kind \in DOMAIN c.params, NEW s,
         NEW c2, c2 = [c EXCEPT !.params[kind] = @ \union {s}], IsCall(c2)
  PROVE  Wider(EnvelopeOf(c2), EnvelopeOf(c))
<1>1. /\ c2.tool = c.tool /\ c2.layers = c.layers /\ c2.decoy = c.decoy /\ c2.size = c.size
      /\ DOMAIN c2.params = DOMAIN c.params
      /\ \A k \in DOMAIN c.params : c.params[k] \subseteq c2.params[k]
  BY DEF IsCall
<1>2. TextKinds(c2) = TextKinds(c) /\ ActionKinds(c2) = ActionKinds(c)
  BY <1>1 DEF TextKinds, ActionKinds
<1>3. \A kinds : Bears(c, kinds) \subseteq Bears(c2, kinds)
  BY <1>1 DEF Bears
<1>4. ASSUME NEW kinds, NEW passes
      PROVE  View(c, kinds, passes) \subseteq View(c2, kinds, passes)
  <2>1. \A k \in DOMAIN c.params : SignsAfter(c, k, passes) \subseteq SignsAfter(c2, k, passes)
    BY <1>1 DEF SignsAfter
  <2>2. ASSUME NEW x \in View(c, kinds, passes)
        PROVE  x \in View(c2, kinds, passes)
    <3>1. PICK k \in kinds \intersect DOMAIN c.params : x \in SignsAfter(c, k, passes)
      BY Zenon DEF View
    <3>2. k \in kinds \intersect DOMAIN c2.params /\ x \in SignsAfter(c2, k, passes)
      BY <1>1, <2>1, <3>1
    <3> QED BY <3>2, Zenon DEF View
  <2> QED BY <2>2
<1>5. /\ DecodePasses(c) \in Nat /\ DecodePasses(c2) \in Nat
      /\ DecodePasses(c) <= DecodePasses(c2)
      /\ ResidualEncoding(c) => ResidualEncoding(c2)
      /\ {ResidualEncoding(c), ResidualEncoding(c2)} \subseteq BOOLEAN
  <2>1. Bears(c, TextKinds(c)) \subseteq Bears(c2, TextKinds(c2))
    BY <1>2, <1>3
  <2>2. /\ LayersOf(c) \in Nat /\ LayersOf(c2) \in Nat /\ LayersOf(c) <= LayersOf(c2)
    <3>1. c.layers \in Nat /\ c2.layers = c.layers
      BY <1>1, Zenon DEF IsCall
    <3>2. LayersOf(c) \in {c.layers + 0, c.layers + 1} /\ LayersOf(c2) \in {c.layers + 0, c.layers + 1}
      BY <1>1, Zenon DEF LayersOf
    <3>3. LayersOf(c) = c.layers + 1 => LayersOf(c2) = c.layers + 1
      <4>1. c.layers + 0 # c.layers + 1
        BY <3>1
      <4>2. LayersOf(c) = c.layers + 1 => Bears(c, TextKinds(c)) \intersect EncodedSigns # {}
        BY <4>1, Zenon DEF LayersOf
      <4>3. Bears(c, TextKinds(c)) \intersect EncodedSigns # {}
              => Bears(c2, TextKinds(c2)) \intersect EncodedSigns # {}
        BY <2>1
      <4> QED BY <1>1, <4>2, <4>3, Zenon DEF LayersOf
    <3> QED BY <3>1, <3>2, <3>3
  <2>3. /\ DecodePasses(c) \in Nat /\ DecodePasses(c2) \in Nat
        /\ DecodePasses(c) <= DecodePasses(c2)
    BY <2>2, PassesAssumption DEF DecodePasses
  <2>4. LayersOf(c) > MaxDecodePasses => LayersOf(c2) > MaxDecodePasses
    BY <2>2, PassesAssumption
  <2>5. /\ ResidualEncoding(c) => ResidualEncoding(c2)
        /\ {ResidualEncoding(c), ResidualEncoding(c2)} \subseteq BOOLEAN
    BY <1>1, <2>4, Zenon DEF ResidualEncoding
  <2> QED BY <2>3, <2>5
<1>6. CASE c.size = "fits"
  <2>1. EnvelopeOf(c) = Derive(c) /\ EnvelopeOf(c2) = Derive(c2)
    BY <1>1, <1>6 DEF EnvelopeOf
  <2>2. /\ Derive(c2).tool = Derive(c).tool
        /\ Derive(c).normalized \subseteq Derive(c2).normalized
        /\ Derive(c).action \subseteq Derive(c2).action
        /\ Derive(c).raw \subseteq Derive(c2).raw
        /\ Derive(c).paths \subseteq Derive(c2).paths
        /\ Derive(c).written \subseteq Derive(c2).written
        /\ Derive(c2).oversized = Derive(c).oversized
    BY <1>1, <1>2, <1>3, <1>4 DEF Derive
  <2>3. \A x \in {c, c2} : AllPaths(Derive(x)) = Derive(x).paths \union
                                                 (Derive(x).action \intersect PathSigns)
    BY DEF AllPaths, Derive
  <2>4. AllPaths(Derive(c)) \subseteq AllPaths(Derive(c2))
    BY <2>2, <2>3
  <2> DEFINE d == Derive(c)
             d2 == Derive(c2)
  <2>5. /\ d.passes = DecodePasses(c) /\ d2.passes = DecodePasses(c2)
        /\ d.residual = ResidualEncoding(c) /\ d2.residual = ResidualEncoding(c2)
    BY Zenon DEF Derive
  <2> HIDE DEF d, d2
  <2>6. {d.passes, d2.passes} \subseteq Nat /\ d.passes <= d2.passes
    BY <1>5, <2>5
  <2>7. {d2.residual, d.residual} \subseteq BOOLEAN /\ (d.residual => d2.residual)
    BY <1>5, <2>5, Zenon
  <2>8. Wider(d2, d)
    BY <2>2, <2>4, <2>6, <2>7, Zenon DEF Wider, Reaches, d, d2
  <2> QED BY <2>1, <2>8 DEF d, d2
<1>7. CASE c.size # "fits"
  <2>1. EnvelopeOf(c) = Oversized(c) /\ EnvelopeOf(c2) = Oversized(c2)
    BY <1>1, <1>7 DEF EnvelopeOf
  <2> DEFINE d == Oversized(c)
             d2 == Oversized(c2)
  <2>2. /\ d2.tool = d.tool /\ d.normalized \subseteq d2.normalized
        /\ d.written \subseteq d2.written
        /\ d.action = {} /\ d.raw = {} /\ d.paths = {}
        /\ AllPaths(d) = {}
        /\ d2.residual = FALSE /\ d.residual = FALSE /\ d2.oversized = d.oversized
    BY <1>1, <1>2, <1>4 DEF Oversized, AllPaths
  <2>3. d.passes = 0 /\ d2.passes = 0
    BY DEF Oversized
  <2>4. {d.passes, d2.passes} \subseteq Nat /\ d.passes <= d2.passes
    BY <2>3
  <2>5. Wider(d2, d)
    <3>1. /\ \A T : {} \subseteq T
          /\ {d2.residual, d.residual} \subseteq BOOLEAN /\ (d.residual => d2.residual)
      BY <2>2
    <3> HIDE DEF d, d2
    <3> QED BY <2>2, <2>4, <3>1, Zenon DEF Wider, Reaches
  <2> QED BY <2>1, <2>5
<1> QED BY <1>6, <1>7

(* A finding that halts is a refusal where there is no window.             *)
LEMMA HaltsDecide ==
  ASSUME NEW c, NEW g, ~g.window, Halts(EvaluateAll(EnvelopeOf(c), g.taint, g.raising))
  PROVE  Decide(c, g) = "HALT"
<1>1. Judge(c, g.taint, g.raising).findings = EvaluateAll(EnvelopeOf(c), g.taint, g.raising)
  BY JudgeRoute
<1>2. PICK f \in Judge(c, g.taint, g.raising).findings : f.halt
  BY <1>1, Zenon DEF Halts
<1>3. Judge(c, g.taint, g.raising).route = "HALT"
  BY <1>2, HaltingFindingRefuses, Zenon
<1> QED BY <1>3, DecideKeeps

(* Verdicts are routes.                                                    *)
LEMMA DecideIsRoute ==
  ASSUME NEW c, IsCall(c), NEW g \in Givens
  PROVE  Decide(c, g) \in Routes
<1> DEFINE e == EnvelopeOf(c)
           found == Found(c, g)
           label == LabelOf(c, g)
           judged == Judge(c, g.taint, g.raising)
           floors == {judged.route, TaintFloors[g.taint],
                      IF g.breached THEN BreachRoute ELSE "ALLOW",
                      IF g.refused THEN "HALT" ELSE "ALLOW"}
<1>1. judged.route \in Routes
  <2>1. Reaches(e, e) /\ Covers(found, found)
    BY EnvelopePasses DEF Reaches, Covers
  <2>2. IsFiniteSet(found) /\ AtLeast(GateForAction(label), GateForAction(label))
    BY EvaluateAllFinite, GateIsRoute, AtLeastOrders DEF Found
  <2>3. judged.route = Judgement(e, found, label)
    BY JudgeIs
  <2> HIDE DEF e, found, label, judged
  <2> QED BY <2>1, <2>2, <2>3, JudgementMonotone
<1> HIDE DEF judged
<1>2. floors \subseteq Routes /\ floors # {}
  BY <1>1, PolicyAssumption DEF ValidPolicy, Givens, Routes
<1>3. Floor(judged, g) \in Routes
  <2>1. Floor(judged, g) = Strictest(floors)
    BY DEF Floor
  <2> HIDE DEF floors
  <2> QED BY <1>2, <2>1, StrictestIsLeastUpperBound
<1>4. Attended(Floor(judged, g), g.attended) \in Routes
  BY <1>3 DEF Attended, Routes
<1> QED BY <1>4 DEF Decide, judged, Routes

(* Of two calls the governor sees more of the second: outside a window the *)
(* verdict is the same or stricter.                                        *)
LEMMA EvidenceTightens ==
  ASSUME OrderedGates, NEW c, IsCall(c), NEW c2, IsCall(c2), NEW g \in Givens, ~g.window,
         Wider(EnvelopeOf(c2), EnvelopeOf(c))
  PROVE  AtLeast(Decide(c2, g), Decide(c, g))
<1> DEFINE e == EnvelopeOf(c)
           e2 == EnvelopeOf(c2)
           found == EvaluateAll(e, g.taint, g.raising)
           found2 == EvaluateAll(e2, g.taint, g.raising)
           label == Classify(e, RuleIds(found))
           label2 == Classify(e2, RuleIds(found2))
<1>1. CASE Halts(found2)
  <2>1. Decide(c2, g) = "HALT"
    BY <1>1, HaltsDecide
  <2> QED BY <2>1, DecideIsRoute, AtLeastOrders
<1>2. CASE ~Halts(found2)
  <2>1. Covers(found2, found)
    BY FindingsGrow
  <2>2. found \ {Obfuscated} \subseteq found2 /\ ~Halts(found)
    <3>1. ~Obfuscated.halt
      BY DEF Obfuscated
    <3> QED BY <1>2, <2>1, <3>1, Zenon DEF Covers, Halts
  <2>3. /\ label = IF "destructive.git" \in RuleIds(found) THEN "rewrite_history"
                                                           ELSE LabelOfCall(e)
        /\ label2 = IF "destructive.git" \in RuleIds(found2) THEN "rewrite_history"
                                                             ELSE LabelOfCall(e2)
    BY <1>2, <2>2, CalmLabel
  <2>4. "destructive.git" \in RuleIds(found) => "destructive.git" \in RuleIds(found2)
    BY <2>2 DEF RuleIds, Obfuscated
  <2>5. /\ AtLeast(GateMatrix[LabelOfCall(e2)], GateMatrix[LabelOfCall(e)])
        /\ LabelOfCall(e) \in Actions \ AlwaysDenied
        /\ LabelOfCall(e2) \in Actions \ AlwaysDenied
    <3>1. /\ e2.tool = e.tool /\ e.normalized \subseteq e2.normalized
          /\ e.paths \subseteq e2.paths
      BY DEF Wider, Reaches
    <3>2. Wider(e2, e2)
      BY DEF Wider, Reaches
    <3> HIDE DEF e, e2
    <3> QED BY <3>1, LabelOfCallMonotone
  <2> HIDE DEF e, e2, found, found2, label, label2
  <2>6. AtLeast(GateForAction(label2), GateForAction(label))
    <3>1. \A a \in Actions : GateForAction(a) = GateMatrix[a] /\ GateMatrix[a] \in Routes
      BY PolicyAssumption DEF ValidPolicy, GateForAction
    <3>2. "rewrite_history" \in Actions
      BY DEF Actions
    <3>3. \A a \in Actions \ AlwaysDenied :
            AtLeast(GateMatrix["rewrite_history"], GateMatrix[a])
      BY DEF OrderedGates
    <3> QED BY <2>3, <2>4, <2>5, <3>1, <3>2, <3>3, AtLeastOrders
  <2>7. AtLeast(TaintFloors[g.taint], TaintFloors[g.taint])
    BY PolicyAssumption, AtLeastOrders DEF ValidPolicy, Givens
  <2>8. /\ Found(c, g) = found /\ Found(c2, g) = found2
        /\ LabelOf(c, g) = label /\ LabelOf(c2, g) = label2
    BY DEF Found, LabelOf, e, e2, found, found2, label, label2
  <2>9. Reaches(EnvelopeOf(c2), EnvelopeOf(c))
    BY DEF Wider
  <2> QED BY <2>1, <2>6, <2>7, <2>8, <2>9, VerdictsAreMonotone
<1> QED BY <1>1, <1>2

-----------------------------------------------------------------------------
(* Encoded commands.                                                       *)

(* Two envelopes differ in what the decoder notes of itself, but in no     *)
(* text that a rule reads.                                                 *)
Alike(later, earlier) ==
  /\ later.tool = earlier.tool
  /\ later.normalized = earlier.normalized
  /\ later.action = earlier.action
  /\ later.action \union later.raw = earlier.action \union earlier.raw
  /\ later.paths = earlier.paths /\ later.textPaths = earlier.textPaths
  /\ later.written = earlier.written

(* They are alike to every rule but the one that reads those notes.        *)
LEMMA RulesAlike ==
  ASSUME NEW e, NEW e2, Alike(e2, e)
  PROVE  /\ LabelOfCall(e2) = LabelOfCall(e)
         /\ \A taint : \A r \in RuleNames \ {"oversized_or_obfuscated"} :
              Registry(e2, taint)[r] = Registry(e, taint)[r]
<1> USE DEF Alike
<1>1. TargetPaths(e2) = TargetPaths(e) /\ (IsReadOnly(e2) <=> IsReadOnly(e))
  BY DEF TargetPaths, AllPaths, IsReadOnly
<1>2. LabelOfCall(e2) = LabelOfCall(e)
  BY DEF LabelOfCall, LabelOfWrite
<1>3. SUFFICES ASSUME NEW taint, NEW r \in RuleNames \ {"oversized_or_obfuscated"}
               PROVE  Registry(e2, taint)[r] = Registry(e, taint)[r]
  BY <1>2
<1>4. CASE r \in {"recursive_delete", "storage_destruction", "sql_destruction",
                  "git_history", "permission_widening", "fork_bomb", "decode_and_execute",
                  "protected_path_write", "halt_pattern"}
  <2>1. /\ RecursiveDelete(e2) = RecursiveDelete(e)
        /\ StorageDestruction(e2) = StorageDestruction(e)
        /\ SqlDestruction(e2) = SqlDestruction(e)
        /\ GitHistory(e2) = GitHistory(e)
        /\ PermissionWidening(e2) = PermissionWidening(e)
        /\ ForkBomb(e2) = ForkBomb(e)
        /\ DecodeAndExecute(e2) = DecodeAndExecute(e)
        /\ ProtectedPathWrite(e2) = ProtectedPathWrite(e)
        /\ HaltPattern(e2) = HaltPattern(e)
    BY <1>1, Zenon
       DEF RecursiveDelete, StorageDestruction, SqlDestruction, GitHistory,
           PermissionWidening, ForkBomb, DecodeAndExecute, ProtectedPathWrite, HaltPattern
  <2> QED BY <1>4, <2>1 DEF Registry
<1>5. CASE r \in {"destination_gating", "proxy_evasion", "dynamic_destination",
                  "covert_channel", "injection_markers", "tainted_consequential_action",
                  "instruction_in_written_content"}
  <2>1. /\ DestinationGating(e2) = DestinationGating(e)
        /\ ProxyEvasion(e2) = ProxyEvasion(e)
        /\ DynamicDestination(e2) = DynamicDestination(e)
        /\ CovertChannel(e2) = CovertChannel(e)
        /\ InjectionMarkers(e2) = InjectionMarkers(e)
        /\ TaintedConsequentialAction(e2, taint) = TaintedConsequentialAction(e, taint)
        /\ InstructionInWrittenContent(e2) = InstructionInWrittenContent(e)
    BY <1>2, Zenon
       DEF DestinationGating, ProxyEvasion, DynamicDestination, CovertChannel,
           InjectionMarkers, TaintedConsequentialAction, InstructionInWrittenContent
  <2> QED BY <1>5, <2>1 DEF Registry
<1>6. CASE r \in {"persistence", "privilege_escalation", "security_disable", "link_creation",
                  "traversal", "outside_working_root", "literal_secret_present",
                  "exfiltration", "credential_file_read", "anti_forensics"}
  <2>1. /\ Persistence(e2) = Persistence(e)
        /\ PrivilegeEscalation(e2) = PrivilegeEscalation(e)
        /\ SecurityDisable(e2) = SecurityDisable(e)
        /\ LinkCreation(e2) = LinkCreation(e)
        /\ Traversal(e2) = Traversal(e)
        /\ OutsideWorkingRoot(e2) = OutsideWorkingRoot(e)
        /\ LiteralSecretPresent(e2) = LiteralSecretPresent(e)
        /\ Exfiltration(e2) = Exfiltration(e)
        /\ CredentialFileRead(e2) = CredentialFileRead(e)
        /\ AntiForensics(e2) = AntiForensics(e)
    BY Zenon
       DEF Persistence, PrivilegeEscalation, SecurityDisable, LinkCreation, Traversal,
           OutsideWorkingRoot, LiteralSecretPresent, Exfiltration, CarriesSecret,
           CredentialFileRead, AntiForensics
  <2> QED BY <1>6, <2>1 DEF Registry
<1>7. CASE r \in {"modify_harness_config", "kill_governor", "ungoverned_harness",
                  "interpreter_hijack", "disable_hook", "read_governor_secrets",
                  "touch_own_files"}
  <2>1. /\ ModifyHarnessConfig(e2) = ModifyHarnessConfig(e)
        /\ KillGovernor(e2) = KillGovernor(e)
        /\ UngovernedHarness(e2) = UngovernedHarness(e)
        /\ InterpreterHijack(e2) = InterpreterHijack(e)
        /\ DisableHook(e2) = DisableHook(e)
        /\ ReadGovernorSecrets(e2) = ReadGovernorSecrets(e)
    BY <1>1, Zenon
       DEF ModifyHarnessConfig, KillGovernor, UngovernedHarness, InterpreterHijack,
           DisableHook, ReadGovernorSecrets
  <2>2. TouchOwnFiles(e2) = TouchOwnFiles(e)
    BY <1>1, SMT DEF TouchOwnFiles, Finding
  <2> QED BY <1>7, <2>1, <2>2 DEF Registry
<1> QED BY <1>3, <1>4, <1>5, <1>6, <1>7 DEF RuleNames

(* Where no command is read and no path is known, no finding has a label.  *)
LEMMA NothingLabelled ==
  ASSUME NEW env, env.action = {}, TargetPaths(env) = {}, NEW taint, NEW raising
  PROVE  Classify(env, RuleIds(EvaluateAll(env, taint, raising))) \notin Maintainable
<1> DEFINE ids == RuleIds(EvaluateAll(env, taint, raising))
<1>1. ASSUME NEW r \in RuleNames, NEW f \in Registry(env, taint)[r]
      PROVE  f.rule \notin Labelling
  <2>1. CASE r \in {"recursive_delete", "storage_destruction", "sql_destruction",
                    "git_history", "permission_widening", "fork_bomb", "decode_and_execute",
                    "protected_path_write", "halt_pattern"}
    BY <1>1, <2>1, SMT DEF Registry, RecursiveDelete, StorageDestruction, SqlDestruction,
       GitHistory, PermissionWidening, ForkBomb, DecodeAndExecute, ProtectedPathWrite,
       HaltPattern, Scored, Halting, Finding, Labelling
  <2>2. CASE r \in {"destination_gating", "proxy_evasion", "dynamic_destination",
                    "covert_channel", "injection_markers", "tainted_consequential_action",
                    "instruction_in_written_content"}
    BY <1>1, <2>2, SMT DEF Registry, DestinationGating, ProxyEvasion, DynamicDestination,
       CovertChannel, InjectionMarkers, TaintedConsequentialAction,
       InstructionInWrittenContent, Scored, Halting, Finding, Labelling
  <2>3. CASE r \in {"persistence", "privilege_escalation", "security_disable",
                    "link_creation", "traversal", "outside_working_root",
                    "literal_secret_present", "exfiltration", "credential_file_read",
                    "anti_forensics"}
    BY <1>1, <2>3, SMT DEF Registry, Persistence, PrivilegeEscalation, SecurityDisable,
       LinkCreation, Traversal, OutsideWorkingRoot, LiteralSecretPresent, Exfiltration,
       CredentialFileRead, AntiForensics, Scored, Halting, Finding, Labelling
  <2>4. CASE r \in {"modify_harness_config", "kill_governor", "ungoverned_harness",
                    "interpreter_hijack", "disable_hook", "read_governor_secrets",
                    "oversized_or_obfuscated"}
    BY <1>1, <2>4, SMT DEF Registry, ModifyHarnessConfig, KillGovernor, UngovernedHarness,
       InterpreterHijack, DisableHook, ReadGovernorSecrets, OversizedOrObfuscated,
       Halting, Finding, Labelling
  <2>5. CASE r = "touch_own_files"
    <3>1. f \in TouchOwnFiles(env)
      BY <1>1, <2>5 DEF Registry
    <3> QED BY <3>1, SMT DEF TouchOwnFiles, Finding
  <2> QED BY <2>1, <2>2, <2>3, <2>4, <2>5 DEF RuleNames
<1>2. ids \intersect Labelling = {}
  <2>1. SUFFICES ASSUME NEW f \in EvaluateAll(env, taint, raising)
                 PROVE  f.rule \notin Labelling
    BY DEF RuleIds
  <2>2. PICK r \in RuleNames :
          f \in IF r \in raising THEN {RuleError(r)} ELSE Registry(env, taint)[r]
    BY DEF EvaluateAll
  <2> QED BY <1>1, <2>2 DEF RuleError, Labelling
<1> HIDE DEF ids
<1>3. \A i \in 1..16 : LabelledRules[i][1] \intersect ids = {}
  BY <1>2, LabelledRulesAre
<1>4. Classify(env, ids) = LabelOfCall(env)
  <2>1. 1..16 \subseteq Nat
    OBVIOUS
  <2> QED BY <1>3, <2>1, LabelledRulesAre, FirstLabelIs DEF Classify
<1>5. LabelOfCall(env) \in Actions \ AlwaysDenied
  BY LabelOfCallMonotone
<1> QED BY <1>4, <1>5 DEF ids, Maintainable, AlwaysDenied

(* What is found is enough for a review, and no window lifts it.           *)
LEMMA ReviewedAtLeast ==
  ASSUME NEW c, NEW g, ~g.window \/ LabelOf(c, g) \notin Maintainable,
         RouteFromScore(Found(c, g)) # "ALLOW"
  PROVE  Decide(c, g) # "ALLOW"
<1>1. Judgement(EnvelopeOf(c), Found(c, g), LabelOf(c, g)) # "ALLOW"
  BY StrictestKeeps DEF Judgement
<1> QED BY <1>1, JudgeIs, DecideKeeps

(* A finding that scores enough, or a rule that raises, is.                *)
LEMMA ScoredIsReviewed ==
  ASSUME NEW env, NEW taint, NEW raising, NEW r \in RuleNames, NEW f \in Registry(env, taint)[r],
         f.halt \/ f.score \in ReviewAt..100
  PROVE  RouteFromScore(EvaluateAll(env, taint, raising)) # "ALLOW"
<1> DEFINE found == EvaluateAll(env, taint, raising)
<1>1. CASE Halts(found)
  BY <1>1, Zenon DEF RouteFromScore, Halted, Halts
<1>2. CASE ~Halts(found)
  <2>1. f \in found /\ ~f.halt
    BY <1>2, FoundOrRaised
  <2>2. ReviewAt \in 1..100
    BY PolicyAssumption, Zenon DEF ValidPolicy
  <2>3. f.score \in 1..100 /\ ReviewAt <= f.score
    BY <2>1, <2>2
  <2>4. IsFiniteSet(found)
    BY EvaluateAllFinite
  <2>5. Score(found) \in Nat /\ f.score <= Score(found)
    <3> HIDE DEF found
    <3> QED BY <2>1, <2>3, <2>4, ScoreCounts
  <2>6. Score(found) >= ReviewAt
    BY <2>2, <2>3, <2>5
  <2> QED BY <2>6, Zenon DEF RouteFromScore
<1> QED BY <1>1, <1>2

(* An encoded command within the passes of the governor is read as if it   *)
(* were plain, except for what it looked like before.                      *)
LEMMA DecodedAlike ==
  ASSUME NEW c, IsCall(c), c.layers = 0, c.size = "fits",
         Bears(c, AllKinds) \intersect EncodedSigns = {},
         DOMAIN c.params \subseteq {"action", "other"}, NEW d \in BOOLEAN,
         NEW n \in 1..MaxDecodePasses, NEW c2, c2 = [c EXCEPT !.layers = n, !.decoy = d]
  PROVE  /\ Alike(EnvelopeOf(c2), EnvelopeOf(c))
         /\ Reaches(EnvelopeOf(c2), EnvelopeOf(c))
         /\ OversizedOrObfuscated(EnvelopeOf(c)) = {}
<1>1. /\ c2.tool = c.tool /\ c2.params = c.params /\ c2.size = c.size
      /\ c2.layers = n
  BY DEF IsCall
<1>2. /\ TextKinds(c2) = TextKinds(c) /\ ActionKinds(c2) = ActionKinds(c)
      /\ \A kinds : Bears(c2, kinds) = Bears(c, kinds)
  BY <1>1 DEF TextKinds, ActionKinds, Bears
<1>3. /\ DecodePasses(c) = 0 /\ DecodePasses(c2) = n
      /\ ~ResidualEncoding(c) /\ ~ResidualEncoding(c2)
  <2>1. Bears(c, TextKinds(c)) \intersect EncodedSigns = {}
    BY DEF Bears, TextKinds, AllKinds
  <2>2. LayersOf(c) = 0 /\ LayersOf(c2) = n
    BY <1>1, <1>2, <2>1, PassesAssumption DEF LayersOf
  <2> QED BY <2>2, PassesAssumption DEF DecodePasses, ResidualEncoding
<1>4. /\ EnvelopeOf(c) = Derive(c) /\ EnvelopeOf(c2) = Derive(c2)
      /\ \A kinds : /\ View(c2, kinds, MaxDecodePasses) = View(c, kinds, MaxDecodePasses)
                    /\ View(c, kinds, 0) = View(c, kinds, MaxDecodePasses)
                    /\ View(c2, kinds, 0) = {}
  <2>1. \A k \in DOMAIN c.params : /\ c.params[k] \intersect EncodedSigns = {}
                                   /\ k # "path"
    BY DEF Bears, IsCall
  <2>2. \A k \in DOMAIN c.params : /\ SignsAfter(c, k, MaxDecodePasses) = c.params[k]
                                   /\ SignsAfter(c2, k, MaxDecodePasses) = c.params[k]
                                   /\ SignsAfter(c, k, 0) = c.params[k]
                                   /\ SignsAfter(c2, k, 0) = {}
    BY <1>1, <2>1, PassesAssumption DEF SignsAfter
  <2>3. \A kinds : /\ View(c2, kinds, MaxDecodePasses) = View(c, kinds, MaxDecodePasses)
                   /\ View(c, kinds, 0) = View(c, kinds, MaxDecodePasses)
                   /\ View(c2, kinds, 0) = {}
    BY <1>1, <2>2 DEF View
  <2> QED BY <1>1, <2>3 DEF EnvelopeOf
<1>5. /\ Derive(c2).tool = Derive(c).tool
      /\ Derive(c2).normalized = Derive(c).normalized
      /\ Derive(c2).action = Derive(c).action
      /\ Derive(c2).paths = Derive(c).paths
      /\ Derive(c2).textPaths = Derive(c).textPaths
  BY <1>1, <1>2, <1>4 DEF Derive
<1>6. View(c2, TextKinds(c2), 0) = {}
  BY <1>4
<1>7. /\ View(c, {"content"}, 0) = {}
      /\ View(c2, {"content"}, 0) = {}
  BY <1>1 DEF View
<1>8. View(c, TextKinds(c), 0) = View(c, ActionKinds(c), MaxDecodePasses)
  <2>1. TextKinds(c) \intersect DOMAIN c.params = ActionKinds(c) \intersect DOMAIN c.params
    BY DEF TextKinds, ActionKinds, AllKinds
  <2>2. View(c, TextKinds(c), 0) = View(c, ActionKinds(c), 0)
    BY <2>1 DEF View
  <2> QED BY <1>4, <2>2
<1>9. /\ Derive(c2).raw = {} /\ Derive(c).raw = Derive(c).action
      /\ Derive(c2).written = {} /\ Derive(c).written = {}
  BY <1>6, <1>7, <1>8 DEF Derive
<1>10. /\ Derive(c).passes = 0 /\ Derive(c).residual = FALSE /\ Derive(c).oversized = FALSE
       /\ Derive(c2).passes = n /\ Derive(c2).oversized = FALSE
  BY <1>3 DEF Derive
<1> DEFINE e == Derive(c)
           e2 == Derive(c2)
<1>11. n \in Nat
  BY PassesAssumption
<1> HIDE DEF e, e2
<1>12. Alike(e2, e)
  BY <1>5, <1>9, Zenon DEF Alike, e, e2
<1>13. Reaches(e2, e)
  <2>1. {e.passes, e2.passes} \subseteq Nat /\ e.passes <= e2.passes
    BY <1>10, <1>11 DEF e, e2
  <2>2. AllPaths(e2) = AllPaths(e)
    BY <1>12, Zenon DEF Alike, AllPaths
  <2>3. e2.oversized = e.oversized
    BY <1>10, Zenon DEF e, e2
  <2>4. \A T : T \subseteq T
    OBVIOUS
  <2> QED BY <1>12, <2>1, <2>2, <2>3, <2>4, Zenon DEF Reaches, Alike
<1>14. OversizedOrObfuscated(e) = {}
  BY <1>10 DEF OversizedOrObfuscated, Finding, e
<1> QED BY <1>4, <1>12, <1>13, <1>14 DEF e, e2

(* One encoding more and the governor reads nothing of it, which it says.  *)
LEMMA TooDeepIsResidue ==
  ASSUME NEW c, IsCall(c), c.layers = 0, c.size = "fits",
         DOMAIN c.params \subseteq {"action", "other"}, ToolClass(c.tool) = "exec",
         NEW c2, c2 = [c EXCEPT !.layers = MaxDecodePasses + 1, !.decoy = FALSE]
  PROVE  LET e2 == EnvelopeOf(c2)
         IN  e2.action = {} /\ TargetPaths(e2) = {} /\ e2.residual = TRUE
<1>1. /\ c2.tool = c.tool /\ c2.params = c.params /\ c2.decoy = FALSE /\ c2.size = c.size
      /\ c2.layers = MaxDecodePasses + 1
  BY DEF IsCall
<1>2. ResidualEncoding(c2)
  <2>1. LayersOf(c2) \in {MaxDecodePasses + 1, MaxDecodePasses + 2}
    BY <1>1, PassesAssumption DEF LayersOf
  <2> QED BY <1>1, <2>1, PassesAssumption DEF ResidualEncoding
<1>3. \A kinds : View(c2, kinds, MaxDecodePasses) = {}
  <2>1. \A k \in DOMAIN c2.params : SignsAfter(c2, k, MaxDecodePasses) = {}
    BY <1>1, PassesAssumption DEF SignsAfter
  <2> QED BY <2>1 DEF View
<1>4. Bears(c2, {"path"}) = {}
  BY <1>1 DEF Bears
<1>5. EnvelopeOf(c2) = Derive(c2)
  BY <1>1 DEF EnvelopeOf
<1>6. /\ Derive(c2).action = {} /\ Derive(c2).paths = {} /\ Derive(c2).textPaths = {}
      /\ Derive(c2).residual = TRUE
  BY <1>2, <1>3, <1>4 DEF Derive
<1>7. TargetPaths(Derive(c2)) = {}
  BY <1>6 DEF TargetPaths, AllPaths
<1> QED BY <1>5, <1>6, <1>7

(* A payload over the limit is refused, and no window lifts it.            *)
LEMMA OversizedRefused ==
  ASSUME NEW c, IsCall(c), c.size # "fits", NEW g
  PROVE  Decide(c, g) # "ALLOW"
<1> DEFINE e == EnvelopeOf(c)
           f == [rule |-> "self_protect.oversized_payload",
                 on |-> "self_protect.oversized_payload", score |-> 100, halt |-> TRUE]
<1>1. e.oversized = TRUE /\ e.action = {} /\ TargetPaths(e) = {}
  BY DEF EnvelopeOf, Oversized, TargetPaths, AllPaths
<1> HIDE DEF e
<1>2. f \in OversizedOrObfuscated(e)
  BY <1>1, Zenon DEF OversizedOrObfuscated, Finding
<1>3. "oversized_or_obfuscated" \in RuleNames /\ f \in Registry(e, g.taint)["oversized_or_obfuscated"]
  BY <1>2 DEF RuleNames, Registry
<1>4. f.halt
  OBVIOUS
<1> HIDE DEF f
<1>5. RouteFromScore(EvaluateAll(e, g.taint, g.raising)) # "ALLOW"
  BY <1>3, <1>4, ScoredIsReviewed
<1>6. Classify(e, RuleIds(EvaluateAll(e, g.taint, g.raising))) \notin Maintainable
  BY <1>1, NothingLabelled
<1> QED BY <1>5, <1>6, ReviewedAtLeast DEF e, Found, LabelOf

(* What is not allowed in plain text is not allowed encoded, and not       *)
(* behind a decoy within the passes of the governor.                       *)
LEMMA EncodedNotAllowed ==
  ASSUME ResidueIsReviewed, NEW c, IsCall(c), c.layers = 0, ToolClass(c.tool) = "exec",
         Bears(c, AllKinds) \intersect EncodedSigns = {},
         DOMAIN c.params \subseteq {"action", "other"}, NEW g \in Givens,
         Decide(c, g) # "ALLOW", NEW n \in 1..(MaxDecodePasses + 1), NEW d \in BOOLEAN,
         n <= MaxDecodePasses \/ ~d,
         NEW c2, c2 = [c EXCEPT !.layers = n, !.decoy = d]
  PROVE  Decide(c2, g) # "ALLOW"
<1> DEFINE e == EnvelopeOf(c)
           e2 == EnvelopeOf(c2)
           found == EvaluateAll(e, g.taint, g.raising)
           found2 == EvaluateAll(e2, g.taint, g.raising)
           label == Classify(e, RuleIds(found))
<1>1. IsCall(c2) /\ c2.size = c.size
  <2>1. /\ c2.params = c.params /\ c2.decoy = d /\ c2.size = c.size
        /\ c2.layers = n /\ DOMAIN c2 = DOMAIN c
    BY DEF IsCall
  <2>2. n \in Nat /\ (c2.layers = 0 => ~c2.decoy)
    BY <2>1, PassesAssumption
  <2>3. Bears(c2, {"path"}) = Bears(c, {"path"})
    BY <2>1 DEF Bears
  <2> QED BY <2>1, <2>2, <2>3 DEF IsCall
<1>2. CASE c.size # "fits"
  BY <1>1, <1>2, OversizedRefused
<1>3. CASE c.size = "fits" /\ n = MaxDecodePasses + 1
  <2> DEFINE f == [rule |-> "self_protect.residual_encoding",
                   on |-> "self_protect.residual_encoding", score |-> 55, halt |-> FALSE]
  <2>1. e2.action = {} /\ TargetPaths(e2) = {} /\ e2.residual = TRUE
    <3>1. ~d
      BY <1>3, PassesAssumption
    <3> QED BY <1>3, <3>1, TooDeepIsResidue
  <2> HIDE DEF e2
  <2>2. f \in OversizedOrObfuscated(e2)
    BY <2>1, Zenon DEF OversizedOrObfuscated, Finding
  <2>3. /\ "oversized_or_obfuscated" \in RuleNames
        /\ f \in Registry(e2, g.taint)["oversized_or_obfuscated"]
    BY <2>2 DEF RuleNames, Registry
  <2>4. f.score \in ReviewAt..100
    <3>1. ReviewAt \in 1..100
      BY PolicyAssumption, Zenon DEF ValidPolicy
    <3> QED BY <3>1 DEF ResidueIsReviewed
  <2> HIDE DEF f
  <2>5. RouteFromScore(found2) # "ALLOW"
    BY <2>3, <2>4, ScoredIsReviewed
  <2>6. Classify(e2, RuleIds(found2)) \notin Maintainable
    BY <2>1, NothingLabelled
  <2> QED BY <2>5, <2>6, ReviewedAtLeast DEF e2, Found, LabelOf
<1>4. CASE c.size = "fits" /\ n \in 1..MaxDecodePasses
  <2>1. Alike(e2, e) /\ Reaches(e2, e) /\ OversizedOrObfuscated(e) = {}
    BY <1>4, DecodedAlike
  <2> HIDE DEF e, e2
  <2>2. /\ LabelOfCall(e2) = LabelOfCall(e)
        /\ \A r \in RuleNames \ {"oversized_or_obfuscated"} :
             Registry(e2, g.taint)[r] = Registry(e, g.taint)[r]
    BY <2>1, RulesAlike
  <2>3. Covers(found2, found)
    <3>1. ASSUME NEW r \in RuleNames
          PROVE  Covers(Registry(e2, g.taint)[r], Registry(e, g.taint)[r])
      <4>1. CASE r = "oversized_or_obfuscated"
        <5>1. Registry(e, g.taint)[r] = {}
          BY <2>1, <4>1 DEF Registry
        <5> QED BY <5>1 DEF Covers
      <4>2. CASE r # "oversized_or_obfuscated"
        BY <2>2, <4>2 DEF Covers
      <4> QED BY <4>1, <4>2
    <3> QED BY <3>1, RuleByRule
  <2>4. Classify(e2, RuleIds(found2)) = label
    <3>1. \A f, x : f.rule \in Labelling => f \notin OversizedOrObfuscated(x)
      BY SMT DEF OversizedOrObfuscated, Finding, Labelling
    <3>2. \A x : Registry(x, g.taint)["oversized_or_obfuscated"] = OversizedOrObfuscated(x)
      BY DEF Registry
    <3>3. ASSUME NEW r \in RuleNames, NEW f, f.rule \in Labelling
          PROVE  f \in Registry(e2, g.taint)[r] <=> f \in Registry(e, g.taint)[r]
      <4>1. CASE r = "oversized_or_obfuscated"
        BY <3>1, <3>2, <3>3, <4>1
      <4>2. CASE r # "oversized_or_obfuscated"
        BY <2>2, <4>2
      <4> QED BY <4>1, <4>2
    <3> QED BY <2>2, <3>3, SameLabel
  <2>5. /\ AtLeast(GateForAction(label), GateForAction(label))
        /\ AtLeast(TaintFloors[g.taint], TaintFloors[g.taint])
    BY GateIsRoute, PolicyAssumption, AtLeastOrders DEF ValidPolicy, Givens
  <2>6. /\ Found(c, g) = found /\ Found(c2, g) = found2
        /\ LabelOf(c, g) = label /\ LabelOf(c2, g) = label
    BY <2>4 DEF Found, LabelOf, e, e2
  <2> HIDE DEF found, found2, label
  <2>7. AtLeast(Decide(c2, g), Decide(c, g))
    BY <2>1, <2>3, <2>5, <2>6, VerdictsAreMonotone DEF e, e2
  <2>8. Decide(c, g) \in {"REVIEW", "HALT"}
    BY DecideIsRoute DEF Routes
  <2> QED BY <2>7, <2>8 DEF AtLeast, Severity
<1> QED BY <1>2, <1>3, <1>4, PassesAssumption

-----------------------------------------------------------------------------
(* The two records of one call.                                            *)

(* What the hook refuses by its own patterns stands in the governor's text, *)
(* and if it is a path, among the paths that the call acts on.             *)
LEMMA HookSignsAreRead ==
  ASSUME HookReadsLess, NEW c, IsCall(c), c.size = "fits",
         HookText(c) \intersect SharedSigns # {},
         c.tool \in WriteTools => "path" \in DOMAIN c.params /\ "action" \notin DOMAIN c.params,
         "other" \in DOMAIN c.params /\ DOMAIN c.params # {"other"}
           => c.params.other \intersect FallbackSigns = {}
  PROVE  \E s \in SharedSigns : /\ s \in EnvelopeOf(c).action
                                /\ s \in PathSigns => s \in TargetPaths(EnvelopeOf(c))
<1> DEFINE kinds == DOMAIN c.params
           listed == kinds \intersect {"action", "path", "content"}
<1>1. PICK s \in SharedSigns, k \in kinds \ {"content"} : s \in SignsAfter(c, k, HookPasses)
  BY DEF HookText, View
<1>2. /\ EnvelopeOf(c) = Derive(c) /\ s \in c.params[k] /\ s \notin EncodedSigns
      /\ s \in SignsAfter(c, k, MaxDecodePasses)
  <2>1. s \notin EncodedSigns
    BY DEF SharedSigns, EncodedSigns
  <2>2. c.layers \in Nat
    BY DEF IsCall
  <2> QED BY <1>1, <2>1, <2>2, PassesAssumption
         DEF SignsAfter, HookPasses, HookReadsLess, EnvelopeOf
<1>3. kinds \subseteq {"action", "path", "content", "other"}
  BY DEF IsCall, AllKinds
<1>4. k = "other" => kinds = {"other"}
  BY <1>1, <1>2 DEF FallbackSigns
<1>5. k \in ActionKinds(c)
  BY <1>1, <1>3, <1>4 DEF ActionKinds, AllKinds
<1>6. s \in Derive(c).action
  BY <1>1, <1>2, <1>5 DEF Derive, View
<1>7. ASSUME s \in PathSigns
      PROVE  s \in TargetPaths(Derive(c))
  <2>1. Derive(c).tool = c.tool
    BY DEF Derive
  <2>2. CASE c.tool \in WriteTools
    <3>1. k = "path"
      BY <1>1, <1>3, <1>4, <2>2
    <3>2. s \in Bears(c, {"path"})
      BY <1>2, <3>1 DEF Bears
    <3>3. s \in Derive(c).paths
      BY <1>7, <3>2 DEF Derive
    <3> QED BY <2>1, <2>2, <3>3 DEF TargetPaths
  <2>3. CASE c.tool \notin WriteTools
    <3>1. s \in Derive(c).paths \union Derive(c).textPaths
      BY <1>6, <1>7 DEF Derive
    <3> QED BY <2>1, <2>3, <3>1 DEF TargetPaths, AllPaths
  <2> QED BY <2>2, <2>3
<1> QED BY <1>2, <1>6, <1>7

(* For each of these some rule halts, or scores a review.                  *)
LEMMA HookSignsAreFound ==
  ASSUME PermissionsAreReviewed, NEW e, e.tool \in WriteTools \union ReadTools \union {"Bash"},
         NEW s \in SharedSigns, s \in e.action, s \in PathSigns => s \in TargetPaths(e),
         NEW taint
  PROVE  \E r \in RuleNames : \E f \in Registry(e, taint)[r] : f.halt \/ f.score \in ReviewAt..100
<1> DEFINE Halt(rule, on) == [rule |-> rule, on |-> on, score |-> 100, halt |-> TRUE]
           Speaks(r) == \E f \in Registry(e, taint)[r] : f.halt \/ f.score \in ReviewAt..100
<1>1. \A rule, on : Halt(rule, on).halt
  OBVIOUS
<1>2. \A rule, S : s \in S => Halt(rule, s) \in Halting(rule, e.action, S)
  BY DEF Halting
<1>3. \A rule, condition : condition => Halt(rule, rule) \in Finding(rule, 100, TRUE, condition)
  BY DEF Finding
<1> HIDE DEF Halt
<1>4. CASE s \in {"recursive_delete", "sql", "device", "fork_bomb"}
  <2>1. /\ s = "recursive_delete" => Halt("destructive.recursive_delete", s) \in RecursiveDelete(e)
        /\ s = "sql" => Halt("destructive.sql", s) \in SqlDestruction(e)
        /\ s = "device" => Halt("destructive.storage", s) \in StorageDestruction(e)
        /\ s = "fork_bomb" => Halt("destructive.fork_bomb", s) \in ForkBomb(e)
    BY <1>2 DEF RecursiveDelete, SqlDestruction, StorageDestruction, ForkBomb
  <2>2. /\ s = "recursive_delete" => Speaks("recursive_delete")
        /\ s = "sql" => Speaks("sql_destruction")
        /\ s = "device" => Speaks("storage_destruction")
        /\ s = "fork_bomb" => Speaks("fork_bomb")
    BY <1>1, <2>1 DEF Registry
  <2> HIDE DEF Speaks
  <2>3. \E r \in RuleNames : Speaks(r)
    BY <1>4, <2>2 DEF RuleNames
  <2> QED BY <2>3 DEF Speaks
<1>5. CASE s \in {"ungoverned", "kill", "hijack"}
  <2>1. /\ s = "ungoverned" => Halt("self_protect.ungoverned_harness", s) \in UngovernedHarness(e)
        /\ s = "kill" => Halt("self_protect.kill_governor", s) \in KillGovernor(e)
        /\ s = "hijack" => Halt("self_protect.interpreter_hijack", s) \in InterpreterHijack(e)
    BY <1>2 DEF UngovernedHarness, KillGovernor, InterpreterHijack
  <2>2. /\ s = "ungoverned" => Speaks("ungoverned_harness")
        /\ s = "kill" => Speaks("kill_governor")
        /\ s = "hijack" => Speaks("interpreter_hijack")
    BY <1>1, <2>1 DEF Registry
  <2> HIDE DEF Speaks
  <2>3. \E r \in RuleNames : Speaks(r)
    BY <1>5, <2>2 DEF RuleNames
  <2> QED BY <2>3 DEF Speaks
<1>6. CASE s \in {"settings_text", "settings_path"}
  <2>1. "settings_path" \in TargetPaths(e) \/ "settings_text" \in e.action
    BY <1>6 DEF PathSigns
  <2>2. Halt("self_protect.harness_config", "self_protect.harness_config")
          \in ModifyHarnessConfig(e)
    BY <1>3, <2>1, Zenon DEF ModifyHarnessConfig
  <2>3. Speaks("modify_harness_config") /\ "modify_harness_config" \in RuleNames
    BY <1>1, <2>2 DEF Registry, RuleNames
  <2> QED BY <2>3
<1>7. CASE s \in {"secret_name", "secret_path"}
  <2>1. TargetPaths(e) \intersect SecretPaths # {} \/ "secret_name" \in e.action
    BY <1>7 DEF PathSigns, SealedPaths, SecretPaths
  <2>2. Halt("self_protect.read_secrets", "self_protect.read_secrets") \in ReadGovernorSecrets(e)
    BY <1>3, <2>1, Zenon DEF ReadGovernorSecrets
  <2>3. Speaks("read_governor_secrets") /\ "read_governor_secrets" \in RuleNames
    BY <1>1, <2>2 DEF Registry, RuleNames
  <2> QED BY <2>3
<1>8. CASE s \in {"source_path", "anchor_path", "anchor_name"}
  <2>1. \/ TargetPaths(e) \intersect (SourcePaths \union SealedPaths) # {}
        \/ e.action \intersect OwnNames # {}
    BY <1>8 DEF PathSigns, SourcePaths, SealedPaths, OwnNames
  <2>2. \E f \in TouchOwnFiles(e) : f.halt
    <3> DEFINE sealed == TargetPaths(e) \intersect SealedPaths # {}
    <3>1. \/ Halt("self_protect.sealed_surface", "self_protect.sealed_surface") \in TouchOwnFiles(e)
          \/ Halt("self_protect.read_governor_files", "self_protect.read_governor_files")
               \in TouchOwnFiles(e)
          \/ Halt("self_protect.modify_governor", "self_protect.modify_governor")
               \in TouchOwnFiles(e)
      BY <1>3, <2>1, Zenon DEF TouchOwnFiles
    <3> QED BY <1>1, <3>1
  <2>3. Speaks("touch_own_files") /\ "touch_own_files" \in RuleNames
    BY <2>2 DEF Registry, RuleNames
  <2> QED BY <2>3
<1>9. CASE s = "chmod"
  <2> DEFINE f == [rule |-> "destructive.permissions", on |-> "chmod", score |-> 60, halt |-> FALSE]
  <2>1. f \in PermissionWidening(e)
    BY <1>9 DEF PermissionWidening, Scored
  <2>2. f.score \in ReviewAt..100
    <3>1. ReviewAt \in 1..100
      BY PolicyAssumption, Zenon DEF ValidPolicy
    <3> QED BY <3>1 DEF PermissionsAreReviewed
  <2> HIDE DEF f
  <2>3. Speaks("permission_widening") /\ "permission_widening" \in RuleNames
    BY <2>1, <2>2 DEF Registry, RuleNames
  <2> QED BY <2>3
<1> QED BY <1>4, <1>5, <1>6, <1>7, <1>8, <1>9 DEF SharedSigns

-----------------------------------------------------------------------------
(* The specification.                                                      *)

(* The call and its circumstances are those of the start; a verdict is     *)
(* decide()'s of them, and the hook's own answer is one of fallback()'s.   *)
VerdictInv ==
  /\ <<call, given>> \in Inputs
  /\ verdict # Unjudged =>
       verdict = [Judge(call, given.taint, given.raising) EXCEPT !.route = Decide(call, given)]
  /\ answer.by = "fallback" => answer.says \in FallbackAnswers(call)

(* No step after the start changes the call, and none changes a verdict or *)
(* an answer.                                                              *)
LEMMA VerdictInvariant == Spec => []VerdictInv
<1>1. Init => VerdictInv
  BY InputsAssumption DEF Init, VerdictInv, Waiting
<1>2. VerdictInv /\ [Next]_vars => VerdictInv'
  <2>1. SUFFICES ASSUME VerdictInv, [Next]_vars
                 PROVE  VerdictInv'
    OBVIOUS
  <2>2. CASE Evaluate
    BY <2>1, <2>2 DEF VerdictInv, Evaluate, Judged
  <2>3. CASE Relay
    BY <2>1, <2>3 DEF VerdictInv, Relay, Answer
  <2>4. CASE Reject
    BY <2>1, <2>4 DEF VerdictInv, Reject, Answer
  <2>5. CASE FallBack
    BY <2>1, <2>5 DEF VerdictInv, FallBack, Answer
  <2>6. CASE BreakDown
    BY <2>1, <2>6 DEF VerdictInv, BreakDown, Answer
  <2>7. CASE UNCHANGED vars
    BY <2>1, <2>7 DEF VerdictInv, vars
  <2> QED BY <2>1, <2>2, <2>3, <2>4, <2>5, <2>6, <2>7 DEF Next
<1> QED BY <1>1, <1>2, PTL DEF Spec

(* They are a call and circumstances, of the kinds there are.              *)
LEMMA InputsTyped ==
  ASSUME VerdictInv
  PROVE  IsCall(call) /\ given \in Givens
BY InputsAssumption DEF VerdictInv

(* The fields of a verdict.                                                *)
LEMMA VerdictFields ==
  ASSUME VerdictInv, Judged
  PROVE  /\ verdict.route = Decide(call, given)
         /\ verdict.action = Judge(call, given.taint, given.raising).action
         /\ verdict.findings = Judge(call, given.taint, given.raising).findings
BY DEF VerdictInv, Judged, Judge

(* Outside a window, a call on which some rule halts or raises is refused, *)
(* whatever the other rules, its label, the policy and the session say.    *)
THEOREM FailuresHalt == Spec => []FailureHalts
<1>1. VerdictInv => FailureHalts
  <2>1. SUFFICES ASSUME VerdictInv, Judged, ~given.window,
                        given.raising # {} \/ \E f \in verdict.findings : f.halt
                 PROVE  verdict.route = "HALT"
    BY DEF FailureHalts
  <2>2. CASE given.raising # {}
    <3>1. PICK r \in given.raising : TRUE
      BY <2>2
    <3>2. r \in RuleNames
      BY <2>1, <3>1, InputsTyped DEF Givens
    <3> QED BY <2>1, <3>1, <3>2, RaisingRefuses, DecideKeeps, VerdictFields
  <2>3. CASE \E f \in verdict.findings : f.halt
    <3>1. \E f \in Judge(call, given.taint, given.raising).findings : f.halt
      BY <2>1, <2>3, VerdictFields
    <3>2. Judge(call, given.taint, given.raising).route = "HALT"
      BY <3>1, HaltingFindingRefuses, Zenon
    <3> QED BY <2>1, <3>2, DecideKeeps, VerdictFields
  <2> QED BY <2>1, <2>2, <2>3
<1> QED BY <1>1, VerdictInvariant, PTL

(* An action that leaves the machine is never allowed by itself, whatever  *)
(* the gate matrix says of its label.                                      *)
THEOREM LeavingNeedsReview == Spec => []LeavingIsReviewed
<1>1. VerdictInv => LeavingIsReviewed
  <2>1. SUFFICES ASSUME VerdictInv, Judged, "leaves" \in EnvelopeOf(call).normalized,
                        verdict.action \notin Maintainable
                 PROVE  verdict.route # "ALLOW"
    BY DEF LeavingIsReviewed
  <2>2. Judge(call, given.taint, given.raising).route # "ALLOW"
    BY <2>1, LeavingJudged
  <2>3. Judge(call, given.taint, given.raising).action \notin Maintainable
    BY <2>1, VerdictFields
  <2> QED BY <2>1, <2>2, <2>3, DecideKeeps, VerdictFields
<1> QED BY <1>1, VerdictInvariant, PTL

(* No window lifts a call that touches the sealed surface, and nothing     *)
(* allows or defers it: its finding halts and its label is looked up       *)
(* before the two that a window lifts.                                     *)
THEOREM SealedSurfaceHolds == Spec => []SealedSurfaceIsFinal
<1>1. VerdictInv => SealedSurfaceIsFinal
  <2>1. SUFFICES ASSUME VerdictInv, "self_protect.sealed_surface" \in RulesFound
                 PROVE  verdict.route = "HALT" /\ verdict.action \notin Maintainable
    BY DEF SealedSurfaceIsFinal
  <2> DEFINE env == EnvelopeOf(call)
             found == EvaluateAll(env, given.taint, given.raising)
             j == Judge(call, given.taint, given.raising)
  <2>2. Judged
    BY <2>1 DEF RulesFound, RuleIds, Judged, Unjudged
  <2>3. verdict.findings = found
    BY <2>1, <2>2, VerdictFields DEF Judge
  <2>4. PICK f \in found : f.rule = "self_protect.sealed_surface"
    BY <2>1, <2>3 DEF RulesFound, RuleIds
  <2>5. f.halt
    <3>1. PICK r \in RuleNames :
            f \in IF r \in given.raising THEN {RuleError(r)} ELSE Registry(env, given.taint)[r]
      BY <2>4 DEF EvaluateAll
    <3>2. CASE r \in given.raising
      BY <3>1, <3>2 DEF RuleError
    <3>3. CASE r \notin given.raising
      BY <2>4, <3>1, <3>3, SealedFindingHalts
    <3> QED BY <3>2, <3>3
  <2>6. j.findings = found /\ j.action = Classify(env, RuleIds(found))
    BY DEF Judge
  <2>7. j.route = "HALT"
    BY <2>4, <2>5, <2>6, HaltingFindingRefuses, Zenon
  <2>8. j.action \notin Maintainable
    <3>1. "self_protect.sealed_surface" \in RuleIds(found)
      BY <2>4 DEF RuleIds
    <3> QED BY <2>6, <3>1, SealedLabelFirst
  <2> QED BY <2>1, <2>2, <2>7, <2>8, DecideKeeps, VerdictFields
<1> QED BY <1>1, VerdictInvariant, PTL

(* Where the floors rise with the taint so does every verdict.             *)
THEOREM TaintNeverHelps ==
  ASSUME RisingFloors
  PROVE  Spec => []TaintOnlyTightens
<1>1. VerdictInv => TaintOnlyTightens
  <2>1. SUFFICES ASSUME VerdictInv, Judged, NEW t \in given.taint..INSTRUCTED
                 PROVE  AtLeast(Decide(call, [given EXCEPT !.taint = t]), verdict.route)
    BY DEF TaintOnlyTightens
  <2>2. verdict.route = Decide(call, given)
    BY <2>1, VerdictFields
  <2>3. IsCall(call) /\ given \in Givens
    BY <2>1, InputsTyped
  <2> QED BY <2>1, <2>2, <2>3, TaintTightens
<1> QED BY <1>1, VerdictInvariant, PTL

(* Where the gates follow the order of the labels, no sign helps a call.   *)
THEOREM EvidenceNeverHelps ==
  ASSUME OrderedGates
  PROVE  Spec => []EvidenceOnlyTightens
<1>1. VerdictInv => EvidenceOnlyTightens
  <2>1. SUFFICES ASSUME VerdictInv, Judged, ~given.window,
                        NEW kind \in DOMAIN call.params, NEW s \in Signs,
                        IsCall(WithSign(kind, s))
                 PROVE  AtLeast(Decide(WithSign(kind, s), given), verdict.route)
    BY DEF EvidenceOnlyTightens
  <2>2. verdict.route = Decide(call, given)
    BY <2>1, VerdictFields
  <2>3. IsCall(call) /\ given \in Givens
    BY <2>1, InputsTyped
  <2>4. PICK c2 : c2 = [call EXCEPT !.params[kind] = @ \union {s}]
    OBVIOUS
  <2>5. IsCall(c2)
    BY <2>1, <2>4 DEF WithSign
  <2>6. Wider(EnvelopeOf(c2), EnvelopeOf(call))
    BY <2>3, <2>4, <2>5, SignWidens
  <2>7. AtLeast(Decide(c2, given), Decide(call, given))
    BY <2>1, <2>3, <2>5, <2>6, EvidenceTightens
  <2> QED BY <2>2, <2>4, <2>7 DEF WithSign
<1> QED BY <1>1, VerdictInvariant, PTL

(* Where tools that run commands take nothing but commands, no encoding    *)
(* gets one allowed that is not allowed as it stands: what is decoded is   *)
(* judged as the plain text is, a decoy before it or not, and what is not  *)
(* is reviewed for that, if nothing stands before it.                      *)
THEOREM EncodingNeverHelps ==
  ASSUME ShellCalls, ResidueIsReviewed
  PROVE  Spec => []EncodingNeverAllows
<1>1. VerdictInv => EncodingNeverAllows
  <2>1. SUFFICES ASSUME VerdictInv, Judged, call.layers = 0,
                        Bears(call, AllKinds) \intersect EncodedSigns = {},
                        ToolClass(call.tool) = "exec", verdict.route # "ALLOW",
                        NEW n \in 1..(MaxDecodePasses + 1), NEW d \in BOOLEAN,
                        n <= MaxDecodePasses \/ ~d
                 PROVE  Decide(Encoded(n, d), given) # "ALLOW"
    BY DEF EncodingNeverAllows
  <2>2. verdict.route = Decide(call, given)
    BY <2>1, VerdictFields
  <2>3. IsCall(call) /\ given \in Givens
    BY <2>1, InputsTyped
  <2>4. DOMAIN call.params \subseteq {"action", "other"}
    BY <2>1 DEF VerdictInv, ShellCalls
  <2>5. PICK c2 : c2 = [call EXCEPT !.layers = n, !.decoy = d]
    OBVIOUS
  <2>6. Decide(c2, given) # "ALLOW"
    BY <2>1, <2>2, <2>3, <2>4, <2>5, EncodedNotAllowed
  <2> QED BY <2>5, <2>6 DEF Encoded
<1> QED BY <1>1, VerdictInvariant, PTL

(* What the hook has refused for want of a governor, the governor does not *)
(* allow, encoded or not and of any size, unless something in it looks     *)
(* dangerous to the hook alone.                                            *)
THEOREM RecordsAgree ==
  ASSUME ReadAlike, PermissionsAreReviewed, HookReadsLess
  PROVE  Spec => []LateVerdictAgrees
<1>1. VerdictInv => LateVerdictAgrees
  <2>1. SUFFICES ASSUME VerdictInv, answer = [by |-> "fallback", says |-> "deny"],
                        HookText(call) \intersect LooseSigns = {}, Judged, ~given.window,
                        call.tool \in WriteTools \union ReadTools \union {"Bash"}
                 PROVE  verdict.route # "ALLOW"
    BY DEF LateVerdictAgrees
  <2> DEFINE e == EnvelopeOf(call)
  <2>2. verdict.route = Decide(call, given)
    BY <2>1, VerdictFields
  <2>3. IsCall(call)
    BY <2>1, InputsTyped
  <2>4. HookText(call) \intersect SharedSigns # {}
    <3>1. "deny" \in FallbackAnswers(call)
      BY <2>1 DEF VerdictInv
    <3>2. HookText(call) \intersect FallbackSigns # {}
      BY <3>1 DEF FallbackAnswers
    <3> QED BY <2>1, <3>2 DEF FallbackSigns
  <2>5. CASE call.size # "fits"
    BY <2>2, <2>3, <2>5, OversizedRefused
  <2>6. CASE call.size = "fits"
    <3>1. /\ call.tool \in WriteTools
               => "path" \in DOMAIN call.params /\ "action" \notin DOMAIN call.params
          /\ "other" \in DOMAIN call.params /\ DOMAIN call.params # {"other"}
               => call.params.other \intersect FallbackSigns = {}
      BY <2>1 DEF VerdictInv, ReadAlike
    <3>2. PICK s \in SharedSigns : /\ s \in e.action
                                   /\ s \in PathSigns => s \in TargetPaths(e)
      BY <2>3, <2>4, <2>6, <3>1, HookSignsAreRead
    <3>3. e.tool = call.tool
      BY <2>6 DEF EnvelopeOf, Derive
    <3> HIDE DEF e
    <3>4. PICK r \in RuleNames : \E f \in Registry(e, given.taint)[r] :
            f.halt \/ f.score \in ReviewAt..100
      BY <2>1, <3>2, <3>3, HookSignsAreFound
    <3>5. RouteFromScore(EvaluateAll(e, given.taint, given.raising)) # "ALLOW"
      BY <3>4, ScoredIsReviewed
    <3>6. Decide(call, given) # "ALLOW"
      BY <2>1, <3>5, ReviewedAtLeast DEF e, Found
    <3> QED BY <2>2, <3>6
  <2> QED BY <2>5, <2>6
<1> QED BY <1>1, VerdictInvariant, PTL
=============================================================================
