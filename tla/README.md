# A verification of Runwall

Runwall puts a gate between an AI coding agent and the machine it works on. A
hook in the agent's harness sends every tool call to a local daemon, the
*governor*, which answers ALLOW, REVIEW or HALT, asks a human when the answer
is REVIEW, and records everything in a hash-chained ledger. This directory
holds TLA+ models of the governor, their model-checking configurations, and
theorems about them with proofs checked by TLAPS.

Paths below are relative to the repository. `tlc -config X.cfg M` checks a run,
`tlapm M.tla` checks the proofs of a module.

## 1. Inventory

| Component | State | Operations | Shared with |
|---|---|---|---|
| approvals (`runwall/approvals.py`) | `_pending` (cards), each card's status, operator, event; `_grants` with uses and expiry | open, wait, resolve; find, consume, issue a grant; expire_stale, prune | call threads, operators' request threads, housekeeping |
| perimeter (`runwall/state.py`) | rung, reasons, disarm, maintenance window | set_state, to_safe, rearm, disarm, begin/end_maintenance; floor, disarm_covers, maintenance_allows | call threads read it, request threads and `_record` write it |
| gate (`runwall/gate.py`) | none of its own | decide | reads rules, policy, session, perimeter; writes the session's denial memory and the window's count |
| governor (`runwall/daemon.py`) | threads, subscribers, counters | handle_decide, resolve_approval, the console's commands, housekeeping | owns all of the others |
| session memory (`runwall/session.py`) | denied intents, taint, egress bytes and domains, deques of reviews and approvals | note_user_turn, note_external_content, record_*, taint_floor, budget_breaches, prior_denial, fatigue_signal | the call threads of one session, without a lock |
| ledger, integrity (`runwall/ledger.py`, `runwall/integrity.py`) | ledger file, anchor, sequence counter, spool | append, note, ingest_spool, verify, next_seq, anchor_head, check_anchor | every thread; the hook appends to the spool from another process |
| operators (`runwall/auth.py`) | sessions with their step-ups, failure count, end of the lockout | login, logout, step_up, consume_step_up, operator_present | request threads; the gate asks for presence |
| policy (`runwall/policy.py`) | immutable after load | load, validate, pin | gate |
| rules, classifier, blast radius, envelope (`runwall/rules/`, `classify.py`, `blast.py`, `envelope.py`, `interpreters.py`) | none | pure functions of the call | gate |
| hook (`hook/runwall_hook.py`) | none; one process per call | ask, fall back, spool | governor over HTTP, spool file |
| command line, harden, red team, claims, demo, console | none that matters here | scripting around the above | HTTP |

How they interact: the hook posts a call; `handle_decide` runs in a thread of
its own, calls `gate.decide`, which reads session and perimeter, then looks for
a standing grant, then opens a card and blocks on it. Operators act through
request threads (approve, deny, disarm, maintenance, rearm, kill). Housekeeping
expires and prunes cards. Every decision is appended to the ledger; if that
fails the perimeter drops to SAFE.

What is hard: all of these threads share memory with one short lock per object
and none across objects. Most mistakes would be one thread's acting on what
another has since changed: a wait running out as the operator answers, a grant
found and then consumed, a perimeter read several times in one decision, a
console command made of two steps. Time matters (waits, ceilings, expiring
grants, disarms and windows), and so do restarts, which forget everything held
in memory. `PROJECT.json` lists each hazard at its line.

What makes each part correct:

* approvals: nothing under review runs without a human's approval of its own
  intent; classes that may never be granted are not; a denial given in time sticks,
  a timeout is not a denial; grants die; everything is answered and nothing waits forever.
* perimeter: a HALT is final; relief is only what an operator asked for and no
  more; a rung is shown with its own reasons.
* gate: more evidence or more taint never gives a milder route; a rule that
  crashes or halts refuses; what leaves the machine is reviewed; a command that is
  not allowed plain is not allowed encoded, as far as the governor decodes and,
  with nothing undecodable before it, once further (a base64 DNS label is the
  exception); the sealed surface is out of reach of a maintenance window.
* ledger: recorded events are chained whatever fails, the anchor is never ahead of
  the ledger, a decision is recorded once or the perimeter is SAFE, what the hook
  parked in the governor's spool is kept and stands in its gap, sequence numbers are distinct, an alarm
  has a cause.
* operators: a step-up that has been consumed authorises nothing more; a login
  that begins during a lockout comes to nothing.
* session: a verdict answers for the lowest taint of the call's lifetime, whoever
  changes it meanwhile; budgets hold for the session, not for each call; every
  request ends.
* hook: what it refuses without a governor, for a danger that the governor's rules
  know too, is not on record as allowed.

## 2. Plan

Done, in this order:

1. `Approvals`, with the abstract `HumanGate`, its proofs and its refinement.
2. `Perimeter` with its proofs.
3. `DecisionLedger` with its proofs.
4. `Envelope`, `Classifier`, `RulePacks`, `Evaluation`: the pure part of the gate,
   each extending the one before; `HookClient`; and `GateDecision`, which puts a
   call before both, with its proofs.
5. `SessionMemory` with its proofs.
6. `OperatorAuth` with its proofs.

What would come next: `Approvals` and `Perimeter` composed in one module, for what
crosses them (a kill while a card is open, a maintenance window over a remembered
denial, an append that fails), which is too large for TLC as the two stand; and an
abstract append-only log that `DecisionLedger` implements.

## 3. Modules

### HumanGate

What the review path promises, with no threads, cards or grants. State: the set
of intents a human has approved so far and the outcome of each call. A call
becomes ALLOW if it is free or its intent is approved; it may become HALT at any
time; neither changes again. The approved set only grows.

### Approvals

`runwall/approvals.py` with the threads of `runwall/daemon.py` that share it.

| TLA+ | code |
|---|---|
| `store`, `status`, `operator`, `event`, `age` | `ApprovalBroker._pending`; the fields and the age of a `PendingApproval` |
| `grants`, `usesLeft`, `ttl` | `ApprovalBroker._grants`; `Grant.uses_left`, `Grant.expires` |
| `denialLeft` | `SessionState.denied_intents`, as the time for which an entry still counts |
| `pc`, `found`, `seen`, `decision` | the locals of a `handle_decide` thread |
| `rpc`, `req` | the locals of a `resolve_approval` thread |
| `hk` | where housekeeping is in `expire_stale` |
| `Decide`, `FindGrant`, `ConsumeGrant`, `OpenCard`, `Wake`, `ActApproved`, `ActDenied`, `ActSuspend` | `decide`, `find_grant`, `consume_grant`, `open`, the return of `wait`, the three branches of `_await_operator` |
| `Check`, `SetStatus`, `Publish`, `IssueGrant` | the steps of `resolve_approval` and `PendingApproval.resolve` |
| `HkCheck`, `HkSetStatus`, `HkPublish`, `Prune` | `expire_stale`, `prune` |
| `Tick` | time |

One action is one access to shared memory that another thread can observe. What
the broker's lock makes atomic is one action; `expire_stale` keeps the lock over
several writes that lock-free threads can see, so it is several actions during
which the lock is taken (`LockFree`). `expire_stale` is modelled one card at a
time, with the lock released in between, which allows more interleavings than
the code has. A call opens one card, named after it. `age` and the other
counters saturate just above the largest bound they are compared with. A thread
may be scheduled arbitrarily late, so `Wake` may read a status long after the
budget was spent. `decide` stands for the whole gate: its route without denial
memory is the constant `GateRoute`, presence of an operator is a free choice.
The relief that `Perimeter` studies (a maintenance lift, which overrides even a
remembered denial) is left out here: `DenialSticks` speaks of calls it does not
reach.

### Perimeter

`runwall/state.py` as `runwall/gate.py` reads it and `runwall/daemon.py` moves it.

| TLA+ | code |
|---|---|
| `rung`, `reasons` | `Perimeter._state`, `_reasons` by kind of reason |
| `disarm`, `window` | `_disarm`, `_maintenance`, with the command each came from and the ticks left; an expired disarm stands until someone reads the state |
| `refused` | the intents `prior_denial` would report |
| `pin` | what `policy.load` found of the manifest |
| `pc`, `route` | where `decide` is with a call, and the route so far |
| `cmd` | the console's commands, each served once |
| `ReadPrior`; `ReadRung`, `ReadInfo`, `ReadStanding`, `ReadScope`; `Lift`; `ReadCap`, `Cap`; `Settle`; `Record` | `prior_denial`; the four reads of `floor`, the last two without the lock; `maintenance_allows`; the two reads of the cap; `record_denial`; `_record` |
| `Disarm`, `Maintain`, `EndRead`, `EndClose`, `Rearm`, `Kill` | the commands; `end_maintenance` in its two steps |
| `Tick`, `Look`, `Forget`, `Restart` | time; a read of the state that drops an expired disarm (`InForce`, `Shown`); the end of the denial memory; a new process |

The floors that do not depend on the perimeter are one constant route per call,
`Base`. Their reads precede `floor` in the code and touch nothing the module changes.
`floor` tests `self._disarm` and then asks it for its scope, with no lock: a rearm in
between makes the second read an `AttributeError`, with which the call ends
(`failed`), the request in HTTP 500 and the hook in a refusal. How long a disarm
lasts is in the request and has no upper bound in the code, so `DisarmTimes` is any
set of positive times. `Restart` may come at any time, loses what is in memory, and
finds any pin. DEGRADED is in `RungFloor` because it is in `floor`; no code of the
governor enters it. Notes to the ledger are left out except for the count
`end_maintenance` reports. What a REVIEW turns into is in `Approvals`.

### DecisionLedger

`runwall/ledger.py` with `runwall/integrity.py`, over the life of the governor's
process as `runwall/cli.py` starts and stops it, and with the hook's spool.

| TLA+ | code |
|---|---|
| `log`, `ragged` | the ledger file, line by line; whether its last line lacks the newline |
| `anchor`, `seq`, `spool` | `chain.anchor`, the file `seq`, `spool.jsonl` of the governor's state directory |
| `SharedState` | whether `RUNWALL_STATE` takes the hook to that directory |
| `gov`, `todo` | whether a governor runs, and what its main thread has still to append (an ingestion, the start note, the stop note) |
| `lock` | `Ledger._lock`, with the `event["hash"]` of the thread in `append` |
| `safe` | that `_record` has dropped the perimeter to SAFE in this process |
| `pc`, `seqOf` | where a thread of `handle_decide` or of a command is; `env.seq` |
| `hpc` | what became of a call that the hook decided alone |
| `ver` | the locals of `Ledger.verify`; `calm` and `len` are the model's own |
| `WriteLine`, `WriteAnchor` | the two writes of `append`, each with its failure: `FailLine`, `FailAnchor` |
| `DrawSeq`, `ThreadLine`, `ThreadAnchor`, `CallFails` | `next_seq`; `_record` |
| `Act`, `CommandFails` | a command takes effect; its note fails |
| `Start`, `MainLine`, `MainAnchor`, `DropSpool`, `Serve` | `Governor.__init__` with `ingest_spool` |
| `Stop`, `Exit`, `Crash` | Ctrl-C with its note; the end of the process; a kill, or an exception in the main thread |
| `Park` | `_spool` of the hook |
| `Walk`, `ReadAnchor`, `Conclude` | `integrity.verify`; the two reads of `check_anchor` |

A hash is modelled by what it commits to, the sequence of records up to and with
its own: two hashes are equal exactly if the chains they close are. Redaction and
the fields of an event are left out; a record is the name of the call, command,
hook call or note it is about. A write can be cut short: what remains is a line
that does not parse, or one that does and lacks only its newline; the next line
then joins it and neither parses (`Extended`). The code never notices that: the
second append reports success. The properties that speak of records are
therefore about ledgers in which every line parses (`Intact`), which is what
`verify` reports. The end of the process, clean or not, takes daemon threads in
the middle of an append with it; their calls are `lost`. A hook that denies a
call parks nothing, and one whose write to the spool fails drops the record.
A verifier reads the whole file in one step. The hook parks in a spool of its own
state directory, by default that of the user's home, while the governor's is in
its checkout, and `hook-install` does not say otherwise: unless `SharedState`, `Park`
leaves the governor's spool alone. Two governors at once, a spool line
that does not parse (it stops every later start) and a missing counter file
(numbers start again at 1) are outside the model.

### Envelope, Classifier, RulePacks, Evaluation

The part of `gate.decide` that is a function of the call.

| Module | code |
|---|---|
| `Envelope` | `runwall/envelope.py`: which parameters each view of a call is made of (`View`, `TextKinds`, `ActionKinds`), decoding pass by pass and what it leaves (`SignsAfter`, `LayersOf`, `DecodePasses`, `ResidualEncoding`), payloads over the limit (`Oversized`), declared and mentioned paths (`TargetPaths`) |
| `Classifier` | `runwall/classify.py`: the labelled rules in their order, then the tool, then the text in its order; tool classes of `policy/default.yml` |
| `RulePacks` | `runwall/rules/`: one operator per registered rule, with what it looks at, its score and whether it halts; `EvaluateAll` with the rules that raise |
| `Evaluation` | `runwall/blast.py` (`Scope`, `Reversibility`, `DataClasses`, `FansOut`, `Confidence`, `FloorRoute`); `gate.strictest`, `route_from_score`, `gate_for_action`; the verdict on the call alone (`Judge`) and with session and perimeter (`Decide`) |

A *sign* stands for one pattern that rules look for in a text, or for one class of
path, so a text is the set of signs it bears. That a regular expression matches
what it should is outside the model; which view of the call it is applied to,
with what exceptions, and what follows from it, is the model. A pattern whose
finding adds to the score by itself is a sign of its own, patterns that halt
share one per table (except that a DNS label in base64, which a decoding deletes, is
apart from one in which nothing can be decoded). `layers` counts the base64 encodings
around a text. Before the last of them is off, the text bears no signs; then it bears
its own; one pass later the signs that are encodings themselves (`EncodedSigns`) are
gone. `decoy` puts a run of letters before the encoded part that looks encoded and is
not, the case in which `residual_encoding` looks no further. A flag such as
`-EncodedCommand` outermost is undone in the same pass as the encoding it announces
and what is bare base64 inside, so there a call has one layer fewer than encodings. A path is never
encoded. Confidence is in hundredths. What `_validate()` of
`runwall/policy.py` guarantees of a policy is the assumption `PolicyAssumption`.
The score of a call is the sum of the scores of its findings; `Score` counts it, one
point for each unit of a finding (`Points`), because the provers can reason about the
size of a set and not about a fold. `Givens` is what session, perimeter and failing
rules may be like.
`Evaluation` takes the perimeter as armed: its rungs are in `Perimeter`.

### HookClient, GateDecision

| TLA+ | code |
|---|---|
| `call`, `given` | the payload; what session, policy failure and perimeter are like |
| `verdict`, `answer` | the governor's decision; what the hook prints, and on whose account |
| `Evaluate` | `decide` |
| `Relay`, `Reject`, `FallBack`, `BreakDown` | the ways `main()` of `hook/runwall_hook.py` can end: the governor's answer, an HTTP error, no answer in time (`fallback`), an answer that does not parse |
| `HookText`, `SharedSigns`, `LooseSigns`, `FallbackAnswers` | what `fallback` reads and decodes (`_decode`); the patterns of `FALLBACK_DENY`, those that a rule of the governor has too and those where they are looser; what `fallback` may answer |

The hook may give up before, or after, the governor has judged the call, and
the governor goes on. The hook's patterns are no copy of the rules: it refuses any
`settings.json`, any directory `runwall/policy`, and names inside longer names. A
*lookalike* is what it refuses and no rule matches. What the hook answers to a text that
bears a sign is a choice, because `_decode` takes any long run of letters, digits and
slashes for base64 and tries UTF-16 first, under which almost anything is text, so that
it may spoil the very text it looks at. A behaviour is one call; the properties compare its
verdict with `Decide` of other calls (another encoding, one more sign) or of the
same call in other circumstances. `IsCall` says what a call may be: any parameters
with any signs, except that a call in which nothing is encoded has no decoy and a path
is not base64. Seven definitions (`RisingFloors`, `OrderedGates`, `ResidueIsReviewed`,
`PermissionsAreReviewed`, `HookReadsLess`, `ShellCalls`, `ReadAlike`) say what
the shipped policy and the tools of the harness satisfy and no code asks for;
theorems that need one name it, and the `ASSUME` in `MCGateDecision` has TLC
evaluate all seven for the instance of the runs.

### SessionMemory

`runwall/session.py`, as the threads of `handle_decide` and `/api/taint` share it.

| TLA+ | code |
|---|---|
| `taint`, `lastTurn`, `bytes`, `domains`, `recent` | the fields of `SessionState`; an entry of a deque is its age |
| `pc`, `route`, `read` | where the thread of a call is, the floors it has met, `egress_bytes` as `+=` read it |
| `post` | the threads of `/api/taint` |
| `Arrive`, `SetTurn`, `ClearTaint` | `note_user_turn`: its test and its two assignments |
| `ReadBytes`, `AddBytes`, `AddDomain` | `record_egress`, called by a rule before any verdict |
| `RunRules`, `ReadTaintFloor`, `CheckEgress`, `CheckReviews` | the rule that reads the taint; `taint_floor`; `budget_breaches` |
| `TrimReviews`, `TrimApprovals` | `_trim`: the test, the look at the first entry, the `popleft`, each an access of its own, with the `IndexError` |
| `Verdict`, `Finish`, `Approve`, `Refuse` | the end of `decide` with `record_review`; the wait and `record_approval` |
| `ReadTaint`, `Expose`, `Instruct` | `note_external_content` |
| `Tick` | time, for the deques |

Each step is one access, since a session has no lock. `RouteAt` gives the route
of everything in `decide` that the module does not study, by taint; that it does
not fall with taint (`RoutesAssumption`) is proved of `Judge`, for every policy, as
`JudgeRisesWithTaint` in `EvaluationProof`. That the floors do not fall either
(`RisingFloors`) is true of the shipped policy and not checked by `_validate()`: the
theorem that needs it supposes it, and `MCSessionMemory` has TLC evaluate it. `least`
is an observation of the model.

### OperatorAuth

`runwall/auth.py` with the endpoints of `runwall/daemon.py` that need an operator.

| TLA+ | code |
|---|---|
| `live`, `issued`, `stepUpUntil`, `failed`, `lockedUntil` | `OperatorStore._sessions`, `_failed`, `_locked_until` |
| `CheckLockout`, `VerifyFactors`, `CountFailure`, `IssueSession` | `login`, which takes the lock twice |
| `Admit` | `_require_operator` with `session` |
| `FindSession`, `VerifyCode`, `StepUp` | `step_up`; a session that has gone by then is a `KeyError` |
| `Authorise`, `ConsumeStepUp`, `Serve` | `has_step_up` and the checks around it; `consume_step_up` and the command; the commands that need only a session |
| `Logout`, `Tick` | `logout`; time |

A code is known by when it was read off. `locks`, `codes`, `spent` and `basis` are
observations: when lockouts began, how many step-ups a session has had, the one
that was last consumed, and what a command saw of the two.

## 4. Runs

Every constant is small because every property speaks of one or two calls, one
or two operators and one grant, disarm or failure at a time; each instance is
the smallest in which the interfering parties all exist, or one more.

| Run | Instance | Shows |
|---|---|---|
| `approvals_operators` | two calls of one intent, one of an always-denied class; two requests | `CardTracksCall`, `NoGrantForDeniedClass`, `OnlyRefusalsAreRemembered`, `DenialSticks` under every interleaving of timeouts, answers, expiry and pruning |
| `approvals_grants` | three calls of one intent, one request | `TypeOK`, `SpentGrantIsDead`: three calls may hold one single-use grant at once; its uses never fall below zero, where it would never run out, and once spent it stays dead |
| `approvals_intents` | calls of two intents, one of them free; fair threads | `ApprovedBeforeRun`, `ImplementsHumanGate`, `EveryCallAnswered`, `NothingWaitsForever` |
| `perimeter_commands` | a push under review and a patch of the governor, two commands of any kind | `TypeOK`, `ReliefHasAnOwner`, `ReasonsMatchRung`, `HaltIsFinal` |
| `ledger_records` | two calls, a command, a hook call that parks where the governor reads, one failure, two starts; fair threads | `TypeOK`, `ChainHolds`, `RecordedOnce`, `GapIsMarked`, `SpooledIsKept`, `SpooledOnce`, `SeqIsUnique`, `RecordedOrSafe`, `EveryCallFinishes` |
| `ledger_verified` | a call, a command, a hook call and a verifier, one failure, two starts | `AnchorIsBehind`, `CalmAlarmHasCause` |
| `evaluation_calls` | every shell command with at most two signs, every other tool with a path, contents or an unknown parameter of one sign; one sign behind up to five encodings, with a decoy and without, or in an oversized payload; each rule failing; the session and window as listed below | `FailureHalts`, `SealedSurfaceIsFinal`, `LeavingIsReviewed`, `EncodingNeverAllows`, `EvidenceOnlyTightens`, `TaintOnlyTightens`, `LateVerdictAgrees` |
| `session_memory` | two calls, one of which opens a user turn, and two posts of external content; budgets of one; fair threads | `TypeOK`, `VerdictMatchesTaint`, `BudgetBoundsDomains`, `EveryCallEnds` |
| `operator_auth` | four logins, two of which know the factors, a step-up, a privileged command and an approval on one session | `TypeOK`, `StepUpIsSpent`, `LockedOutStaysOut` |

Bounds. In `Approvals`: a wait of `Budget` = 1 tick, `Ceiling` = 2, `Keep` = 2,
`GrantTTL` = 1, `DenialWindow` 1 or 2, `MaxUses` = 1: each timer can run out before,
between and after every step of a thread, and their order (wait < ceiling <=
keep) is the code's. In `Perimeter`: windows of one tick and disarms of one
or two, so that either can end first, which two commands can replace while they run. In `DecisionLedger`: `MaxFaults` = 1, since a
failure leaves its mark on disk and everything after it meets that mark, and
`MaxStarts` = 2, the start that fails or is stopped and the one that finds what
it left; a start that crashes before its note does not count against the bound,
so an ingestion can be cut and repeated. In `GateDecision` the
calls are enumerated: pairs of signs are what it takes for a label or the silence
of one rule to hide the finding of another, `EvidenceOnlyTightens` adds a third,
and one layer more than `MaxDecodePasses` is what nothing undoes. Commands of one
sign meet every level of taint in and out of a window, and every combination of
remembered denial, broken budget and presence; pairs meet an untainted session
in and out of a window; the others an untainted and an exposed one. The policy is
the shipped one. In `SessionMemory` each budget is 1 and the deques begin with one entry about
to leave the window, so two calls can race for it and break a budget together;
the window is one tick. In `OperatorAuth` two failures lock, so two guesses can
lock out while a good login is under way, and every lifetime is one or two ticks of
a clock that stops at `MaxNow` = 2; guesses are symmetric. The theorems need none of
these values.
Deadlock checking stays on where every state has a successor by the clock, a
command, a restart or a verifier; `ledger_records`, the `evaluation` runs,
`session_memory` and `operator_auth` end when every call or request is done.

Runs that TLC refutes, each stating what a comment or document of the repository
says (`findings` in `PROJECT.json` quotes it):

| Run | What happens |
|---|---|
| `perimeter_kill` | after the kill switch, a disarm that was in force lets a write through |
| `ledger_alarm` | an append between a verifier's two reads is reported as a rewritten ledger |
| `evaluation_sealed` | a command that unhooks the harness (`disable_hook`) is labelled `modify_governor`, and a maintenance window lifts that label, so in a window it is allowed, although removing the hook is said to be no maintenance |

Seen while modelling, and plain from the code without a run.

* Approvals: a waiter whose budget is spent overwrites an answer that has just come
  with SUSPENDED (`daemon.py:176`); `resolve` publishes the status before the
  operator, so an ALLOW can be recorded in nobody's name (`approvals.py:66`);
  several calls can find one single-use grant before any consumes it, and all run
  (`daemon.py:133`); a denial after the wait has ended is not remembered, since only
  the waiter records denials (`daemon.py:203`); `rewrite_history` is always denied
  to grants and yet gated REVIEW, so an approval runs it (`policy/default.yml:55`).
* Perimeter: an empty scope disarms every project (`state.py:113`); in SAFE a
  disarm of one project lifts the floor for the others (`state.py:272`); `rearm`
  leaves SAFE on a mismatched policy (`daemon.py:275`); `end_maintenance` reads the
  count before it closes the window, so its note can name too few actions, where the
  documentation says "every action counted and logged" (`daemon.py:262`,
  `README.md:184`); a disarm may be asked for as long as one likes, while a window is
  clamped (`daemon.py:557`).
* Ledger: sequence numbers in the ledger decrease when a call under review is
  overtaken (`daemon.py:121`), and notes carry number 0; as installed, the hook parks in
  `~/.runwall/spool.jsonl` and the governor reads `.runwall/spool.jsonl` of its
  checkout (`runwall_hook.py:204`, `ledger.py:83`, `cli.py:246`), so that what the hook
  decides alone is in no ledger, where `README.md:165` promises an explicit gap marker;
  with one spool for both, a record that the hook parks during an ingestion is renamed
  away unread (`ledger.py:177`).
* Operators: two commands that both check before either consumes share one
  step-up (`auth.py:288`).
* Session: two concurrent posts can lower INSTRUCTED to EXPOSED by the `max` of a
  stale read, and concurrent calls can lose each other's egress bytes; two
  threads that trim one deque can end a request in an `IndexError`, that is,
  HTTP 500, which the hook takes for a refusal (`session.py:112`).
* Encodings: one encoding more than the governor undoes is not reported if a run of
  letters that decodes to nothing stands before it, since `residual_encoding` tries the
  first run only (`envelope.py:161`; `docs/THREAT_MODEL.md:55` calls what is left "itself
  a finding"); a base64 DNS label in a command that is itself encoded once is decoded
  with it and found in no view (`egress.py:186`; `docs/THREAT_MODEL.md:70` says it is
  matched before decoding).
* Gate and envelope: a parameter of an unknown name is scanned only if no known
  one is present; only the first host of a text counts as a domain; a call to
  loopback alone scores 35 + 50 and halts; the label `unknown_action` is never
  given; `touch_own_files` looks at no tool outside its lists.
* Hook: an answer that does not parse ends it without a decision; what only its looser
  patterns match, such as an edit of `.vscode/settings.json`, is refused without a
  governor and allowed with one (`runwall_hook.py:57`, `self_protect.py:243`; line 45
  says "refused at every rung, governor or no governor").

Fairness. The daemon's threads are operating-system threads and housekeeping
loops for ever with exceptions caught, so each started thread is weakly fair, as
are expiry of a card that stays stale, and time. Nothing makes an operator act:
`Check` and the commands have no fairness, and neither does a restart. The
liveness of a call thus holds with nobody at the console. In `DecisionLedger` the
appends of started threads and of the main thread are fair and nothing else is:
nothing makes a governor start, a failure happen or a stopped process come back.
The lock needs no more than weak fairness there because every instance holds
finitely many appends, so a thread cannot be overtaken for ever. In `SessionMemory`
the threads of calls and posts are fair, the wait for an operator included, which has
a timeout. `Perimeter`, `GateDecision` and `OperatorAuth` state no liveness; that a
relief runs out would follow from the clock of the model alone. `perimeter_kill`, which
refutes a temporal claim, has the perimeter's threads and its clock fair.

## 5. Proofs

TLAPS checks the following for every value of the constants that satisfies the
named assumptions (`CallsAssumption`: calls, intents, classes and routes fit
together; `NamesAssumption`: the distinguished names are distinct;
`TimesAssumption`: timers are positive, and in `Approvals` the wait is shorter
than the ceiling, and neither the ceiling nor the denial memory is longer than the
keep time, as in the shipped policy (`_validate()` does not ask for it);
`BoundsAssumption`: the bounds of `DecisionLedger` are naturals; `StateAssumption`:
`SharedState` is a truth value;
`PolicyAssumption`: what `_validate()` asks of a policy, or, in `SessionMemory`, the
part of it that module uses; `InputsAssumption`: the inputs are calls and
circumstances of the kinds there are, and it is registered rules that raise;
`RequestsAssumption`: the requests of `OperatorAuth` are of distinct kinds and carry
tokens; `RoutesAssumption`: see `SessionMemory` above).

`ApprovalsProof`: `TypeCorrect`; `RunsOnlyOnApproval`, `DeniedClassNeverGranted`
(invariant `ConsentInv`); `CardsTrackCalls` (`CardInv`); `TimeoutIsNoDenial`,
`DenialIsFinal` (`DenialInv`); `SpentGrantsStayDead` (`UsesInv`). `ConsentInv` says that whatever stands for consent
- a status APPROVED, a stored or a found grant, a seen approval - traces back to a request that
has approved a card of the same intent; `ApprovedBeforeRun` alone is not
inductive because it speaks only of finished calls, and a thread holding a found
grant is one step from finishing. `CardInv` ties the status of a card to where
its call is, including that pruning cannot reach a card whose call still blocks.
`DenialInv` keeps the time left on a remembered denial at least what the age of
the denied card leaves of the window. `UsesInv` counts: a grant not yet issued has no
uses and has served nobody, and one with uses left has them and the calls it served
within what the operator asked for. Each invariant has one lemma per kind of thread.

`ApprovalsRefinement`: `ApprovalsImplementsHumanGate`. Initial states map to
initial states; a request that approves maps to Approve, a call's last step to
Permit or Refuse, all else to a stutter. The step that needs `ConsentInv` is
ALLOW: the human gate demands that the intent be approved already.

`PerimeterProof`: `PerimeterTypeCorrect`; `HaltsAreFinal` (with `CapInv`: the cap
is reached with no HALT in hand); `ReasonsBelongToRung`; `ReliefIsOwned`, with
`OwnerInv`: the relief in force came from a command that asked for it, commands
keep what they asked for, and a HALT of policy's is still one whenever the cap
could act. A disarm that has expired and not been read is part of the relief in force,
because `floor` may still ask it for its scope. `RouteStep` sums up what one step of a call thread may do to its
route and is what both theorems rest on.

`DecisionLedgerProof`: `LedgerTypeCorrect`, `ChainNeverBreaks`, `AnchorTrails`,
`EveryDecisionOnce`, `AnsweredMeansRecordedOrSafe`, `SequenceNumbersAreUnique`. All
rest on what a step can do to the ledger: nothing, one more whole line, or a cut
(`AnyStep`). `HashIsLocal` says that the hash of a prefix depends on no later line,
so that an append or a cut of the last line leaves every earlier link as it was;
`LastExists` gives the last line that parses, from the well-foundedness of the
naturals. `ChainHolds` is then inductive with `TypeOK`. The others are not:
`AnchorInv` adds that a thread in `append` holds the hash of the ledger's last
line, without which the next anchor could be anything; `OnceInv` adds that a
thread before its line has none, and `SeqInv` that no number drawn exceeds the
counter on disk.

`LedgerClientsProof`, on top of these: `ParkedIsKept`, `IngestedOnce`, `GapsAreMarked`,
`CalmAlarmsHaveCauses`. `ParkedIsKept` supposes `SharedState`, which the installation does
not provide and without which it is false; it says nothing of records parked during an
ingestion, which can be lost. `Kinds` names what a step can do to the ledger, the spool and
the main thread's lines; `TodoInv` keeps those lines in the order `ingest_spool` has
them, so that when the spool is renamed away (`DropIsLast`) no record is still
to be appended. `KeptInv` adds that before that moment every record of the spool is
among the lines left, and that the line before an anchor is in the ledger.
`IngestedOnceInv` has each record at most once in spool, lines and ledger: in lines and
ledger only between a line and its anchor, in spool and ledger only before the rename.
`GapInv` says
what the main thread does next while a gap is open or not, and that an open gap leaves
something in the spool, so that a later start closes it. `CalmInv` ties anchor, lock
and what a verifier has read to the ledger's head; it needs `ChainNeverBreaks`.

`EvaluationProof`, for every policy that loads and every set of calls, over
`VerdictInv`: a verdict is `Decide` of its call, which no later step changes. The rest
is about `Decide`, in two parts.

One call: `FailuresHalt`, `LeavingNeedsReview`,
`SealedSurfaceHolds`. The argument goes from the findings outwards: a halting finding
gives a halting score (`HaltingFindingRefuses`), `strictest` keeps it whatever stands
beside it (`StrictestKeeps`), and `decide` is no milder outside a window that applies
(`DecideKeeps`). For the sealed surface, only one of the 34 rules reports it and it
halts, and its label stands in the table before the two that a window lifts
(`SealedLabelFirst`).

Two calls, or one call in two sessions: `TaintNeverHelps`, `EvidenceNeverHelps`,
`EncodingNeverHelps`, `RecordsAgree`. `VerdictsAreMonotone` takes `decide` apart: it
is enough that of the second call as much is found or some rule halts (`Covers`), that
it reaches as far (`Reaches`), that its label is gated no milder and that no window
lifts it. What is found grows with the text (`FindingsGrow`, rule by rule in
`RulesGrow`); the one rule that falls silent when another sign appears,
`credential_file_read`, is replaced by an exfiltration that halts. The label is the
hard part, since an early row of a table hides the later ones: a row of the rule table
other than the one for git belongs to a finding that halts (`LabelsHalt`), so a call
on which none halts has the label of git or of the text (`CalmLabel`), and along the
text's rows the gates must not rise (`OrderedGates`). The others:

* `TaintNeverHelps`: the laundering rule halts where it replaces its softer finding,
  and neither carries a label (`SameLabel`), so the window lifts both calls or none.
  Without the floors of the session this needs nothing of the policy
  (`JudgeRisesWithTaint`).
* `EncodingNeverHelps`: as long as the passes suffice, the text that the decoded views
  show is that of the plain call (`DecodedAlike`), so every rule but the one about
  encodings finds the same and the label is the same (`RulesAlike`, `SameLabel`); the
  one rule that reads the undecoded text too finds its signs in the decoded one. One
  layer more leaves a residue that needs a review and a call with no label that a window
  lifts (`TooDeepIsResidue`, `NothingLabelled`); too large a payload is refused
  (`OversizedRefused`). It holds for any number of passes, for texts in which nothing is
  an encoding already, with a decoy or without up to the number of passes, and one
  layer further without.
* `RecordsAgree`: each sign that the hook's table shares with the rules is in a view of
  the call that the governor reads (`HookSignsAreRead`), and has a rule that halts or is
  reviewed (`HookSignsAreFound`). Lookalikes are excluded.

What these suppose, and that each is needed, as TLC shows on an instance without it:

| Theorem | Supposes | Otherwise |
|---|---|---|
| `TaintNeverHelps` | `RisingFloors`: the floors rise with the taint | a floor of REVIEW for CLEAN and ALLOW for EXPOSED lets more taint help |
| `EvidenceNeverHelps` | `OrderedGates`: gates follow the order of the labels, "most consequential first" | where `run_shell_command` is gated REVIEW and `upload_or_publish` ALLOW, a sign of upload allows the command; likewise for a protected path and for rewriting history |
| `EncodingNeverHelps` | `ResidueIsReviewed`: `ReviewAt` is at most 55, the score of a residue | at 56, a command encoded once too often is allowed |
| `EncodingNeverHelps` | `ShellCalls`: a tool that runs commands takes no path and no contents | a path is never encoded: a window lifts a call by its path and with it the command beside it |
| `RecordsAgree` | `PermissionsAreReviewed`: `ReviewAt` is at most 60, the score of widened permissions | at 61, the hook denies what the governor allows |
| `RecordsAgree` | `ReadAlike`: a tool that writes takes a path and no command, and what stands on no list is not read by the hook alone | the hook reads a parameter that the governor's rule does not look at |
| `RecordsAgree` | `HookReadsLess`: the hook decodes no further than the governor | with two passes and a decoy, the governor allows what the hook decodes and denies |

The shipped policy and tools have all of them, and no code enforces them:
`_validate()` of `runwall/policy.py` loads a policy whose review threshold is 56.

`SessionMemoryProof`: `SessionTypeCorrect`; `VerdictsMatchTaint`, with `TaintInv`:
the taint is never below the lowest there was since the call began, and from the
step that reads it the route is at least what that lowest asks for, which a
later and lower taint can only weaken (here `RoutesAssumption` is used, and the
theorem supposes `RisingFloors`);
`BudgetHolds`, with `BudgetInv`: the host of a call that has come to the budget is
among those counted, and the hosts that have passed it grow only as a call meets
it, at which moment all of them are counted and the count is within the budget.

`OperatorAuthProof`: `OperatorTypeCorrect`; `ConsumedMeansSpent`, with `SpentInv`: a
step-up that stands in a live session rests on a code younger than the last one
consumed; `LockoutHolds`, with `LockInv`: the end of the lockout is no earlier than
that of any lockout so far, and a login past the check began outside all of them.
`TokenInv` keeps tokens that nobody was issued from being live, so that a session
starts with no step-up from before.

Only model-checked: the liveness properties `EveryCallAnswered`, `NothingWaitsForever`,
`EveryCallFinishes` and `EveryCallEnds`, since this prover does not
reason about fairness. Every other property of a passing run is stated by a theorem.

## 6. Not modelled

* The scripts around the governor: harden, install, pin and enrol, which change
  files and permissions once, before it runs; of the command line, `cmd_up` is in
  `DecisionLedger`.
* The red team's table of cases and its runner, the checks of the documentation's
  numbers, the demonstration, terminal output and the console's page: they keep no
  state of the protocol, and what the console asks for is in the models as commands.
* `record_delete` of the session, which has no caller.
* Text processing: the regular expressions of the rules, Unicode folding, the
  decoders, path canonicalisation, redaction. A sign is their outcome.
* The checks of client token and origin on a request, the event stream to the
  console and the endpoints that only read.
* Computation and files of authentication: enrolment, key derivation, codes, key
  files; `operator_present` is a free choice where the gate asks for it.
* The recovery of a missing or unreadable counter file, and two governors on one
  state directory.
