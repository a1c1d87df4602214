---------------------------- MODULE DecisionLedger ----------------------------
(***************************************************************************)
(* The decision ledger (runwall/ledger.py) with its hash chain, anchor and *)
(* sequence counter (runwall/integrity.py), over stops, crashes, restarts  *)
(* and a disk that fails.                                                  *)
(*                                                                         *)
(* Threads of the governor append under the ledger's lock: first the line, *)
(* then the anchor.  While no governor answers, the hook parks records in  *)
(* a spool file; a governor reproduces what is in its own between two gap  *)
(* markers before it serves.  A verifier reads ledger and anchor with no   *)
(* lock.                                                                   *)
(*                                                                         *)
(* A hash is modelled by what it commits to: the records of the chain so   *)
(* far, in order.  That takes SHA-256 to be free of collisions.            *)
(***************************************************************************)
EXTENDS Integers, Sequences, FiniteSets, FiniteSetsExt

CONSTANTS
  Calls,        \* tool calls the governor decides
  Commands,     \* operators' commands, each with a note to the ledger
  Hooks,        \* tool calls the hook decides alone, and parks
  Verifiers,    \* whoever walks the ledger: the status page, `runwall verify`
  MaxFaults,    \* bound: crashes and failing writes in one behaviour
  MaxStarts,    \* bound: successful starts of the governor
  SharedState,  \* RUNWALL_STATE takes the hook to the governor's state directory
  Nobody        \* the ledger's lock is free

Threads == Calls \union Commands
Markers == {"gap_open", "gap_close", "governor_start", "governor_stop"}

ASSUME BoundsAssumption == MaxFaults \in Nat /\ MaxStarts \in Nat
ASSUME StateAssumption == SharedState \in BOOLEAN
ASSUME NamesAssumption ==
  /\ Calls \intersect Commands = {}
  /\ Hooks \intersect Threads = {}
  /\ (Markers \union {"governor", "drop_spool", "torn"}) \intersect (Threads \union Hooks) = {}
  /\ Nobody \notin Threads \union {"governor"}

Records == Threads \union Hooks \union Markers
Genesis == <<>>
Drop    == "drop_spool"

VARIABLES
  \* on disk
  log,     \* the lines of the ledger
  ragged,  \* its last line has no newline
  anchor,  \* chain.anchor
  seq,     \* the counter in the file seq
  spool,   \* the lines of spool.jsonl in the governor's state directory
  \* the governor's process
  gov,     \* "down", "starting", "up", "stopping"
  todo,    \* what its main thread has still to append
  lock,    \* who is in append(), and the head it has yet to anchor
  safe,    \* the perimeter dropped to SAFE because the ledger failed
  pc,      \* where a thread is
  seqOf,   \* a call's sequence number
  \* other processes
  hpc,     \* what a hook did: "parked", "late" (while a start was ingesting)
  ver,     \* verifiers: how far each is, what it read, what it says
  \* bookkeeping of the model
  faults   \* how often something has failed

disk == <<log, ragged, anchor>>
vars == <<disk, seq, spool, gov, todo, lock, safe, pc, seqOf, hpc, ver, faults>>

-----------------------------------------------------------------------------
(* The chain.                                                              *)

\* A line that parses, and one that does not.
Event(id, prev) == [id |-> id, prev |-> prev, hash |-> Append(prev, id)]
Torn == [id |-> "torn", prev |-> Genesis, hash |-> Genesis]
Parses(line) == line.id # "torn"
Intact == \A i \in 1..Len(log) : Parses(log[i])

\* last_hash() over the first n lines: what does not parse is passed over.
HashUpTo(l, n) ==
  LET parsed == {i \in 1..n : Parses(l[i])}
  IN IF parsed = {} THEN Genesis ELSE l[Max(parsed)].hash
LastHash(l) == HashUpTo(l, Len(l))

\* verify(): every line names the hash before it and hashes to its own, and
\* no line fails to parse.
Chained(l) ==
  \A i \in 1..Len(l) :
    Parses(l[i]) => /\ l[i].prev = HashUpTo(l, i - 1)
                    /\ l[i].hash = Append(l[i].prev, l[i].id)
Verifies(l) == (\A i \in 1..Len(l) : Parses(l[i])) /\ Chained(l)

Recorded(id) == {i \in 1..Len(log) : log[i].id = id}

Unlocked == [by |-> Nobody, head |-> Genesis]

\* calm and len are the model's own: no append ran during the verification.
Verdict(v, c) ==
  [pc |-> "idle", chain |-> TRUE, anchor |-> Genesis, len |-> 0, calm |-> c, verdict |-> v]

Init ==
  /\ log = <<>>
  /\ ragged = FALSE
  /\ anchor = Genesis
  /\ seq = 0
  /\ spool = <<>>
  /\ gov = "down"
  /\ todo = <<>>
  /\ lock = Unlocked
  /\ safe = FALSE
  /\ pc = [t \in Threads |-> "new"]
  /\ seqOf = [c \in Calls |-> 0]
  /\ hpc = [h \in Hooks |-> "new"]
  /\ ver = [v \in Verifiers |-> Verdict("none", FALSE)]
  /\ faults = 0

-----------------------------------------------------------------------------
(* append(): the two writes under the lock, and how each can fail.         *)

Fault == faults < MaxFaults /\ faults' = faults + 1
NoFault == UNCHANGED faults

\* The hash a new line is chained to: the file is read for every event.
ChainHead_Anchor == anchor
ChainHead == LastHash(log)

\* The file after one more line, which joins a ragged last line if there is one.
Extended(line) ==
  IF ragged THEN [log EXCEPT ![Len(log)] = Torn] ELSE Append(log, line)

WriteLine_NoLock(who, id) ==
  /\ log' = Extended(Event(id, ChainHead))
  /\ ragged' = FALSE
  /\ lock' = [by |-> who, head |-> Append(ChainHead, id)]
  /\ NoFault
  /\ UNCHANGED anchor
WriteLine(who, id) ==
  /\ lock.by = Nobody
  /\ log' = Extended(Event(id, ChainHead))
  /\ ragged' = FALSE
  /\ lock' = [by |-> who, head |-> Append(ChainHead, id)]
  /\ NoFault
  /\ UNCHANGED anchor

\* A write cut short: the line lacks its end, or no more than its newline.
CutLine(id) ==
  /\ \E line \in {Torn, Event(id, ChainHead)} : log' = Extended(line)
  /\ ragged' = TRUE

FailLine_Anchored(id) ==
  /\ lock.by = Nobody
  /\ Fault
  /\ CutLine(id) \/ UNCHANGED <<log, ragged>>
  /\ anchor' = Append(ChainHead, id)
  /\ UNCHANGED lock
FailLine(id) ==
  /\ lock.by = Nobody
  /\ Fault
  /\ CutLine(id) \/ UNCHANGED <<log, ragged>>
  /\ UNCHANGED <<anchor, lock>>

\* anchor_head(), by os.replace(): all of it or none.
WriteAnchor_Prev(who) ==
  /\ lock.by = who
  /\ anchor' = SubSeq(lock.head, 1, Len(lock.head) - 1)
  /\ lock' = Unlocked
  /\ NoFault
  /\ UNCHANGED <<log, ragged>>
WriteAnchor(who) ==
  /\ lock.by = who
  /\ anchor' = lock.head
  /\ lock' = Unlocked
  /\ NoFault
  /\ UNCHANGED <<log, ragged>>

\* The line is whole, and syncing it or writing the anchor fails.
FailAnchor_Locked(who) ==
  /\ lock.by = who
  /\ Fault
  /\ UNCHANGED <<log, ragged, anchor, lock>>
FailAnchor(who) ==
  /\ lock.by = who
  /\ Fault
  /\ lock' = Unlocked
  /\ UNCHANGED <<log, ragged, anchor>>

-----------------------------------------------------------------------------
(* The governor's threads: handle_decide() and the console's commands.     *)

Serving == gov \in {"up", "stopping"}
SetPc(t, p) == pc' = [pc EXCEPT ![t] = p]

\* next_seq(), under a lock of its own; the file outlives the process.
NextSeq_InMemory(c) ==
  /\ seqOf' = [seqOf EXCEPT ![c] =
                 Cardinality({d \in Calls : pc[d] \notin {"new", "lost"}}) + 1]
  /\ UNCHANGED seq
NextSeq(c) ==
  /\ seqOf' = [seqOf EXCEPT ![c] = seq + 1]
  /\ seq' = seq + 1

DrawSeq(c) ==
  /\ Serving /\ pc[c] = "new"
  /\ \/ /\ NextSeq(c)
        /\ SetPc(c, "decided")
        /\ NoFault
     \/ /\ Fault
        /\ SetPc(c, "lost")
        /\ UNCHANGED <<seqOf, seq>>
  /\ UNCHANGED <<disk, spool, gov, todo, lock, safe, hpc, ver>>

\* A command takes effect before its note is written.
Act(k) ==
  /\ Serving /\ pc[k] = "new"
  /\ SetPc(k, "decided")
  /\ UNCHANGED <<disk, seq, spool, gov, todo, lock, safe, seqOf, hpc, ver, faults>>

ThreadLine(t) ==
  /\ pc[t] = "decided"
  /\ WriteLine(t, t)
  /\ SetPc(t, "written")
  /\ UNCHANGED <<seq, spool, gov, todo, safe, seqOf, hpc, ver>>

ThreadAnchor(t) ==
  /\ pc[t] = "written"
  /\ WriteAnchor(t)
  /\ SetPc(t, "answered")
  /\ UNCHANGED <<seq, spool, gov, todo, safe, seqOf, hpc, ver>>

AppendFails(t) ==
  \/ pc[t] = "decided" /\ FailLine(t)
  \/ pc[t] = "written" /\ FailAnchor(t)

\* _record() catches LedgerUnwritable, drops the perimeter to SAFE, and the
\* call is answered as decided.
CallFails_Silently(c) ==
  /\ AppendFails(c)
  /\ SetPc(c, "failed")
  /\ UNCHANGED <<seq, spool, gov, todo, safe, seqOf, hpc, ver>>
CallFails_Again(c) ==
  /\ AppendFails(c)
  /\ SetPc(c, "decided")
  /\ safe' = TRUE
  /\ UNCHANGED <<seq, spool, gov, todo, seqOf, hpc, ver>>
CallFails(c) ==
  /\ AppendFails(c)
  /\ SetPc(c, "failed")
  /\ safe' = TRUE
  /\ UNCHANGED <<seq, spool, gov, todo, seqOf, hpc, ver>>

\* A command's request ends in an error; its effect stands.
CommandFails(k) ==
  /\ AppendFails(k)
  /\ SetPc(k, "failed")
  /\ UNCHANGED <<seq, spool, gov, todo, safe, seqOf, hpc, ver>>

CallStep(c) == DrawSeq(c) \/ ThreadLine(c) \/ ThreadAnchor(c) \/ CallFails(c)
CommandStep(k) == Act(k) \/ ThreadLine(k) \/ ThreadAnchor(k) \/ CommandFails(k)

-----------------------------------------------------------------------------
(* The main thread: ingest_spool() in __init__(), serving, stopping.       *)

\* What to append once the spool has been read: the records between their
\* markers, then the spool is renamed away, then the note that the governor runs.
Ingestion_Unmarked(records) ==
  IF records = <<>> THEN <<"governor_start">>
  ELSE records \o <<Drop, "governor_start">>
Ingestion_Kept(records) ==
  IF records = <<>> THEN <<"governor_start">>
  ELSE <<"gap_open">> \o records \o <<"gap_close", "governor_start">>
Ingestion_DropFirst(records) ==
  IF records = <<>> THEN <<"governor_start">>
  ELSE <<Drop, "gap_open">> \o records \o <<"gap_close", "governor_start">>
Ingestion(records) ==
  IF records = <<>> THEN <<"governor_start">>
  ELSE <<"gap_open">> \o records \o <<"gap_close", Drop, "governor_start">>

Start ==
  /\ gov = "down"
  /\ Cardinality(Recorded("governor_start")) < MaxStarts
  /\ gov' = "starting"
  /\ todo' = Ingestion(spool)
  /\ UNCHANGED <<disk, seq, spool, lock, safe, pc, seqOf, hpc, ver, faults>>

NextIsLine == todo # <<>> /\ Head(todo) # Drop
NextIsDrop == todo # <<>> /\ Head(todo) = Drop

MainLine ==
  /\ NextIsLine
  /\ WriteLine("governor", Head(todo))
  /\ UNCHANGED <<seq, spool, gov, todo, safe, pc, seqOf, hpc, ver>>

MainAnchor ==
  /\ WriteAnchor("governor")
  /\ todo' = Tail(todo)
  /\ UNCHANGED <<seq, spool, gov, safe, pc, seqOf, hpc, ver>>

DropSpool ==
  /\ NextIsDrop
  /\ spool' = <<>>
  /\ todo' = Tail(todo)
  /\ UNCHANGED <<disk, seq, gov, lock, safe, pc, seqOf, hpc, ver, faults>>

Serve ==
  /\ gov = "starting" /\ todo = <<>>
  /\ gov' = "up"
  /\ UNCHANGED <<disk, seq, spool, todo, lock, safe, pc, seqOf, hpc, ver, faults>>

\* Ctrl-C: a last note, while the other threads go on.
Stop ==
  /\ gov = "up"
  /\ gov' = "stopping"
  /\ todo' = <<"governor_stop">>
  /\ UNCHANGED <<disk, seq, spool, lock, safe, pc, seqOf, hpc, ver, faults>>

\* The process ends, and what it had in memory is gone.
Ended ==
  /\ gov' = "down"
  /\ todo' = <<>>
  /\ lock' = Unlocked
  /\ safe' = FALSE
  /\ pc' = [t \in Threads |-> IF pc[t] \in {"decided", "written"} THEN "lost" ELSE pc[t]]
  /\ UNCHANGED <<anchor, seq, spool, seqOf, hpc, ver>>

Exit ==
  /\ gov = "stopping" /\ todo = <<>>
  /\ Ended
  /\ UNCHANGED <<log, ragged, faults>>

\* An append or the rename raises in the main thread, or the process is
\* killed, in the middle of a line if one is being written.
NextLines ==
  {t \in Threads : pc[t] = "decided"} \union (IF NextIsLine THEN {Head(todo)} ELSE {})

Crash ==
  /\ gov # "down"
  /\ Fault
  /\ Ended
  /\ \/ UNCHANGED <<log, ragged>>
     \/ lock.by = Nobody /\ \E id \in NextLines : CutLine(id)

MainStep == Start \/ MainLine \/ MainAnchor \/ DropSpool \/ Serve \/ Stop \/ Exit \/ Crash

-----------------------------------------------------------------------------
(* Other processes.                                                        *)

\* fallback() of the hook: park the record, or drop it if that fails.  Unless
\* told otherwise, the hook parks it in the home directory, where nothing
\* reads it.
Ingesting == \E i \in 1..Len(todo) : todo[i] = Drop
Park(h) ==
  /\ hpc[h] = "new"
  /\ \/ /\ spool' = IF SharedState THEN Append(spool, h) ELSE spool
        /\ hpc' = [hpc EXCEPT ![h] = IF Ingesting THEN "late" ELSE "parked"]
        /\ NoFault
     \/ /\ Fault
        /\ hpc' = [hpc EXCEPT ![h] = "unrecorded"]
        /\ UNCHANGED spool
  /\ UNCHANGED <<disk, seq, gov, todo, lock, safe, pc, seqOf, ver>>

\* Ledger.verify(): the lines, then the anchor, then the lines' last hash.
Walk(v) ==
  /\ ver[v].pc = "idle"
  /\ ver' = [ver EXCEPT ![v] = [Verdict("none", lock.by = Nobody) EXCEPT
                                 !.pc = "walked", !.chain = Verifies(log), !.len = Len(log)]]
  /\ UNCHANGED <<disk, seq, spool, gov, todo, lock, safe, pc, seqOf, hpc, faults>>

ReadAnchor(v) ==
  /\ ver[v].pc = "walked"
  /\ ver' = [ver EXCEPT ![v].pc = "anchored", ![v].anchor = anchor]
  /\ UNCHANGED <<disk, seq, spool, gov, todo, lock, safe, pc, seqOf, hpc, faults>>

Conclude(v) ==
  /\ ver[v].pc = "anchored"
  /\ ver' = [ver EXCEPT ![v] =
               Verdict(IF ver[v].chain /\ ver[v].anchor \in {Genesis, LastHash(log)}
                       THEN "ok" ELSE "alarm",
                       ver[v].calm /\ ver[v].len = Len(log))]
  /\ UNCHANGED <<disk, seq, spool, gov, todo, lock, safe, pc, seqOf, hpc, faults>>

VerifierStep(v) == Walk(v) \/ ReadAnchor(v) \/ Conclude(v)

Next ==
  \/ \E c \in Calls : CallStep(c)
  \/ \E k \in Commands : CommandStep(k)
  \/ MainStep
  \/ \E h \in Hooks : Park(h)
  \/ \E v \in Verifiers : VerifierStep(v)

Spec == Init /\ [][Next]_vars

\* A started thread goes on; nothing makes a governor start.
FairSpec ==
  /\ Spec
  /\ \A t \in Threads : WF_vars(ThreadLine(t)) /\ WF_vars(ThreadAnchor(t))
  /\ WF_vars(MainLine) /\ WF_vars(MainAnchor)

-----------------------------------------------------------------------------
(* Properties.                                                             *)

Chain == Seq(Records)
Line  == [id : Records \union {"torn"}, prev : Chain, hash : Chain]

\* The ledger, the processes and the counters have the declared shape, and
\* a thread that has written its line is the one in append().
TypeOK ==
  /\ log \in Seq(Line)
  /\ ragged \in BOOLEAN
  /\ ragged => log # <<>>
  /\ anchor \in Chain
  /\ seq \in Nat
  /\ spool \in Seq(Hooks)
  /\ gov \in {"down", "starting", "up", "stopping"}
  /\ todo \in Seq(Hooks \union Markers \union {Drop})
  /\ lock \in [by : Threads \union {"governor", Nobody}, head : Chain]
  /\ safe \in BOOLEAN
  /\ pc \in [Threads -> {"new", "decided", "written", "answered", "failed", "lost"}]
  /\ \A t \in Threads : pc[t] = "written" <=> lock.by = t
  /\ lock.by = "governor" => NextIsLine
  /\ seqOf \in [Calls -> Nat]
  /\ hpc \in [Hooks -> {"new", "parked", "late", "unrecorded"}]
  /\ ver \in [Verifiers -> [pc : {"idle", "walked", "anchored"}, chain : BOOLEAN,
                            anchor : Chain, len : Nat, calm : BOOLEAN,
                            verdict : {"none", "ok", "alarm"}]]
  /\ faults \in 0..MaxFaults

\* Whatever crashes and write errors leave behind, every line that parses is
\* chained to the last one before it that does (append, last_hash, verify).
ChainHolds == Chained(log)

\* While every line parses, the anchor names a head the ledger has had and
\* still begins with: a crash can leave it behind, never elsewhere (append,
\* anchor_head).
AnchorIsBehind ==
  Intact => /\ Len(anchor) <= Len(LastHash(log))
            /\ anchor = SubSeq(LastHash(log), 1, Len(anchor))

\* A verification that no append overlaps raises an alarm only if something
\* failed, or the end of a process cut an append in two (verify, check_anchor).
CalmAlarmHasCause ==
  \A v \in Verifiers :
    ver[v].verdict = "alarm" /\ ver[v].calm
      => faults > 0 \/ \E t \in Threads : pc[t] = "lost"

\* No decision is recorded twice, and what was answered without an error is
\* recorded, over failures and restarts, while every line parses (_record,
\* append).
RecordedOnce ==
  Intact =>
    \A t \in Threads :
      /\ Cardinality(Recorded(t)) <= 1
      /\ pc[t] \in {"written", "answered"} => Recorded(t) # {}

\* When a call is answered, its record is in the ledger or the perimeter has
\* dropped to SAFE (_record).
RecordedOrSafe ==
  [][Intact' => \A c \in Calls :
       pc[c] \in {"decided", "written"} /\ pc'[c] \in {"answered", "failed"}
         => safe' \/ Recorded(c)' # {}]_vars

\* Reconstructed records stand between their markers, and nothing decided by
\* a governor stands there: after a start that failed half-way the gap stays
\* open until a later start has closed it (ingest_spool).
GapOpenAt(i) ==
  \E o \in 1..(i - 1) :
    /\ log[o].id = "gap_open"
    /\ \A j \in o..(i - 1) : log[j].id # "gap_close"
GapIsMarked ==
  Intact =>
    \A i \in 1..Len(log) :
      IF log[i].id \in Hooks \union {"gap_open", "gap_close"}
      THEN log[i].id \in Hooks \union {"gap_close"} => GapOpenAt(i)
      ELSE ~GapOpenAt(i)

\* A record parked while no start was ingesting is in the ledger or still in
\* the governor's spool, wherever a start fails (ingest_spool), where the hook
\* parks there at all.
SpooledIsKept ==
  Intact =>
    \A h \in Hooks : hpc[h] = "parked" =>
      Recorded(h) # {} \/ \E i \in 1..Len(spool) : spool[i] = h

\* Without faults no parked record is ingested twice, over any number of
\* restarts (ingest_spool).
SpooledOnce == faults = 0 => \A h \in Hooks : Cardinality(Recorded(h)) <= 1

\* No two calls ever have the same sequence number, over crashes (next_seq).
SeqIsUnique ==
  \A c, d \in Calls : c # d /\ seqOf[c] # 0 => seqOf[c] # seqOf[d]

\* A call that was decided does not stay in append() for ever, whoever else
\* writes or fails to (append).
EveryCallFinishes ==
  \A c \in Calls : pc[c] = "decided" ~> pc[c] \in {"answered", "failed", "lost"}

\* While nothing fails, verification raises no alarm.
NoFalseAlarm == faults = 0 => \A v \in Verifiers : ver[v].verdict # "alarm"
=============================================================================
