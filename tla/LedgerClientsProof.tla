-------------------------- MODULE LedgerClientsProof --------------------------
(***************************************************************************)
(* Proofs about DecisionLedger: what the processes beside the governor's   *)
(* threads may rely on, the hook that parks records in the spool and the   *)
(* verifiers that read ledger and anchor, for any number of each and for   *)
(* any number of faults and starts.                                        *)
(***************************************************************************)
EXTENDS DecisionLedgerProof

-----------------------------------------------------------------------------
(* What one step may do to the ledger, the spool and the main thread.      *)

\* A write of a record: what leaves every line whole has added it at the end.
Grew(id) ==
  Intact' =>
    /\ Intact
    /\ Len(log') = Len(log) + 1
    /\ log'[Len(log) + 1].id = id
    /\ \A i \in 1..Len(log) : log'[i] = log[i]

LEMMA ExtendedGrows ==
  ASSUME TypeOK, NEW id \in Records, NEW line \in {Event(id, ChainHead), Torn},
         log' = Extended(line)
  PROVE  Grew(id)
<1> SUFFICES ASSUME Intact'
             PROVE  /\ Intact
                    /\ Len(log') = Len(log) + 1
                    /\ log'[Len(log) + 1].id = id
                    /\ \A i \in 1..Len(log) : log'[i] = log[i]
  BY DEF Grew
<1>1. line \in Line /\ Len(log) \in Nat
  BY LineType DEF TypeOK
<1>2. ~Parses(Torn)
  BY DEF Parses, Torn
<1>3. ASSUME ragged PROVE FALSE
  <2>1. Len(log') = Len(log) /\ Len(log) > 0 /\ log'[Len(log)] = Torn
    BY <1>1, <1>3, ExtendedShape
  <2> QED BY <1>1, <1>2, <2>1 DEF Intact
<1>4. /\ Len(log') = Len(log) + 1
      /\ log'[Len(log) + 1] = line
      /\ \A i \in 1..Len(log) : log'[i] = log[i]
  BY <1>1, <1>3, ExtendedShape
<1>5. Parses(line) /\ Intact
  BY <1>1, <1>4 DEF Intact
<1> QED BY <1>2, <1>4, <1>5 DEF Event

LEMMA WriteGrows ==
  ASSUME TypeOK, NEW id \in Records, NEW who, WriteLine(who, id)
  PROVE  Grew(id) /\ lock.by = Nobody /\ lock'.by = who
<1>1. log' = Extended(Event(id, ChainHead))
  BY DEF WriteLine
<1> QED BY <1>1, ExtendedGrows DEF WriteLine

LEMMA CutGrows ==
  ASSUME TypeOK, NEW id \in Records, CutLine(id)
  PROVE  Grew(id)
BY ExtendedGrows DEF CutLine

\* Main thread, hook and spool are left alone: the ledger too, or a thread of
\* a serving governor has written.
Rest == <<todo, spool, gov, hpc>>
Quiet ==
  /\ UNCHANGED Rest
  /\ log' = log
  /\ lock'.by = "governor" <=> lock.by = "governor"
ThreadWrote ==
  /\ UNCHANGED Rest
  /\ lock.by # "governor" /\ lock'.by # "governor"
  /\ \E t \in Threads : pc[t] = "decided" /\ Grew(t)

\* The main thread writes the line it has next, or goes on to the one after.
MainWrote ==
  /\ UNCHANGED Rest
  /\ NextIsLine
  /\ lock.by = Nobody /\ lock'.by = "governor"
  /\ Grew(Head(todo))
MainAnchored ==
  /\ UNCHANGED <<spool, gov, hpc>>
  /\ NextIsLine
  /\ log' = log
  /\ lock.by = "governor" /\ lock'.by = Nobody
  /\ todo' = Tail(todo)

\* The process ends: without a fault, only when the main thread is through.
End ==
  /\ UNCHANGED <<spool, hpc>>
  /\ gov' = "down" /\ todo' = <<>> /\ lock'.by = Nobody
  /\ \/ log' = log
     \/ lock.by = Nobody /\ \E id \in NextLines : Grew(id)
  /\ faults' = 0 => todo = <<>> /\ log' = log

MainMoves == MainWrote \/ MainAnchored \/ DropSpool \/ Start \/ Serve \/ Stop \/ End

LEMMA ThreadKinds ==
  ASSUME TypeOK, NEW t \in Threads, UNCHANGED Rest,
         ThreadLine(t) \/ ThreadAnchor(t) \/ AppendFails(t)
  PROVE  Quiet \/ ThreadWrote
<1>1. t # "governor" /\ t \in Records /\ Unlocked.by # "governor"
  BY UnlockedType, ThreadIsRecord
<1>2. Nobody # "governor"
  BY UnlockedType
<1>3. CASE ThreadLine(t)
  <2>1. Grew(t) /\ lock.by = Nobody /\ lock'.by = t /\ pc[t] = "decided"
    BY <1>1, <1>3, WriteGrows DEF ThreadLine
  <2> QED BY <1>1, <1>2, <2>1 DEF ThreadWrote
<1>4. CASE ThreadAnchor(t)
  BY <1>1, <1>4 DEF ThreadAnchor, WriteAnchor, Quiet
<1>5. CASE pc[t] = "decided" /\ FailLine(t)
  <2>1. lock.by = Nobody /\ lock' = lock
    BY <1>5 DEF FailLine
  <2>2. CASE CutLine(t)
    <3>1. Grew(t)
      BY <1>1, <2>2, CutGrows
    <3> QED BY <1>2, <1>5, <2>1, <3>1 DEF ThreadWrote
  <2>3. CASE log' = log
    BY <2>1, <2>3 DEF Quiet
  <2> QED BY <1>5, <2>2, <2>3 DEF FailLine
<1>6. CASE pc[t] = "written" /\ FailAnchor(t)
  BY <1>1, <1>6 DEF FailAnchor, Quiet
<1> QED BY <1>3, <1>4, <1>5, <1>6 DEF AppendFails

LEMMA MainKinds ==
  ASSUME TypeOK, MainStep
  PROVE  MainMoves
<1>1. CASE MainLine
  <2>1. Head(todo) \in Records /\ NextIsLine
    BY <1>1, NextLineIsRecord DEF MainLine
  <2>2. Grew(Head(todo)) /\ lock.by = Nobody /\ lock'.by = "governor"
    BY <1>1, <2>1, WriteGrows DEF MainLine
  <2> QED BY <1>1, <2>1, <2>2 DEF MainLine, MainWrote, MainMoves, Rest
<1>2. CASE MainAnchor
  <2>1. lock.by = "governor" /\ lock'.by = Nobody /\ log' = log
    BY <1>2, UnlockedType DEF MainAnchor, WriteAnchor
  <2>2. NextIsLine
    BY <2>1 DEF TypeOK
  <2> QED BY <1>2, <2>1, <2>2 DEF MainAnchor, MainAnchored, MainMoves
<1>3. CASE Exit
  BY <1>3, UnlockedType DEF Exit, Ended, End, MainMoves
<1>4. CASE Crash
  <2>1. /\ UNCHANGED <<spool, hpc>>
        /\ gov' = "down" /\ todo' = <<>> /\ lock'.by = Nobody
    BY <1>4, UnlockedType DEF Crash, Ended
  <2>2. faults' # 0
    BY <1>4 DEF Crash, Fault, TypeOK
  <2>3. ASSUME NEW id \in NextLines, CutLine(id) PROVE Grew(id)
    <3>1. id \in Records
      BY NextLineIsRecord, ThreadIsRecord DEF NextLines
    <3> QED BY <2>3, <3>1, CutGrows
  <2> QED BY <1>4, <2>1, <2>2, <2>3 DEF Crash, End, MainMoves
<1> QED BY <1>1, <1>2, <1>3, <1>4 DEF MainStep, MainMoves

LEMMA Kinds ==
  ASSUME TypeOK, [Next]_vars
  PROVE  Quiet \/ ThreadWrote \/ MainMoves \/ \E h \in Hooks : Park(h)
<1>1. ASSUME NEW c \in Calls, CallStep(c) PROVE Quiet \/ ThreadWrote
  <2>1. c \in Threads
    BY DEF Threads
  <2>2. CASE DrawSeq(c)
    BY <2>2 DEF DrawSeq, disk, Quiet, Rest
  <2>3. UNCHANGED Rest
    BY <1>1 DEF CallStep, DrawSeq, ThreadLine, ThreadAnchor, CallFails, Rest
  <2>4. DrawSeq(c) \/ ThreadLine(c) \/ ThreadAnchor(c) \/ AppendFails(c)
    BY <1>1 DEF CallStep, CallFails
  <2> QED BY <2>1, <2>2, <2>3, <2>4, ThreadKinds
<1>2. ASSUME NEW k \in Commands, CommandStep(k) PROVE Quiet \/ ThreadWrote
  <2>1. k \in Threads
    BY DEF Threads
  <2>2. CASE Act(k)
    BY <2>2 DEF Act, disk, Quiet, Rest
  <2>3. UNCHANGED Rest
    BY <1>2 DEF CommandStep, Act, ThreadLine, ThreadAnchor, CommandFails, Rest
  <2>4. Act(k) \/ ThreadLine(k) \/ ThreadAnchor(k) \/ AppendFails(k)
    BY <1>2 DEF CommandStep, CommandFails
  <2> QED BY <2>1, <2>2, <2>3, <2>4, ThreadKinds
<1>3. CASE \E v \in Verifiers : VerifierStep(v)
  BY <1>3 DEF VerifierStep, Walk, ReadAnchor, Conclude, disk, Quiet, Rest
<1>4. CASE UNCHANGED vars
  BY <1>4 DEF vars, disk, Quiet, Rest
<1> QED BY <1>1, <1>2, <1>3, <1>4, MainKinds DEF Next

-----------------------------------------------------------------------------
(* What the main thread has still to do.                                   *)

InTodo(id) == \E i \in 1..Len(todo) : todo[i] = id
InSpool(h) == \E i \in 1..Len(spool) : spool[i] = h
Notes == {"governor_start", "governor_stop"}

\* The order of the lines left: the records run up to the closing marker, the
\* rename follows it, then the last note.
Ordered(s) ==
  \A i \in 1..Len(s) :
    /\ s[i] \in Hooks \union {"gap_open"} =>
         i < Len(s) /\ s[i + 1] \in Hooks \union {"gap_close"}
    /\ s[i] = "gap_close" => i < Len(s) /\ s[i + 1] = Drop
    /\ s[i] = Drop => i + 1 = Len(s) /\ s[i + 1] = "governor_start"
    /\ s[i] \in Notes => i = Len(s)

\* Nothing is left before a start and while serving; and a gap is written only
\* for a spool that holds something.
TodoInv ==
  /\ gov \in {"down", "up"} => todo = <<>>
  /\ gov = "stopping" => todo \in {<<>>, <<"governor_stop">>}
  /\ Ordered(todo)
  /\ \A i \in 1..Len(todo) : todo[i] \notin Notes => spool # <<>>

\* The names are different things.
LEMMA NamesDiffer ==
  /\ Drop \notin Hooks /\ Drop \notin Notes /\ Drop \notin Threads
  /\ Hooks \intersect Notes = {} /\ Hooks \intersect Threads = {}
  /\ Notes \intersect Threads = {}
  /\ "gap_open" \notin Hooks \union Notes \union Threads
  /\ "gap_close" \notin Hooks \union Notes \union Threads
  /\ Drop \notin {"gap_open", "gap_close"}
BY NamesAssumption DEF Drop, Notes, Markers

\* What a start has to do, line by line.
LEMMA IngestionLines ==
  ASSUME NEW r \in Seq(Hooks), r # <<>>
  PROVE  /\ Len(Ingestion(r)) = Len(r) + 4
         /\ Ingestion(r)[1] = "gap_open"
         /\ \A i \in 1..Len(r) : Ingestion(r)[i + 1] = r[i]
         /\ Ingestion(r)[Len(r) + 2] = "gap_close"
         /\ Ingestion(r)[Len(r) + 3] = Drop
         /\ Ingestion(r)[Len(r) + 4] = "governor_start"
<1> DEFINE E == Hooks \union Markers \union {Drop}
<1> DEFINE a == <<"gap_open">> \o r
<1> DEFINE z == <<"gap_close", Drop, "governor_start">>
<1>1. <<"gap_open">> \in Seq(E) /\ z \in Seq(E) /\ r \in Seq(E) /\ Len(r) \in Nat
  BY SeqMonotonic DEF Markers
<1>2. Len(z) = 3 /\ z[1] = "gap_close" /\ z[2] = Drop /\ z[3] = "governor_start"
  OBVIOUS
<1> HIDE DEF E, z
<1>3. /\ a \in Seq(E) /\ Len(a) = Len(r) + 1 /\ a[1] = "gap_open"
      /\ \A i \in 1..Len(r) : a[i + 1] = r[i]
  BY <1>1, ConcatProperties
<1> HIDE DEF a
<1>4. /\ Len(a \o z) = Len(r) + 4
      /\ \A i \in 1..(Len(r) + 1) : (a \o z)[i] = a[i]
      /\ (a \o z)[Len(r) + 2] = z[1]
      /\ (a \o z)[Len(r) + 3] = z[2]
      /\ (a \o z)[Len(r) + 4] = z[3]
  <2>1. PICK b : b = a \o z
    OBVIOUS
  <2>2. /\ Len(b) = Len(a) + Len(z)
        /\ \A i \in 1..(Len(a) + Len(z)) :
             b[i] = IF i <= Len(a) THEN a[i] ELSE z[i - Len(a)]
    BY <1>1, <1>3, <2>1, ConcatProperties
  <2>3. PICK n \in Nat : n = Len(r)
    BY <1>1
  <2>4. Len(b) = n + 4 /\ \A i \in 1..(n + 4) : b[i] = IF i <= n + 1 THEN a[i] ELSE z[i - (n + 1)]
    BY <1>2, <1>3, <2>2, <2>3
  <2>5. /\ n + 2 \in 1..(n + 4) /\ ~(n + 2 <= n + 1) /\ n + 2 - (n + 1) = 1
        /\ n + 3 \in 1..(n + 4) /\ ~(n + 3 <= n + 1) /\ n + 3 - (n + 1) = 2
        /\ n + 4 \in 1..(n + 4) /\ ~(n + 4 <= n + 1) /\ n + 4 - (n + 1) = 3
    OBVIOUS
  <2>6. \A i \in 1..(n + 1) : i \in 1..(n + 4) /\ i <= n + 1
    OBVIOUS
  <2> QED BY <2>1, <2>3, <2>4, <2>5, <2>6
<1>5. Ingestion(r) = a \o z
  BY DEF Ingestion, a, z
<1>6. \A i \in 1..Len(r) : i + 1 \in 1..(Len(r) + 1)
  BY <1>1
<1>7. 1 \in 1..(Len(r) + 1)
  BY <1>1
<1> QED BY <1>2, <1>3, <1>4, <1>5, <1>6, <1>7

\* They come in order, and every record of the spool is among them.
LEMMA IngestionOrdered ==
  ASSUME NEW r \in Seq(Hooks)
  PROVE  /\ Ordered(Ingestion(r))
         /\ r = <<>> => Ingestion(r) = <<"governor_start">>
<1>1. CASE r = <<>>
  <2>1. Ingestion(r) = <<"governor_start">>
    BY <1>1 DEF Ingestion
  <2>2. Ordered(<<"governor_start">>)
    BY NamesDiffer DEF Ordered, Notes
  <2> QED BY <2>1, <2>2
<1>2. CASE r # <<>>
  <2> DEFINE n == Len(r)
  <2>1. PICK s : s = Ingestion(r)
    OBVIOUS
  <2>2. /\ Len(s) = n + 4
        /\ s[1] = "gap_open"
        /\ \A i \in 1..n : s[i + 1] = r[i]
        /\ s[n + 2] = "gap_close" /\ s[n + 3] = Drop /\ s[n + 4] = "governor_start"
    BY <1>2, <2>1, IngestionLines
  <2>3. n \in Nat /\ n > 0
    BY <1>2, EmptySeq
  <2>4. ASSUME NEW i \in 1..n PROVE r[i] \in Hooks
    BY ElementOfSeq
  <2>5. ASSUME NEW i \in 2..(n + 1) PROVE s[i] \in Hooks
    <3>1. i - 1 \in 1..n /\ (i - 1) + 1 = i
      BY <2>3
    <3> QED BY <2>2, <2>4, <3>1
  <2> HIDE DEF n
  <2>6. ASSUME NEW i \in 1..(n + 4)
        PROVE  /\ s[i] \in Hooks \union {"gap_open"} =>
                    i < n + 4 /\ s[i + 1] \in Hooks \union {"gap_close"}
               /\ s[i] = "gap_close" => i < n + 4 /\ s[i + 1] = Drop
               /\ s[i] = Drop => i + 1 = n + 4 /\ s[i + 1] = "governor_start"
               /\ s[i] \in Notes => i = n + 4
    <3>1. CASE i \in 1..(n + 1)
      <4>1. s[i] \in Hooks \union {"gap_open"}
        BY <2>2, <2>3, <2>5, <3>1
      <4>2. s[i + 1] \in Hooks \union {"gap_close"} /\ i < n + 4
        <5>1. CASE i = n + 1
          BY <2>2, <2>3, <5>1
        <5>2. CASE i # n + 1
          <6>1. i + 1 \in 2..(n + 1)
            BY <2>3, <3>1, <5>2
          <6> QED BY <2>3, <2>5, <3>1, <6>1
        <5> QED BY <5>1, <5>2
      <4> QED BY <4>1, <4>2, NamesDiffer
    <3>2. CASE i = n + 2
      BY <2>2, <2>3, <3>2, NamesDiffer
    <3>3. CASE i = n + 3
      BY <2>2, <2>3, <3>3, NamesDiffer
    <3>4. CASE i = n + 4
      <4>1. s[i] = "governor_start" /\ s[i] \in Notes
        BY <2>2, <3>4 DEF Notes
      <4> QED BY <3>4, <4>1, NamesDiffer
    <3> QED BY <2>3, <3>1, <3>2, <3>3, <3>4
  <2> QED BY <1>2, <2>1, <2>2, <2>6 DEF Ordered
<1> QED BY <1>1, <1>2

\* What is left after the first line.
LEMMA TailLines ==
  ASSUME TypeOK, todo # <<>>
  PROVE  /\ Len(todo) \in Nat /\ Len(todo) > 0
         /\ Len(Tail(todo)) = Len(todo) - 1
         /\ \A i \in 1..Len(Tail(todo)) : i + 1 \in 1..Len(todo) /\ Tail(todo)[i] = todo[i + 1]
         /\ Head(todo) = todo[1] /\ 1 \in 1..Len(todo)
         /\ \A j \in 1..Len(todo) : j = 1 \/ (j - 1 \in 1..Len(Tail(todo))
                                               /\ Tail(todo)[j - 1] = todo[j])
<1>1. todo \in Seq(Hooks \union Markers \union {Drop})
  BY DEF TypeOK
<1>2. /\ Len(todo) \in Nat /\ Len(todo) > 0
      /\ Len(Tail(todo)) = Len(todo) - 1
      /\ \A i \in 1..Len(Tail(todo)) : Tail(todo)[i] = todo[i + 1]
      /\ Head(todo) = todo[1]
  BY <1>1, EmptySeq, HeadTailProperties
<1>3. PICK t : t = Tail(todo)
  OBVIOUS
<1>4. \A i \in 1..Len(t) : i + 1 \in 1..Len(todo)
  BY <1>2, <1>3
<1>5. \A j \in 1..Len(todo) : j = 1 \/ (j - 1 \in 1..Len(t) /\ t[j - 1] = todo[j])
  <2> SUFFICES ASSUME NEW j \in 1..Len(todo), j # 1
               PROVE  j - 1 \in 1..Len(t) /\ t[j - 1] = todo[j]
    OBVIOUS
  <2>1. j - 1 \in 1..Len(t) /\ (j - 1) + 1 = j
    BY <1>2, <1>3
  <2> QED BY <1>2, <1>3, <2>1
<1> QED BY <1>2, <1>3, <1>4, <1>5

LEMMA TailOrdered ==
  ASSUME TypeOK, todo # <<>>, Ordered(todo)
  PROVE  Ordered(Tail(todo))
<1>1. PICK t : t = Tail(todo)
  OBVIOUS
<1>2. /\ Len(todo) \in Nat /\ Len(todo) > 0 /\ Len(t) = Len(todo) - 1
      /\ \A i \in 1..Len(t) : i + 1 \in 1..Len(todo) /\ t[i] = todo[i + 1]
  BY <1>1, TailLines
<1>3. ASSUME NEW i \in 1..Len(t)
      PROVE  /\ t[i] \in Hooks \union {"gap_open"} =>
                  i < Len(t) /\ t[i + 1] \in Hooks \union {"gap_close"}
             /\ t[i] = "gap_close" => i < Len(t) /\ t[i + 1] = Drop
             /\ t[i] = Drop => i + 1 = Len(t) /\ t[i + 1] = "governor_start"
             /\ t[i] \in Notes => i = Len(t)
  <2>1. i + 1 \in 1..Len(todo) /\ t[i] = todo[i + 1]
    BY <1>2
  <2>2. i + 1 < Len(todo) => i < Len(t) /\ t[i + 1] = todo[(i + 1) + 1]
    BY <1>2
  <2>3. (i + 1) + 1 = Len(todo) => i + 1 = Len(t) /\ t[i + 1] = todo[(i + 1) + 1]
    BY <1>2
  <2>4. i + 1 = Len(todo) => i = Len(t)
    BY <1>2
  <2> QED BY <2>1, <2>2, <2>3, <2>4 DEF Ordered
<1> QED BY <1>1, <1>3 DEF Ordered

LEMMA TodoStep == TypeOK /\ TodoInv /\ [Next]_vars => TodoInv'
<1> SUFFICES ASSUME TypeOK, TodoInv, [Next]_vars PROVE TodoInv'
  OBVIOUS
<1>0. Len(<<>>) = 0 /\ Ordered(<<>>)
  BY DEF Ordered
<1>1. CASE UNCHANGED Rest
  BY <1>1 DEF Rest, TodoInv
<1>2. CASE MainAnchored
  <2>1. todo # <<>> /\ todo' = Tail(todo) /\ spool' = spool /\ gov' = gov
    BY <1>2 DEF MainAnchored, NextIsLine
  <2>2. Ordered(todo')
    BY <2>1, TailOrdered DEF TodoInv
  <2>3. \A i \in 1..Len(todo') : todo'[i] \notin Notes => spool' # <<>>
    BY <2>1, TailLines DEF TodoInv
  <2>4. gov = "stopping" => todo' = <<>>
    <3>1. gov = "stopping" => todo = <<"governor_stop">>
      BY <2>1 DEF TodoInv
    <3>2. Tail(<<"governor_stop">>) = <<>>
      OBVIOUS
    <3> QED BY <2>1, <3>1, <3>2
  <2> QED BY <2>1, <2>2, <2>3, <2>4 DEF TodoInv
<1>3. CASE DropSpool
  <2>1. todo # <<>> /\ Head(todo) = Drop /\ todo' = Tail(todo) /\ gov' = gov
    BY <1>3 DEF DropSpool, NextIsDrop
  <2>2. Ordered(todo')
    BY <2>1, TailOrdered DEF TodoInv
  <2>3. Len(todo) = 2 /\ todo[2] = "governor_start"
    <3>1. Head(todo) = todo[1] /\ 1 \in 1..Len(todo)
      BY <2>1, TailLines
    <3>2. todo[1] = Drop => 1 + 1 = Len(todo) /\ todo[1 + 1] = "governor_start"
      BY <3>1 DEF TodoInv, Ordered
    <3> QED BY <2>1, <3>1, <3>2
  <2>4. \A i \in 1..Len(todo') : todo'[i] \in Notes
    <3>1. /\ Len(Tail(todo)) = Len(todo) - 1
          /\ \A i \in 1..Len(Tail(todo)) : Tail(todo)[i] = todo[i + 1]
      BY <2>1, TailLines
    <3>2. Len(todo') = 1 /\ todo'[1] = todo[2]
      BY <2>1, <2>3, <3>1
    <3> QED BY <2>3, <3>2 DEF Notes
  <2>5. gov = "stopping" => FALSE
    BY <2>1, <2>3 DEF TodoInv
  <2>6. gov \notin {"down", "up"}
    BY <2>1 DEF TodoInv
  <2> QED BY <2>1, <2>2, <2>4, <2>5, <2>6 DEF TodoInv
<1>4. CASE Start
  <2>1. spool \in Seq(Hooks) /\ todo' = Ingestion(spool) /\ spool' = spool /\ gov' = "starting"
    BY <1>4 DEF Start, TypeOK
  <2>2. Ordered(todo') /\ (spool = <<>> => todo' = <<"governor_start">>)
    BY <2>1, IngestionOrdered
  <2>3. \A i \in 1..Len(todo') : todo'[i] \notin Notes => spool' # <<>>
    BY <2>1, <2>2 DEF Notes
  <2> QED BY <2>1, <2>2, <2>3 DEF TodoInv
<1>5. CASE Serve
  BY <1>5 DEF Serve, TodoInv
<1>6. CASE Stop
  BY <1>6, NamesDiffer DEF Stop, TodoInv, Ordered, Notes
<1>7. CASE End
  BY <1>0, <1>7 DEF End, TodoInv
<1>8. ASSUME NEW h \in Hooks, Park(h) PROVE TodoInv'
  <2>1. todo' = todo /\ gov' = gov /\ spool \in Seq(Hooks)
    BY <1>8 DEF Park, TypeOK
  <2>2. spool # <<>> => spool' # <<>>
    <3>1. spool' \in {spool, Append(spool, h)}
      BY <1>8 DEF Park
    <3> QED BY <2>1, <3>1
  <2> QED BY <2>1, <2>2 DEF TodoInv
<1> QED BY <1>1, <1>2, <1>3, <1>4, <1>5, <1>6, <1>7, <1>8, Kinds
     DEF Quiet, ThreadWrote, MainMoves, MainWrote

LEMMA TodoAlways == Spec => []TodoInv
<1>1. Init => TodoInv
  BY DEF Init, TodoInv, Ordered
<1> QED BY <1>1, TodoStep, LedgerTypeCorrect, PTL DEF Spec

-----------------------------------------------------------------------------
(* What was parked is kept.                                                *)

\* The records of anyone after a write: the line's own subject has one more.
LEMMA RecordedGrown ==
  ASSUME TypeOK, NEW id, Grew(id), Intact', NEW x
  PROVE  /\ Intact
         /\ Recorded(x)' = IF x = id THEN Recorded(x) \union {Len(log) + 1} ELSE Recorded(x)
<1>1. /\ Intact
      /\ Len(log') = Len(log) + 1
      /\ log'[Len(log) + 1].id = id
      /\ \A i \in 1..Len(log) : log'[i] = log[i]
  BY DEF Grew
<1>2. Len(log) \in Nat
  BY DEF TypeOK
<1>3. Recorded(x)' = {i \in 1..(Len(log) + 1) : log'[i].id = x}
  BY <1>1 DEF Recorded
<1>4. ASSUME NEW i
      PROVE  i \in Recorded(x)' <=> i \in Recorded(x) \/ (i = Len(log) + 1 /\ x = id)
  <2>1. i \in 1..(Len(log) + 1) <=> i \in 1..Len(log) \/ i = Len(log) + 1
    BY <1>2
  <2>2. Len(log) + 1 \notin 1..Len(log)
    BY <1>2
  <2> QED BY <1>1, <1>3, <2>1, <2>2 DEF Recorded
<1> QED BY <1>1, <1>4

\* While every line parses: the line before the main thread's anchor is there;
\* and a parked record is in the ledger, or in the spool and, before the spool
\* is renamed away, among what the main thread has still to append.
KeptInv ==
  Intact =>
    /\ lock.by = "governor" => Recorded(Head(todo)) # {}
    /\ \A h \in Hooks : hpc[h] = "parked" =>
         \/ Recorded(h) # {}
         \/ InSpool(h) /\ (InTodo(Drop) => InTodo(h))

\* Nothing a start drops from the spool is still to be appended.
LEMMA DropIsLast ==
  ASSUME TypeOK, TodoInv, NextIsDrop
  PROVE  /\ InTodo(Drop) /\ \A h \in Hooks : ~InTodo(h)
         /\ ~(\E i \in 1..Len(Tail(todo)) : Tail(todo)[i] \in Hooks \union {Drop})
<1>1. todo # <<>> /\ Head(todo) = Drop
  BY DEF NextIsDrop
<1>2. Head(todo) = todo[1] /\ 1 \in 1..Len(todo)
  BY <1>1, TailLines
<1>3. 1 + 1 = Len(todo) /\ todo[1 + 1] = "governor_start"
  BY <1>1, <1>2 DEF TodoInv, Ordered
<1>4. ASSUME NEW i \in 1..Len(todo) PROVE todo[i] \notin Hooks /\ (i # 1 => todo[i] # Drop)
  <2>1. i = 1 \/ i = 1 + 1
    <3>1. Len(todo) = 2
      BY <1>3
    <3>2. i \in 1..2
      BY <3>1
    <3> QED BY <3>2
  <2> QED BY <1>1, <1>2, <1>3, <2>1, NamesDiffer DEF Notes
<1>5. ASSUME NEW i \in 1..Len(Tail(todo)) PROVE Tail(todo)[i] \notin Hooks \union {Drop}
  <2>1. i + 1 \in 1..Len(todo) /\ Tail(todo)[i] = todo[i + 1] /\ i + 1 # 1
    BY <1>1, TailLines
  <2> QED BY <1>4, <2>1
<1> QED BY <1>1, <1>2, <1>4, <1>5 DEF InTodo

LEMMA KeptStep ==
  ASSUME SharedState
  PROVE  TypeOK /\ TodoInv /\ KeptInv /\ [Next]_vars => KeptInv'
<1> SUFFICES ASSUME TypeOK, TodoInv, KeptInv, [Next]_vars, Intact'
             PROVE  /\ lock'.by = "governor" => Recorded(Head(todo))' # {}
                    /\ \A h \in Hooks : hpc'[h] = "parked" =>
                         \/ Recorded(h)' # {}
                         \/ InSpool(h)' /\ (InTodo(Drop)' => InTodo(h)')
  BY DEF KeptInv
<1> DEFINE Goal == /\ lock'.by = "governor" => Recorded(Head(todo))' # {}
                   /\ \A h \in Hooks : hpc'[h] = "parked" =>
                        \/ Recorded(h)' # {}
                        \/ InSpool(h)' /\ (InTodo(Drop)' => InTodo(h)')
\* What the ledger has, it keeps.
<1>a. ASSUME log' = log PROVE Intact /\ \A x : Recorded(x)' = Recorded(x)
  BY <1>a DEF Intact, Recorded
<1>b. ASSUME NEW id, Grew(id)
      PROVE  Intact /\ Recorded(id)' # {} /\ \A x : Recorded(x) # {} => Recorded(x)' # {}
  BY <1>b, RecordedGrown
<1>c. ASSUME UNCHANGED Rest
      PROVE  todo' = todo /\ hpc' = hpc /\ \A x : InSpool(x)' = InSpool(x) /\ InTodo(x)' = InTodo(x)
  BY <1>c DEF Rest, InSpool, InTodo
<1>1. CASE Quiet
  <2>1. log' = log /\ UNCHANGED Rest /\ (lock'.by = "governor" <=> lock.by = "governor")
    BY <1>1 DEF Quiet
  <2>2. Recorded(Head(todo))' = Recorded(Head(todo))
    BY <2>1 DEF Rest, Recorded
  <2> QED BY <1>a, <1>c, <2>1, <2>2 DEF KeptInv
<1>2. CASE ThreadWrote
  <2>1. PICK t \in Threads : Grew(t)
    BY <1>2 DEF ThreadWrote
  <2>2. lock'.by # "governor" /\ UNCHANGED Rest
    BY <1>2 DEF ThreadWrote
  <2> QED BY <1>b, <1>c, <2>1, <2>2 DEF KeptInv
<1>3. CASE MainWrote
  <2>1. Grew(Head(todo)) /\ UNCHANGED Rest
    BY <1>3 DEF MainWrote
  <2>2. PICK g : g = Head(todo)
    OBVIOUS
  <2>3. Head(todo)' = g
    BY <2>1, <2>2 DEF Rest
  <2>4. Recorded(g)' # {} /\ Recorded(Head(todo))' = Recorded(g)'
    BY <1>b, <2>1, <2>2, <2>3 DEF Recorded
  <2> QED BY <1>b, <1>c, <2>1, <2>4 DEF KeptInv
<1>4. CASE MainAnchored
  <2>1. /\ log' = log /\ lock.by = "governor" /\ lock'.by = Nobody /\ todo' = Tail(todo)
        /\ spool' = spool /\ hpc' = hpc /\ todo # <<>> /\ Head(todo) # Drop
    BY <1>4 DEF MainAnchored, NextIsLine
  <2>2. lock'.by # "governor"
    BY <2>1, UnlockedType
  <2>3. Recorded(Head(todo)) # {} /\ Head(todo) = todo[1]
    BY <1>a, <2>1, TailLines DEF KeptInv
  <2>4. InTodo(Drop)' => InTodo(Drop)
    <3>1. ASSUME NEW i \in 1..Len(Tail(todo)), Tail(todo)[i] = Drop PROVE InTodo(Drop)
      BY <2>1, <3>1, TailLines DEF InTodo
    <3> QED BY <2>1, <3>1 DEF InTodo
  <2>5. ASSUME NEW h, InTodo(h), h # Head(todo) PROVE InTodo(h)'
    <3>1. PICK j \in 1..Len(todo) : todo[j] = h
      BY <2>5 DEF InTodo
    <3>2. j # 1
      BY <2>3, <2>5, <3>1
    <3>3. j - 1 \in 1..Len(Tail(todo)) /\ Tail(todo)[j - 1] = h
      BY <2>1, <3>1, <3>2, TailLines
    <3> QED BY <2>1, <3>3 DEF InTodo
  <2>6. \A h : InSpool(h)' = InSpool(h)
    BY <2>1 DEF InSpool
  <2> QED BY <1>a, <2>1, <2>2, <2>3, <2>4, <2>5, <2>6 DEF KeptInv
<1>5. CASE DropSpool
  <2>1. log' = log /\ lock' = lock /\ hpc' = hpc /\ NextIsDrop
    BY <1>5 DEF DropSpool, disk
  <2>2. InTodo(Drop) /\ \A h \in Hooks : ~InTodo(h)
    BY <2>1, DropIsLast
  <2>3. lock'.by # "governor"
    BY <2>1 DEF TypeOK, NextIsLine, NextIsDrop
  <2> QED BY <1>a, <2>1, <2>2, <2>3 DEF KeptInv
<1>6. CASE Start
  <2>1. /\ log' = log /\ lock' = lock /\ hpc' = hpc /\ spool' = spool
        /\ todo' = Ingestion(spool) /\ spool \in Seq(Hooks) /\ gov = "down"
    BY <1>6 DEF Start, disk, TypeOK
  <2>2. lock'.by # "governor"
    BY <2>1 DEF TypeOK, TodoInv, NextIsLine
  <2>3. ASSUME NEW h, InSpool(h) PROVE InTodo(h)'
    <3>1. PICK i \in 1..Len(spool) : spool[i] = h
      BY <2>3 DEF InSpool
    <3>2. Len(spool) \in Nat /\ spool # <<>>
      BY <2>1, <3>1
    <3>3. Len(todo') = Len(spool) + 4 /\ todo'[i + 1] = h
      BY <2>1, <3>1, <3>2, IngestionLines
    <3>4. i + 1 \in 1..Len(todo')
      BY <3>2, <3>3
    <3> QED BY <3>3, <3>4 DEF InTodo
  <2>4. \A h : InSpool(h)' = InSpool(h)
    BY <2>1 DEF InSpool
  <2> QED BY <1>a, <2>1, <2>2, <2>3, <2>4 DEF KeptInv
<1>7. CASE Serve \/ Stop
  <2>1. log' = log /\ lock' = lock /\ hpc' = hpc /\ spool' = spool /\ todo = <<>>
    BY <1>7 DEF Serve, Stop, disk, TodoInv
  <2>2. lock'.by # "governor"
    BY <2>1 DEF TypeOK, NextIsLine
  <2>3. ~InTodo(Drop)'
    BY <1>7, NamesDiffer DEF Serve, Stop, InTodo, Notes
  <2>4. \A h : InSpool(h)' = InSpool(h)
    BY <2>1 DEF InSpool
  <2> QED BY <1>a, <2>1, <2>2, <2>3, <2>4 DEF KeptInv
<1>8. CASE End
  <2>1. todo' = <<>> /\ lock'.by # "governor" /\ hpc' = hpc /\ spool' = spool
    BY <1>8, UnlockedType DEF End
  <2>2. ~InTodo(Drop)' /\ \A h : InSpool(h)' = InSpool(h)
    BY <2>1 DEF InTodo, InSpool
  <2>3. Intact /\ \A x : Recorded(x) # {} => Recorded(x)' # {}
    BY <1>8, <1>a, <1>b DEF End
  <2> QED BY <2>1, <2>2, <2>3 DEF KeptInv
<1>9. ASSUME NEW g \in Hooks, Park(g) PROVE Goal
  <2>1. log' = log /\ lock' = lock /\ todo' = todo
    BY <1>9 DEF Park, disk
  <2>2. Recorded(Head(todo))' = Recorded(Head(todo)) /\ InTodo(Drop)' = InTodo(Drop)
    BY <2>1 DEF Recorded, InTodo
  <2>3. \A h : InTodo(h)' = InTodo(h)
    BY <2>1 DEF InTodo
  <2>4. spool \in Seq(Hooks) /\ hpc \in [Hooks -> {"new", "parked", "late", "unrecorded"}]
    BY DEF TypeOK
  <2>5. ASSUME NEW h, InSpool(h) PROVE InSpool(h)'
    <3>1. CASE spool' = spool
      BY <2>5, <3>1 DEF InSpool
    <3>2. CASE spool' = Append(spool, g)
      <4>1. /\ Len(spool') = Len(spool) + 1 /\ Len(spool) \in Nat
            /\ \A i \in 1..Len(spool) : spool'[i] = spool[i] /\ i \in 1..(Len(spool) + 1)
        BY <2>4, <3>2
      <4> QED BY <2>5, <4>1 DEF InSpool
    <3> QED BY <1>9, <3>1, <3>2 DEF Park
  <2>6. ASSUME hpc'[g] = "parked" PROVE InSpool(g)' /\ ~InTodo(Drop)
    <3>1. spool' = Append(spool, g) /\ ~Ingesting
      BY <1>9, <2>4, <2>6 DEF Park
    <3>2. Len(spool') = Len(spool) + 1 /\ Len(spool) \in Nat /\ spool'[Len(spool) + 1] = g
      BY <2>4, <3>1
    <3>3. Len(spool) + 1 \in 1..Len(spool')
      BY <3>2
    <3> QED BY <3>1, <3>2, <3>3 DEF InSpool, InTodo, Ingesting
  <2>7. \A h \in Hooks : h # g => hpc'[h] = hpc[h]
    BY <1>9, <2>4 DEF Park
  <2> QED BY <1>a, <2>1, <2>2, <2>3, <2>5, <2>6, <2>7 DEF KeptInv
<1> QED BY <1>1, <1>2, <1>3, <1>4, <1>5, <1>6, <1>7, <1>8, <1>9, Kinds DEF MainMoves

\* Where the hook parks in the governor's spool, a record parked while no start
\* was ingesting is in the ledger or still in that spool, wherever any number
\* of starts fail.
THEOREM ParkedIsKept ==
  ASSUME SharedState
  PROVE  Spec => []SpooledIsKept
<1>1. Init => KeptInv
  BY UnlockedType DEF Init, KeptInv
<1>2. KeptInv => SpooledIsKept
  BY DEF KeptInv, SpooledIsKept, InSpool
<1> QED BY <1>1, <1>2, KeptStep, TodoAlways, LedgerTypeCorrect, PTL DEF Spec

-----------------------------------------------------------------------------
(* While nothing fails.                                                    *)

\* A step without a fault leaves the file alone or writes a whole line.
WholeStep ==
  \/ UNCHANGED <<log, ragged>>
  \/ \E id \in Records : \E who : WriteLine(who, id)

LEMMA NoFaultStep ==
  ASSUME TypeOK, [Next]_vars, faults' = 0
  PROVE  faults = 0 /\ WholeStep
<1>0. faults \in Nat /\ ~Fault
  BY BoundsAssumption DEF TypeOK, Fault
<1>1. ASSUME NEW t \in Threads, AppendFails(t) PROVE FALSE
  BY <1>0, <1>1 DEF AppendFails, FailLine, FailAnchor
<1>2. ASSUME NEW t \in Threads, ThreadLine(t) \/ ThreadAnchor(t) PROVE faults = 0 /\ WholeStep
  <2>1. t \in Records
    BY ThreadIsRecord
  <2> QED BY <1>2, <2>1 DEF ThreadLine, ThreadAnchor, WriteLine, WriteAnchor, NoFault, WholeStep
<1>3. ASSUME NEW c \in Calls, CallStep(c) PROVE faults = 0 /\ WholeStep
  <2>1. c \in Threads
    BY DEF Threads
  <2> QED BY <1>0, <1>1, <1>2, <1>3, <2>1
       DEF CallStep, CallFails, DrawSeq, disk, NoFault, WholeStep
<1>4. ASSUME NEW k \in Commands, CommandStep(k) PROVE faults = 0 /\ WholeStep
  <2>1. k \in Threads
    BY DEF Threads
  <2> QED BY <1>1, <1>2, <1>4, <2>1 DEF CommandStep, CommandFails, Act, disk, WholeStep
<1>5. CASE MainStep
  <2>1. CASE MainLine
    BY <2>1, NextLineIsRecord DEF MainLine, WriteLine, NoFault, WholeStep
  <2>2. CASE MainAnchor
    BY <2>2 DEF MainAnchor, WriteAnchor, NoFault, WholeStep
  <2>3. ~Crash
    BY <1>0 DEF Crash
  <2> QED BY <1>5, <2>1, <2>2, <2>3
       DEF MainStep, Start, DropSpool, Serve, Stop, Exit, disk, WholeStep
<1>6. CASE \E h \in Hooks : Park(h)
  BY <1>0, <1>6 DEF Park, disk, NoFault, WholeStep
<1>7. CASE \E v \in Verifiers : VerifierStep(v)
  BY <1>7 DEF VerifierStep, Walk, ReadAnchor, Conclude, disk, WholeStep
<1>8. CASE UNCHANGED vars
  BY <1>8 DEF vars, disk, WholeStep
<1> QED BY <1>3, <1>4, <1>5, <1>6, <1>7, <1>8 DEF Next

\* The ledger is whole.
WholeInv == faults = 0 => ragged = FALSE /\ Intact

LEMMA WholeAlways == Spec => []WholeInv
<1>1. Init => WholeInv
  BY DEF Init, WholeInv, Intact
<1>2. TypeOK /\ WholeInv /\ [Next]_vars => WholeInv'
  <2> SUFFICES ASSUME TypeOK, WholeInv, [Next]_vars, faults' = 0
               PROVE  ragged' = FALSE /\ Intact'
    BY DEF WholeInv
  <2>1. ragged = FALSE /\ Intact /\ WholeStep
    BY NoFaultStep DEF WholeInv
  <2>2. ASSUME NEW id \in Records, NEW who, WriteLine(who, id) PROVE Intact' /\ ragged' = FALSE
    <3>1. log' = Extended(Event(id, ChainHead)) /\ ragged' = FALSE /\ Len(log) \in Nat
      BY <2>2 DEF WriteLine, TypeOK
    <3>2. /\ Len(log') = Len(log) + 1
          /\ log'[Len(log) + 1] = Event(id, ChainHead)
          /\ \A i \in 1..Len(log) : log'[i] = log[i]
      BY <2>1, <3>1, LineType, ExtendedShape
    <3>3. Parses(Event(id, ChainHead))
      BY NamesAssumption DEF Parses, Event, Records, Markers
    <3>4. ASSUME NEW i \in 1..(Len(log) + 1) PROVE Parses(log'[i])
      <4>1. i \in 1..Len(log) \/ i = Len(log) + 1
        BY <3>1
      <4> QED BY <2>1, <3>2, <3>3, <4>1 DEF Intact
    <3> QED BY <3>1, <3>2, <3>4 DEF Intact
  <2> QED BY <2>1, <2>2 DEF WholeStep, Intact
<1> QED BY <1>1, <1>2, LedgerTypeCorrect, PTL DEF Spec

\* Ledger, spool and main thread have each record at most once; one the main
\* thread has still to append is not in the ledger, unless its line is written
\* and its anchor is not; one in the spool is not, unless a start is at it.
Unique(s, h) == \A i, j \in 1..Len(s) : s[i] = h /\ s[j] = h => i = j
OnceOf(h) ==
  /\ \A i, j \in Recorded(h) : i = j
  /\ Unique(spool, h)
  /\ Unique(todo, h)
  /\ InTodo(h) => Recorded(h) = {} \/ (lock.by = "governor" /\ Head(todo) = h)
  /\ InSpool(h) /\ ~InTodo(Drop) => Recorded(h) = {}
  /\ hpc[h] = "new" => ~InSpool(h) /\ ~InTodo(h) /\ Recorded(h) = {}
IngestedOnceInv == faults = 0 => \A h \in Hooks : OnceOf(h)

\* A start reads the spool's records each into one place.
LEMMA IngestionUnique ==
  ASSUME NEW r \in Seq(Hooks), NEW h \in Hooks, Unique(r, h)
  PROVE  /\ Unique(Ingestion(r), h)
         /\ \A i \in 1..Len(Ingestion(r)) :
              Ingestion(r)[i] = h => \E j \in 1..Len(r) : r[j] = h
<1>1. CASE r = <<>>
  <2>1. Ingestion(r) = <<"governor_start">>
    BY <1>1, IngestionOrdered
  <2>2. "governor_start" # h
    BY NamesDiffer DEF Notes
  <2> QED BY <2>1, <2>2 DEF Unique
<1>2. CASE r # <<>>
  <2>1. PICK s : s = Ingestion(r)
    OBVIOUS
  <2>2. PICK n \in Nat : n = Len(r)
    BY LenProperties
  <2>3. /\ Len(s) = n + 4
        /\ s[1] = "gap_open"
        /\ \A i \in 1..n : s[i + 1] = r[i]
        /\ s[n + 2] = "gap_close" /\ s[n + 3] = Drop /\ s[n + 4] = "governor_start"
    BY <1>2, <2>1, <2>2, IngestionLines
  <2>4. ASSUME NEW i \in 1..(n + 4), s[i] = h PROVE i - 1 \in 1..n /\ r[i - 1] = h
    <3>1. i # 1 /\ i # n + 2 /\ i # n + 3 /\ i # n + 4
      BY <2>3, <2>4, NamesDiffer DEF Notes
    <3>2. i - 1 \in 1..n /\ (i - 1) + 1 = i
      BY <3>1
    <3> QED BY <2>3, <2>4, <3>2
  <2>5. ASSUME NEW i \in 1..(n + 4), NEW j \in 1..(n + 4), s[i] = h, s[j] = h PROVE i = j
    <3>1. i - 1 = j - 1
      BY <2>2, <2>4, <2>5 DEF Unique
    <3> QED BY <3>1
  <2> QED BY <2>1, <2>2, <2>3, <2>4, <2>5 DEF Unique
<1> QED BY <1>1, <1>2

\* What stays of a record's places after the first line.
LEMMA TailPlaces ==
  ASSUME TypeOK, todo # <<>>, todo' = Tail(todo), NEW h
  PROVE  /\ InTodo(h)' => InTodo(h)
         /\ h # Head(todo) => (InTodo(h)' <=> InTodo(h))
         /\ Unique(todo, h) => Unique(todo', h)
         /\ Unique(todo, h) /\ h = Head(todo) => ~InTodo(h)'
<1>1. PICK t : t = Tail(todo)
  OBVIOUS
<1>2. /\ Len(todo) \in Nat /\ Len(t) = Len(todo) - 1
      /\ \A i \in 1..Len(t) : i + 1 \in 1..Len(todo) /\ t[i] = todo[i + 1]
      /\ Head(todo) = todo[1] /\ 1 \in 1..Len(todo)
      /\ \A j \in 1..Len(todo) : j = 1 \/ (j - 1 \in 1..Len(t) /\ t[j - 1] = todo[j])
  BY <1>1, TailLines
<1>3. InTodo(h)' <=> \E i \in 1..Len(t) : t[i] = h
  BY <1>1 DEF InTodo
<1>4. InTodo(h)' => InTodo(h)
  BY <1>2, <1>3 DEF InTodo
<1>5. ASSUME h # Head(todo), InTodo(h) PROVE InTodo(h)'
  <2>1. PICK j \in 1..Len(todo) : todo[j] = h
    BY <1>5 DEF InTodo
  <2>2. j - 1 \in 1..Len(t) /\ t[j - 1] = h
    BY <1>2, <1>5, <2>1
  <2> QED BY <1>3, <2>2
<1>6. ASSUME Unique(todo, h), NEW i \in 1..Len(t), NEW j \in 1..Len(t), t[i] = h, t[j] = h
      PROVE  i = j
  <2>1. i + 1 = j + 1
    BY <1>2, <1>6 DEF Unique
  <2> QED BY <2>1
<1>7. ASSUME Unique(todo, h), h = Head(todo), NEW i \in 1..Len(t), t[i] = h PROVE FALSE
  <2>1. i + 1 = 1
    BY <1>2, <1>7 DEF Unique
  <2> QED BY <2>1
<1>8. Unique(todo, h) => Unique(t, h)
  BY <1>6 DEF Unique
<1> QED BY <1>1, <1>3, <1>4, <1>5, <1>7, <1>8

LEMMA IngestedOnceStep ==
  TypeOK /\ TodoInv /\ WholeInv /\ WholeInv' /\ IngestedOnceInv /\ [Next]_vars => IngestedOnceInv'
<1> SUFFICES ASSUME TypeOK, TodoInv, WholeInv', IngestedOnceInv, [Next]_vars, faults' = 0,
                    NEW h \in Hooks
             PROVE  OnceOf(h)'
  BY DEF IngestedOnceInv
<1>0. faults = 0 /\ OnceOf(h) /\ Intact'
  BY NoFaultStep DEF IngestedOnceInv, WholeInv
<1>a. ASSUME log' = log PROVE Recorded(h)' = Recorded(h)
  BY <1>a DEF Recorded
<1>b. ASSUME UNCHANGED Rest
      PROVE  /\ todo' = todo /\ spool' = spool /\ hpc' = hpc
             /\ InSpool(h)' = InSpool(h) /\ InTodo(h)' = InTodo(h) /\ InTodo(Drop)' = InTodo(Drop)
  BY <1>b DEF Rest, InSpool, InTodo
<1>1. CASE Quiet
  <2>1. log' = log /\ UNCHANGED Rest /\ (lock'.by = "governor" <=> lock.by = "governor")
    BY <1>1 DEF Quiet
  <2> QED BY <1>0, <1>a, <1>b, <2>1 DEF OnceOf
<1>2. CASE ThreadWrote
  <2>1. PICK t \in Threads : Grew(t)
    BY <1>2 DEF ThreadWrote
  <2>2. UNCHANGED Rest /\ lock.by # "governor" /\ h # t
    BY <1>2, NamesDiffer DEF ThreadWrote
  <2>3. Recorded(h)' = Recorded(h)
    BY <1>0, <2>1, <2>2, RecordedGrown
  <2> QED BY <1>0, <1>b, <2>2, <2>3 DEF OnceOf
<1>3. CASE MainWrote
  <2>1. /\ Grew(Head(todo)) /\ UNCHANGED Rest /\ NextIsLine
        /\ lock.by # "governor" /\ lock'.by = "governor"
    BY <1>3, UnlockedType DEF MainWrote
  <2>2. todo # <<>> /\ Head(todo)' = Head(todo)
    BY <2>1 DEF NextIsLine, Rest
  <2>3. CASE h = Head(todo)
    <3>1. InTodo(h) /\ InTodo(Drop)
      <4>1. Head(todo) = todo[1] /\ 1 \in 1..Len(todo)
        BY <2>2, TailLines
      <4>2. ASSUME NEW i \in 1..Len(todo), todo[i] \in Hooks \union {"gap_close"}
            PROVE  i + 1 \in 1..Len(todo) /\ todo[i + 1] \in Hooks \union {"gap_close", Drop}
        <5>1. Len(todo) \in Nat
          BY <2>2, TailLines
        <5>2. i < Len(todo) /\ todo[i + 1] \in Hooks \union {"gap_close", Drop}
          BY <4>2 DEF TodoInv, Ordered
        <5> QED BY <5>1, <5>2
      <4>3. ASSUME ~InTodo(Drop) PROVE FALSE
        <5> DEFINE S == {i \in 1..Len(todo) : todo[i] \in Hooks \union {"gap_close"}}
        <5>1. 1 \in S /\ Len(todo) \in Nat
          BY <2>2, <2>3, <4>1, TailLines
        <5>2. S \in SUBSET (1..Len(todo)) /\ S # {}
          BY <5>1
        <5>3. PICK m \in S : \A j \in S : j <= m
          <6> HIDE DEF S
          <6> QED BY <5>1, <5>2, LastExists
        <5>4. m + 1 \in S
          BY <4>2, <4>3 DEF InTodo
        <5> QED BY <5>3, <5>4
      <4> QED BY <2>3, <4>1, <4>3 DEF InTodo
    <3>2. Recorded(h) = {}
      BY <1>0, <2>1, <3>1 DEF OnceOf
    <3>3. Recorded(h)' = {Len(log) + 1}
      BY <1>0, <2>1, <2>3, <3>2, RecordedGrown
    <3>4. hpc[h] # "new"
      BY <1>0, <3>1 DEF OnceOf
    <3> QED BY <1>0, <1>b, <2>1, <2>2, <2>3, <3>1, <3>3, <3>4 DEF OnceOf
  <2>4. CASE h # Head(todo)
    <3>1. Recorded(h)' = Recorded(h)
      BY <1>0, <2>1, <2>4, RecordedGrown
    <3> QED BY <1>0, <1>b, <2>1, <3>1 DEF OnceOf
  <2> QED BY <2>3, <2>4
<1>4. CASE MainAnchored
  <2>1. /\ log' = log /\ todo' = Tail(todo) /\ spool' = spool /\ hpc' = hpc
        /\ todo # <<>> /\ Head(todo) # Drop
    BY <1>4 DEF MainAnchored, NextIsLine
  <2>2. /\ InTodo(h)' => InTodo(h)
        /\ h # Head(todo) => (InTodo(h)' <=> InTodo(h))
        /\ Unique(todo', h)
        /\ h = Head(todo) => ~InTodo(h)'
    BY <1>0, <2>1, TailPlaces DEF OnceOf
  <2>3. InTodo(Drop)' <=> InTodo(Drop)
    BY <2>1, TailPlaces
  <2>4. InSpool(h)' = InSpool(h)
    BY <2>1 DEF InSpool
  <2>5. Recorded(h)' = Recorded(h)
    BY <1>a, <2>1
  <2> QED BY <1>0, <2>1, <2>2, <2>3, <2>4, <2>5 DEF OnceOf
<1>5. CASE DropSpool
  <2>1. /\ log' = log /\ lock' = lock /\ hpc' = hpc /\ NextIsDrop /\ spool' = <<>>
        /\ todo' = Tail(todo) /\ todo # <<>>
    BY <1>5 DEF DropSpool, disk, NextIsDrop
  <2>2. ~InTodo(h)
    BY <2>1, DropIsLast
  <2>3. ~InTodo(h)' /\ Unique(todo', h)
    BY <1>0, <2>1, <2>2, TailPlaces DEF OnceOf
  <2>4. ~InSpool(h)' /\ Unique(spool', h)
    BY <2>1 DEF InSpool, Unique
  <2> QED BY <1>0, <1>a, <2>1, <2>3, <2>4 DEF OnceOf
<1>6. CASE Start
  <2>1. /\ log' = log /\ hpc' = hpc /\ spool' = spool
        /\ todo' = Ingestion(spool) /\ spool \in Seq(Hooks) /\ todo = <<>>
    BY <1>6 DEF Start, disk, TypeOK, TodoInv
  <2>2. ~InTodo(Drop)
    BY <2>1 DEF InTodo
  <2>3. Unique(todo', h) /\ (InTodo(h)' => InSpool(h))
    BY <1>0, <2>1, IngestionUnique DEF OnceOf, InTodo, InSpool
  <2>4. InSpool(h)' = InSpool(h)
    BY <2>1 DEF InSpool
  <2> QED BY <1>0, <1>a, <2>1, <2>2, <2>3, <2>4 DEF OnceOf
<1>7. CASE Serve \/ Stop \/ End
  <2>1. /\ log' = log /\ hpc' = hpc /\ spool' = spool
        /\ todo = <<>> /\ todo' \in {<<>>, <<"governor_stop">>}
    BY <1>0, <1>7 DEF Serve, Stop, End, disk, TodoInv
  <2>2. ~InTodo(Drop) /\ ~InTodo(h)' /\ Unique(todo', h)
    BY <2>1, NamesDiffer DEF InTodo, Unique, Notes
  <2>3. InSpool(h)' = InSpool(h)
    BY <2>1 DEF InSpool
  <2> QED BY <1>0, <1>a, <2>1, <2>2, <2>3 DEF OnceOf
<1>8. ASSUME NEW g \in Hooks, Park(g) PROVE OnceOf(h)'
  <2>1. log' = log /\ lock' = lock /\ todo' = todo /\ hpc[g] = "new"
    BY <1>8 DEF Park, disk
  <2>2. InTodo(h)' = InTodo(h) /\ InTodo(Drop)' = InTodo(Drop)
    BY <2>1 DEF InTodo
  <2>0. CASE ~SharedState
    <3>1. spool' = spool /\ hpc[g] = "new" /\ \A x \in Hooks : hpc'[x] = "new" => hpc[x] = "new"
      BY <1>8, <2>0 DEF Park, TypeOK
    <3>2. InSpool(h)' = InSpool(h)
      BY <3>1 DEF InSpool
    <3> QED BY <1>0, <1>a, <2>1, <2>2, <3>1, <3>2 DEF OnceOf, Unique
  <2> SUFFICES ASSUME SharedState PROVE OnceOf(h)'
    BY <2>0
  <2>3. spool' = Append(spool, g) /\ hpc' = [hpc EXCEPT ![g] = IF Ingesting THEN "late" ELSE "parked"]
    <3>1. ~Fault
      BY <1>0, BoundsAssumption DEF Fault, TypeOK
    <3> QED BY <1>8, <3>1 DEF Park
  <2>4. spool \in Seq(Hooks) /\ hpc \in [Hooks -> {"new", "parked", "late", "unrecorded"}]
    BY DEF TypeOK
  <2>5. PICK n \in Nat : n = Len(spool)
    BY <2>4
  <2>6. Len(spool') = n + 1 /\ spool'[n + 1] = g /\ \A i \in 1..n : spool'[i] = spool[i]
    BY <2>3, <2>4, <2>5
  <2>7. CASE h = g
    <3>1. ~InSpool(h) /\ ~InTodo(h) /\ Recorded(h) = {}
      BY <1>0, <2>1, <2>7 DEF OnceOf
    <3>2. \A i \in 1..(n + 1) : spool'[i] = h => i = n + 1
      <4>1. \A i \in 1..(n + 1) : i = n + 1 \/ i \in 1..n
        OBVIOUS
      <4> QED BY <2>5, <2>6, <3>1, <4>1 DEF InSpool
    <3>3. Unique(spool', h)
      BY <2>6, <3>2 DEF Unique
    <3>4. hpc'[h] # "new"
      BY <2>3, <2>4, <2>7
    <3>5. Recorded(h)' = {} /\ ~InTodo(h)' /\ Unique(todo', h)
      BY <1>0, <1>a, <2>1, <2>2, <3>1 DEF OnceOf
    <3> QED BY <3>3, <3>4, <3>5 DEF OnceOf
  <2>8. CASE h # g
    <3>1. \A i \in 1..(n + 1) : i = n + 1 \/ i \in 1..n
      OBVIOUS
    <3>2. InSpool(h)' => InSpool(h)
      BY <2>5, <2>6, <2>8, <3>1 DEF InSpool
    <3>3. Unique(spool', h)
      <4>1. ASSUME NEW i \in 1..(n + 1), NEW j \in 1..(n + 1), spool'[i] = h, spool'[j] = h
            PROVE  i = j
        <5>1. i \in 1..n /\ j \in 1..n /\ spool[i] = h /\ spool[j] = h
          BY <2>6, <2>8, <3>1, <4>1
        <5> QED BY <1>0, <2>5, <5>1 DEF OnceOf, Unique
      <4> QED BY <2>6, <4>1 DEF Unique
    <3>4. hpc'[h] = hpc[h]
      BY <2>3, <2>4, <2>8
    <3>5. Recorded(h)' = Recorded(h) /\ Head(todo)' = Head(todo)
      BY <1>a, <2>1
    <3> QED BY <1>0, <2>1, <2>2, <3>2, <3>3, <3>4, <3>5 DEF OnceOf
  <2> QED BY <2>7, <2>8
<1> QED BY <1>1, <1>2, <1>3, <1>4, <1>5, <1>6, <1>7, <1>8, Kinds DEF MainMoves

\* Without faults no parked record is ingested twice, over any number of
\* restarts.
THEOREM IngestedOnce == Spec => []SpooledOnce
<1>1. Init => IngestedOnceInv
  BY DEF Init, IngestedOnceInv, OnceOf, Unique, InTodo, InSpool, Recorded
<1>2. IngestedOnceInv => SpooledOnce
  <2> SUFFICES ASSUME IngestedOnceInv, faults = 0, NEW h \in Hooks
               PROVE  Cardinality(Recorded(h)) <= 1
    BY DEF SpooledOnce
  <2>1. \A i, j \in Recorded(h) : i = j
    BY DEF IngestedOnceInv, OnceOf
  <2>2. CASE Recorded(h) = {}
    BY <2>2, FS_EmptySet
  <2>3. CASE Recorded(h) # {}
    <3>1. PICK i \in Recorded(h) : TRUE
      BY <2>3
    <3>2. Recorded(h) = {i}
      BY <2>1, <3>1
    <3> QED BY <3>2, FS_Singleton
  <2> QED BY <2>2, <2>3
<1> QED BY <1>1, <1>2, IngestedOnceStep, WholeAlways, TodoAlways, LedgerTypeCorrect, PTL DEF Spec

-----------------------------------------------------------------------------
(* Verification while nothing fails.                                       *)

Untroubled == faults = 0 /\ \A t \in Threads : pc[t] # "lost"

\* A step that leaves nobody in the middle of an append: nothing is written, a
\* whole line, an anchor, or a verifier goes on.
NothingWritten ==
  /\ UNCHANGED <<log, anchor, ver>>
  /\ lock' = lock \/ (lock.by = Nobody /\ lock'.by = Nobody)
LineWritten ==
  ver' = ver /\ \E id \in Records, who \in Threads \union {"governor"} : WriteLine(who, id)
AnchorWritten ==
  ver' = ver /\ \E who \in Threads \union {"governor"} : WriteAnchor(who)
VerifierMoved ==
  UNCHANGED <<log, anchor, lock>> /\ \E v \in Verifiers : VerifierStep(v)

LEMMA UntroubledStep ==
  ASSUME TypeOK, [Next]_vars, Untroubled'
  PROVE  Untroubled /\ (NothingWritten \/ LineWritten \/ AnchorWritten \/ VerifierMoved)
<1>0. /\ faults = 0 /\ ~Fault
      /\ pc \in [Threads -> {"new", "decided", "written", "answered", "failed", "lost"}]
      /\ \A t \in Threads : pc'[t] # "lost"
  <2>1. faults' = 0
    BY DEF Untroubled
  <2>2. faults = 0
    BY <2>1, NoFaultStep
  <2> QED BY <2>1, <2>2 DEF Untroubled, Fault, TypeOK
<1>1. ASSUME pc' = pc PROVE Untroubled
  BY <1>0, <1>1 DEF Untroubled
<1>2. ASSUME NEW t \in Threads, NEW p, SetPc(t, p), pc[t] # "lost" PROVE Untroubled
  BY <1>0, <1>2 DEF Untroubled, SetPc
<1>3. ASSUME NEW t \in Threads, ThreadLine(t) \/ ThreadAnchor(t)
      PROVE  Untroubled /\ (LineWritten \/ AnchorWritten)
  <2>1. Untroubled
    BY <1>2, <1>3 DEF ThreadLine, ThreadAnchor
  <2> QED BY <1>3, <2>1, ThreadIsRecord DEF ThreadLine, ThreadAnchor, LineWritten, AnchorWritten
<1>4. ASSUME NEW t \in Threads, AppendFails(t) PROVE FALSE
  BY <1>0, <1>4 DEF AppendFails, FailLine, FailAnchor
<1>5. ASSUME NEW c \in Calls, CallStep(c)
      PROVE  Untroubled /\ (NothingWritten \/ LineWritten \/ AnchorWritten)
  <2>1. c \in Threads
    BY DEF Threads
  <2>2. CASE DrawSeq(c)
    <3>1. SetPc(c, "decided") /\ pc[c] # "lost"
      BY <1>0, <2>2 DEF DrawSeq
    <3>2. Untroubled
      BY <1>2, <2>1, <3>1
    <3> QED BY <2>2, <3>2 DEF DrawSeq, disk, NothingWritten
  <2> QED BY <1>3, <1>4, <1>5, <2>1, <2>2 DEF CallStep, CallFails
<1>6. ASSUME NEW k \in Commands, CommandStep(k)
      PROVE  Untroubled /\ (NothingWritten \/ LineWritten \/ AnchorWritten)
  <2>1. k \in Threads
    BY DEF Threads
  <2>2. CASE Act(k)
    <3>1. Untroubled
      BY <1>2, <2>1, <2>2 DEF Act
    <3> QED BY <2>2, <3>1 DEF Act, disk, NothingWritten
  <2> QED BY <1>3, <1>4, <1>6, <2>1, <2>2 DEF CommandStep, CommandFails
<1>7. CASE MainStep
  <2>1. CASE MainLine
    <3>1. Head(todo) \in Records /\ Untroubled
      BY <1>1, <2>1, NextLineIsRecord DEF MainLine
    <3> QED BY <2>1, <3>1 DEF MainLine, LineWritten
  <2>2. CASE MainAnchor
    BY <1>1, <2>2 DEF MainAnchor, AnchorWritten
  <2>3. CASE Exit
    <3>1. todo = <<>> /\ lock' = Unlocked /\ UNCHANGED <<log, anchor, ver>>
      BY <2>3 DEF Exit, Ended
    <3>2. pc' = [t \in Threads |-> IF pc[t] \in {"decided", "written"} THEN "lost" ELSE pc[t]]
      BY <2>3 DEF Exit, Ended
    <3>3. \A t \in Threads : pc[t] \notin {"lost", "written"}
      BY <1>0, <3>2
    <3>4. lock.by = Nobody
      BY <3>1, <3>3 DEF TypeOK, NextIsLine
    <3> QED BY <1>0, <3>1, <3>3, <3>4, UnlockedType DEF NothingWritten, Untroubled
  <2>4. ~Crash
    BY <1>0 DEF Crash
  <2> QED BY <1>1, <1>7, <2>1, <2>2, <2>3, <2>4
       DEF MainStep, Start, DropSpool, Serve, Stop, disk, NothingWritten
<1>8. CASE \E h \in Hooks : Park(h)
  BY <1>1, <1>8 DEF Park, disk, NothingWritten
<1>9. CASE \E v \in Verifiers : VerifierStep(v)
  BY <1>1, <1>9 DEF VerifierStep, Walk, ReadAnchor, Conclude, disk, VerifierMoved
<1>10. CASE UNCHANGED vars
  BY <1>1, <1>10 DEF vars, disk, NothingWritten
<1> QED BY <1>5, <1>6, <1>7, <1>8, <1>9, <1>10 DEF Next

\* A whole line written to a whole ledger.
LEMMA LineWrittenHead ==
  ASSUME TypeOK, ragged = FALSE, NEW id \in Records, NEW who, WriteLine(who, id)
  PROVE  Len(log') = Len(log) + 1 /\ LastHash(log') = lock'.head
<1>1. /\ log' = Extended(Event(id, ChainHead)) /\ Len(log) \in Nat
      /\ lock'.head = Append(ChainHead, id)
  BY DEF WriteLine, TypeOK
<1>2. Len(log') = Len(log) + 1 /\ log'[Len(log) + 1] = Event(id, ChainHead)
  BY <1>1, LineType, ExtendedShape
<1>3. Parses(Event(id, ChainHead))
  BY NamesAssumption DEF Parses, Event, Records, Markers
<1>4. LastHash(log') = Event(id, ChainHead).hash
  BY <1>1, <1>2, <1>3, HashOfParsed DEF LastHash
<1> QED BY <1>1, <1>2, <1>4 DEF Event

\* The anchor names the ledger's head whenever nobody is in append(); and what
\* a verifier has read still holds if no append has run since it began.
CalmOf(v) ==
  /\ v.pc # "idle" => v.chain /\ v.len <= Len(log)
  /\ v.pc # "idle" /\ v.calm /\ v.len = Len(log) => lock.by = Nobody
  /\ v.pc = "anchored" /\ v.calm /\ v.len = Len(log) => v.anchor = LastHash(log)
  /\ v.verdict = "alarm" => ~v.calm
CalmInv ==
  Untroubled =>
    /\ lock.by = Nobody => anchor = LastHash(log)
    /\ lock.by # Nobody => lock.head = LastHash(log)
    /\ \A v \in Verifiers : CalmOf(ver[v])

LEMMA CalmStep ==
  TypeOK /\ WholeInv /\ ChainHolds /\ CalmInv /\ [Next]_vars => CalmInv'
<1> SUFFICES ASSUME TypeOK, WholeInv, ChainHolds, CalmInv, [Next]_vars, Untroubled'
             PROVE  /\ lock'.by = Nobody => anchor' = LastHash(log')
                    /\ lock'.by # Nobody => lock'.head = LastHash(log')
                    /\ \A v \in Verifiers : CalmOf(ver[v])'
  BY DEF CalmInv
<1>1. /\ ragged = FALSE /\ Intact
      /\ NothingWritten \/ LineWritten \/ AnchorWritten \/ VerifierMoved
      /\ lock.by = Nobody => anchor = LastHash(log)
      /\ lock.by # Nobody => lock.head = LastHash(log)
      /\ \A v \in Verifiers : CalmOf(ver[v])
  BY UntroubledStep DEF WholeInv, CalmInv, Untroubled
<1>2. /\ Len(log) \in Nat /\ ver \in [Verifiers -> VerifierState]
      /\ \A v \in Verifiers : ver[v] \in VerifierState /\ ver[v].len \in Nat
  BY DEF TypeOK, VerifierState
<1>3. CASE NothingWritten
  <2>1. log' = log /\ anchor' = anchor /\ ver' = ver /\ (lock'.by = Nobody <=> lock.by = Nobody)
    BY <1>3 DEF NothingWritten
  <2>2. lock'.by # Nobody => lock'.head = lock.head
    BY <1>3 DEF NothingWritten
  <2>3. \A v \in Verifiers : CalmOf(ver[v])'
    BY <1>1, <2>1 DEF CalmOf
  <2> QED BY <1>1, <2>1, <2>2, <2>3
<1>4. CASE LineWritten
  <2>1. PICK id \in Records, who \in Threads \union {"governor"} : WriteLine(who, id)
    BY <1>4 DEF LineWritten
  <2>2. Len(log') = Len(log) + 1 /\ LastHash(log') = lock'.head
    BY <1>1, <2>1, LineWrittenHead
  <2>3. lock'.by = who /\ who # Nobody /\ ver' = ver
    BY <1>4, <2>1, UnlockedType DEF WriteLine, LineWritten
  <2>4. ASSUME NEW v \in Verifiers PROVE CalmOf(ver[v])'
    <3>1. CalmOf(ver[v]) /\ ver[v].len \in Nat /\ ver'[v] = ver[v]
      BY <1>1, <1>2, <2>3
    <3>2. ver[v].pc # "idle" => ver[v].len <= Len(log') /\ ver[v].len # Len(log')
      BY <1>2, <2>2, <3>1 DEF CalmOf
    <3>3. ver[v].pc = "anchored" => ver[v].pc # "idle"
      OBVIOUS
    <3> QED BY <3>1, <3>2, <3>3 DEF CalmOf
  <2> QED BY <2>2, <2>3, <2>4
<1>5. CASE AnchorWritten
  <2>1. PICK who \in Threads \union {"governor"} : WriteAnchor(who)
    BY <1>5 DEF AnchorWritten
  <2>2. log' = log /\ ver' = ver /\ lock.by # Nobody /\ anchor' = lock.head /\ lock'.by = Nobody
    BY <1>5, <2>1, UnlockedType DEF WriteAnchor, AnchorWritten
  <2>3. ASSUME NEW v \in Verifiers PROVE CalmOf(ver[v])'
    <3>1. CalmOf(ver[v]) /\ ver'[v] = ver[v]
      BY <1>1, <2>2
    <3>2. ~(ver[v].pc # "idle" /\ ver[v].calm /\ ver[v].len = Len(log))
      BY <2>2, <3>1 DEF CalmOf
    <3>3. ver[v].pc = "anchored" => ver[v].pc # "idle"
      OBVIOUS
    <3> QED BY <2>2, <3>1, <3>2, <3>3 DEF CalmOf
  <2> QED BY <1>1, <2>2, <2>3
<1>6. CASE VerifierMoved
  <2>1. log' = log /\ anchor' = anchor /\ lock' = lock
    BY <1>6 DEF VerifierMoved
  <2>2. PICK v \in Verifiers : VerifierStep(v)
    BY <1>6 DEF VerifierMoved
  <2>3. ver[v] \in VerifierState /\ CalmOf(ver[v])
    BY <1>1, <1>2
  <2>4. \A w \in Verifiers : w # v => ver'[w] = ver[w]
    BY <1>2, <2>2 DEF VerifierStep, Walk, ReadAnchor, Conclude
  <2>5. CalmOf(ver[v])'
    <3>1. CASE Walk(v)
      <4>1. ver'[v] = [Verdict("none", lock.by = Nobody) EXCEPT
                         !.pc = "walked", !.chain = Verifies(log), !.len = Len(log)]
        BY <1>2, <3>1 DEF Walk
      <4>2. Verifies(log)
        BY <1>1 DEF Verifies, ChainHolds, Intact
      <4>3. /\ ver'[v].pc = "walked" /\ ver'[v].chain = Verifies(log) /\ ver'[v].len = Len(log)
            /\ ver'[v].calm = (lock.by = Nobody) /\ ver'[v].verdict = "none"
        BY <4>1 DEF Verdict
      <4>4. ver'[v].chain /\ (ver'[v].calm => lock'.by = Nobody)
        BY <2>1, <4>2, <4>3
      <4>5. ver'[v].len <= Len(log')
        BY <1>2, <2>1, <4>3
      <4>6. ver'[v].pc # "anchored" /\ ver'[v].verdict # "alarm"
        BY <4>3
      <4> QED BY <4>4, <4>5, <4>6 DEF CalmOf
    <3>2. CASE ReadAnchor(v)
      <4>1. ver[v].pc = "walked" /\ ver'[v] = [ver[v] EXCEPT !.pc = "anchored", !.anchor = anchor]
        BY <1>2, <3>2 DEF ReadAnchor
      <4>2. /\ ver'[v].pc = "anchored" /\ ver'[v].anchor = anchor
            /\ ver'[v].chain = ver[v].chain /\ ver'[v].len = ver[v].len
            /\ ver'[v].calm = ver[v].calm /\ ver'[v].verdict = ver[v].verdict
        BY <2>3, <4>1 DEF VerifierState
      <4> QED BY <1>1, <2>1, <2>3, <4>1, <4>2 DEF CalmOf
    <3>3. CASE Conclude(v)
      <4>1. /\ ver[v].pc = "anchored"
            /\ ver'[v] = Verdict(IF ver[v].chain /\ ver[v].anchor \in {Genesis, LastHash(log)}
                                 THEN "ok" ELSE "alarm",
                                 ver[v].calm /\ ver[v].len = Len(log))
        BY <1>2, <3>3 DEF Conclude
      <4>2. /\ ver'[v].pc = "idle"
            /\ ver'[v].calm = (ver[v].calm /\ ver[v].len = Len(log))
            /\ ver'[v].verdict = IF ver[v].chain /\ ver[v].anchor \in {Genesis, LastHash(log)}
                                 THEN "ok" ELSE "alarm"
        BY <4>1 DEF Verdict
      <4>3. ver[v].chain /\ (ver[v].calm /\ ver[v].len = Len(log) => ver[v].anchor = LastHash(log))
        BY <2>3, <4>1 DEF CalmOf
      <4> QED BY <4>2, <4>3 DEF CalmOf
    <3> QED BY <2>2, <3>1, <3>2, <3>3 DEF VerifierStep
  <2>6. \A w \in Verifiers : CalmOf(ver[w])'
    <3>1. ASSUME NEW w \in Verifiers, w # v PROVE CalmOf(ver[w])'
      BY <1>1, <2>1, <2>4, <3>1 DEF CalmOf
    <3> QED BY <2>5, <3>1
  <2> QED BY <1>1, <2>1, <2>6
<1> QED BY <1>1, <1>3, <1>4, <1>5, <1>6

\* A verification that no append overlaps raises an alarm only if something
\* failed, or the end of a process cut an append in two.
THEOREM CalmAlarmsHaveCauses == Spec => []CalmAlarmHasCause
<1>1. Init => CalmInv
  <2> SUFFICES ASSUME Init PROVE CalmInv
    OBVIOUS
  <2>1. lock.by = Nobody /\ anchor = LastHash(log)
    BY UnlockedType DEF Init, LastHash, HashUpTo
  <2>2. \A v \in Verifiers : ver[v].pc = "idle" /\ ver[v].verdict = "none"
    BY DEF Init, Verdict
  <2> QED BY <2>1, <2>2 DEF CalmInv, CalmOf
<1>2. TypeOK /\ CalmInv => CalmAlarmHasCause
  <2> SUFFICES ASSUME TypeOK, CalmInv, NEW v \in Verifiers, ver[v].verdict = "alarm", ver[v].calm
               PROVE  faults > 0 \/ \E t \in Threads : pc[t] = "lost"
    BY DEF CalmAlarmHasCause
  <2>1. ~Untroubled
    BY DEF CalmInv, CalmOf
  <2> QED BY <2>1, BoundsAssumption DEF Untroubled, TypeOK
<1> QED BY <1>1, <1>2, CalmStep, WholeAlways, ChainNeverBreaks, LedgerTypeCorrect, PTL DEF Spec

-----------------------------------------------------------------------------
(* The gap's markers.                                                      *)

\* Only a serving governor has threads in the middle of something.
ServedInv == ~Serving => \A t \in Threads : pc[t] \notin {"decided", "written"}

LEMMA ServedAlways == Spec => []ServedInv
<1>1. Init => ServedInv
  BY DEF Init, ServedInv
<1>2. TypeOK /\ ServedInv /\ [Next]_vars => ServedInv'
  <2> SUFFICES ASSUME TypeOK, ServedInv, [Next]_vars PROVE ServedInv'
    OBVIOUS
  <2>0. pc \in [Threads -> {"new", "decided", "written", "answered", "failed", "lost"}]
    BY DEF TypeOK
  <2>1. ASSUME NEW t \in Threads, NEW p, SetPc(t, p), gov' = gov,
               Serving \/ pc[t] \in {"decided", "written"}
        PROVE  ServedInv'
    BY <2>0, <2>1 DEF ServedInv, Serving, SetPc
  <2>2. ASSUME UNCHANGED <<gov, pc>> PROVE ServedInv'
    BY <2>2 DEF ServedInv, Serving
  <2>3. ASSUME NEW c \in Calls, CallStep(c) PROVE ServedInv'
    <3>1. c \in Threads
      BY DEF Threads
    <3>2. \E p : SetPc(c, p) /\ gov' = gov /\ (Serving \/ pc[c] \in {"decided", "written"})
      BY <2>3 DEF CallStep, DrawSeq, ThreadLine, ThreadAnchor, CallFails, AppendFails
    <3> QED BY <2>1, <3>1, <3>2
  <2>4. ASSUME NEW k \in Commands, CommandStep(k) PROVE ServedInv'
    <3>1. k \in Threads
      BY DEF Threads
    <3>2. \E p : SetPc(k, p) /\ gov' = gov /\ (Serving \/ pc[k] \in {"decided", "written"})
      BY <2>4 DEF CommandStep, Act, ThreadLine, ThreadAnchor, CommandFails, AppendFails
    <3> QED BY <2>1, <3>1, <3>2
  <2>5. CASE MainStep
    <3>1. CASE Ended
      BY <2>0, <3>1 DEF Ended, ServedInv
    <3>2. CASE Start \/ Serve \/ Stop
      BY <3>2 DEF Start, Serve, Stop, ServedInv, Serving
    <3> QED BY <2>2, <2>5, <3>1, <3>2 DEF MainStep, MainLine, MainAnchor, DropSpool, Exit, Crash
  <2>6. CASE \E h \in Hooks : Park(h)
    BY <2>2, <2>6 DEF Park
  <2>7. CASE \E v \in Verifiers : VerifierStep(v)
    BY <2>2, <2>7 DEF VerifierStep, Walk, ReadAnchor, Conclude
  <2>8. CASE UNCHANGED vars
    BY <2>2, <2>8 DEF vars
  <2> QED BY <2>3, <2>4, <2>5, <2>6, <2>7, <2>8 DEF Next
<1> QED BY <1>1, <1>2, LedgerTypeCorrect, PTL DEF Spec

\* Whether the ledger ends inside a gap.
GapOpen == GapOpenAt(Len(log) + 1)
GapIds == Hooks \union {"gap_open", "gap_close"}

\* While every line parses: a gap is open at the ledger's end only before a
\* start has come past the closing marker, and the spool still holds something;
\* what the main thread does next fits.
GapInv ==
  Intact =>
    /\ GapIsMarked
    /\ GapOpen => spool # <<>>
    /\ Serving => ~GapOpen
    /\ todo # <<>> /\ lock.by # "governor" =>
         /\ Head(todo) \in Hooks \union {"gap_close"} => GapOpen
         /\ Head(todo) \in Notes \union {Drop} => ~GapOpen
    /\ lock.by = "governor" => (GapOpen <=> Head(todo) \in Hooks \union {"gap_open"})
    /\ gov = "starting" /\ todo = <<>> => ~GapOpen

\* One more line: where it stands in a gap, and whether one is open after it.
LEMMA GapAfter ==
  ASSUME TypeOK, NEW id, Grew(id), Intact', GapIsMarked,
         id \in Hooks \union {"gap_close"} => GapOpen,
         id \notin GapIds => ~GapOpen
  PROVE  /\ GapIsMarked'
         /\ GapOpen' <=> (id = "gap_open" \/ (GapOpen /\ id # "gap_close"))
<1>1. PICK n \in Nat : n = Len(log)
  BY DEF TypeOK
<1>2. /\ Intact /\ Len(log') = n + 1 /\ log'[n + 1].id = id
      /\ \A i \in 1..n : log'[i] = log[i]
  BY <1>1 DEF Grew
<1>3. ASSUME NEW i \in 1..(n + 1) PROVE GapOpenAt(i)' <=> GapOpenAt(i)
  <2>1. \A o \in 1..(i - 1) : o \in 1..n /\ \A j \in o..(i - 1) : j \in 1..n
    BY <1>1
  <2> QED BY <1>2, <2>1 DEF GapOpenAt
<1>4. GapOpen <=> GapOpenAt(n + 1)
  BY <1>1 DEF GapOpen
<1>5. ASSUME NEW i \in 1..(n + 1)
      PROVE  IF log'[i].id \in GapIds
             THEN log'[i].id \in Hooks \union {"gap_close"} => GapOpenAt(i)'
             ELSE ~GapOpenAt(i)'
  <2>1. CASE i \in 1..n
    BY <1>1, <1>2, <1>3, <2>1 DEF GapIsMarked, GapIds
  <2>2. CASE i = n + 1
    BY <1>2, <1>3, <1>4, <2>2
  <2> QED BY <2>1, <2>2
<1>6. GapIsMarked'
  BY <1>2, <1>5 DEF GapIsMarked, GapIds
<1>7. GapOpen' <=> \E o \in 1..(n + 1) : /\ log'[o].id = "gap_open"
                                        /\ \A j \in o..(n + 1) : log'[j].id # "gap_close"
  <2>1. Len(log') + 1 - 1 = n + 1
    BY <1>2
  <2> QED BY <2>1 DEF GapOpen, GapOpenAt
<1>8. GapOpen <=> \E o \in 1..n : /\ log[o].id = "gap_open"
                                 /\ \A j \in o..n : log[j].id # "gap_close"
  <2>1. Len(log) + 1 - 1 = n
    BY <1>1
  <2> QED BY <2>1 DEF GapOpen, GapOpenAt
<1>9. ASSUME id = "gap_open" PROVE GapOpen'
  <2>1. n + 1 \in 1..(n + 1) /\ \A j \in (n + 1)..(n + 1) : j = n + 1
    OBVIOUS
  <2> QED BY <1>2, <1>7, <1>9, <2>1
<1>10. ASSUME GapOpen, id # "gap_close" PROVE GapOpen'
  <2>1. PICK o \in 1..n : log[o].id = "gap_open" /\ \A j \in o..n : log[j].id # "gap_close"
    BY <1>8, <1>10
  <2>2. o \in 1..(n + 1) /\ \A j \in o..(n + 1) : j = n + 1 \/ (j \in o..n /\ j \in 1..n)
    OBVIOUS
  <2> QED BY <1>2, <1>7, <1>10, <2>1, <2>2
<1>11. ASSUME GapOpen' PROVE id = "gap_open" \/ (GapOpen /\ id # "gap_close")
  <2>1. PICK o \in 1..(n + 1) : /\ log'[o].id = "gap_open"
                               /\ \A j \in o..(n + 1) : log'[j].id # "gap_close"
    BY <1>7, <1>11
  <2>2. n + 1 \in o..(n + 1)
    OBVIOUS
  <2>3. CASE o = n + 1
    BY <1>2, <2>1, <2>3
  <2>4. CASE o # n + 1
    <3>1. o \in 1..n /\ \A j \in o..n : j \in o..(n + 1) /\ j \in 1..n
      BY <2>4
    <3> QED BY <1>2, <1>8, <2>1, <2>2, <3>1
  <2> QED BY <2>3, <2>4
<1> QED BY <1>6, <1>9, <1>10, <1>11

\* The line the main thread has next is of the kinds a gap is about, or a note.
LEMMA NextLineKind ==
  ASSUME TypeOK, NextIsLine
  PROVE  Head(todo) \in GapIds \union Notes
<1>1. todo \in Seq(Hooks \union Markers \union {Drop}) /\ todo # <<>>
  BY DEF TypeOK, NextIsLine
<1>2. Head(todo) \in Hooks \union Markers \union {Drop}
  BY <1>1, HeadTailProperties
<1> QED BY <1>2 DEF NextIsLine, Markers, GapIds, Notes

LEMMA GapStep == TypeOK /\ TodoInv /\ ServedInv /\ GapInv /\ [Next]_vars => GapInv'
<1> SUFFICES ASSUME TypeOK, TodoInv, ServedInv, GapInv, [Next]_vars, Intact'
             PROVE  /\ GapIsMarked'
                    /\ GapOpen' => spool' # <<>>
                    /\ Serving' => ~GapOpen'
                    /\ todo' # <<>> /\ lock'.by # "governor" =>
                         /\ Head(todo)' \in Hooks \union {"gap_close"} => GapOpen'
                         /\ Head(todo)' \in Notes \union {Drop} => ~GapOpen'
                    /\ lock'.by = "governor" =>
                         (GapOpen' <=> Head(todo)' \in Hooks \union {"gap_open"})
                    /\ gov' = "starting" /\ todo' = <<>> => ~GapOpen'
  BY DEF GapInv
<1> DEFINE Goal == /\ GapIsMarked'
                   /\ GapOpen' => spool' # <<>>
                   /\ Serving' => ~GapOpen'
                   /\ todo' # <<>> /\ lock'.by # "governor" =>
                        /\ Head(todo)' \in Hooks \union {"gap_close"} => GapOpen'
                        /\ Head(todo)' \in Notes \union {Drop} => ~GapOpen'
                   /\ lock'.by = "governor" =>
                        (GapOpen' <=> Head(todo)' \in Hooks \union {"gap_open"})
                   /\ gov' = "starting" /\ todo' = <<>> => ~GapOpen'
<1>a. ASSUME log' = log
      PROVE  /\ Intact /\ GapIsMarked' /\ (GapOpen' <=> GapOpen) /\ GapIsMarked
             /\ GapOpen => spool # <<>>
             /\ Serving => ~GapOpen
  <2>1. Intact
    BY <1>a DEF Intact
  <2>2. GapIsMarked
    BY <2>1 DEF GapInv
  <2> QED BY <1>a, <2>1, <2>2 DEF GapInv, GapOpen, GapOpenAt, GapIsMarked, Intact
\* A thread's line comes while no gap is open, and leaves none open.
<1>b. ASSUME NEW t \in Threads, pc[t] = "decided", Grew(t)
      PROVE  Intact /\ GapIsMarked' /\ ~GapOpen' /\ ~GapOpen /\ Serving
  <2>1. Intact /\ Serving
    BY <1>b DEF Grew, ServedInv
  <2>2. GapIsMarked /\ ~GapOpen
    BY <2>1 DEF GapInv
  <2>3. t \notin Hooks \union {"gap_open", "gap_close"}
    BY NamesDiffer
  <2> QED BY <1>b, <2>1, <2>2, <2>3, GapAfter
\* The main thread's line leaves a gap open if it is not the last of one.
<1>c. ASSUME NextIsLine, lock.by # "governor", Grew(Head(todo))
      PROVE  /\ Intact /\ GapIsMarked'
             /\ GapOpen' <=> Head(todo) \in Hooks \union {"gap_open"}
             /\ GapOpen' => spool # <<>>
  <2>1. Intact /\ todo # <<>> /\ Head(todo) \in GapIds \union Notes
    BY <1>c, NextLineKind DEF Grew, NextIsLine
  <2>2. /\ GapIsMarked
        /\ Head(todo) \in Hooks \union {"gap_close"} => GapOpen
        /\ Head(todo) \in Notes => ~GapOpen
    BY <1>c, <2>1 DEF GapInv
  <2>3. /\ GapIsMarked'
        /\ GapOpen' <=> (Head(todo) = "gap_open" \/ (GapOpen /\ Head(todo) # "gap_close"))
    <3>1. PICK g : g = Head(todo)
      OBVIOUS
    <3>2. g \notin GapIds => g \in Notes
      BY <2>1, <3>1
    <3> QED BY <1>c, <2>2, <3>1, <3>2, GapAfter
  <2>4. GapOpen' <=> Head(todo) \in Hooks \union {"gap_open"}
    BY <2>1, <2>2, <2>3, NamesDiffer DEF GapIds
  <2>5. Head(todo) \notin Notes => spool # <<>>
    <3>1. Head(todo) = todo[1] /\ 1 \in 1..Len(todo)
      BY <2>1, TailLines
    <3> QED BY <3>1 DEF TodoInv
  <2> QED BY <2>1, <2>3, <2>4, <2>5, NamesDiffer
<1>1. CASE Quiet
  <2>1. /\ log' = log /\ todo' = todo /\ spool' = spool /\ gov' = gov
        /\ Head(todo)' = Head(todo)
        /\ lock'.by = "governor" <=> lock.by = "governor"
    BY <1>1 DEF Quiet, Rest
  <2>2. Serving' <=> Serving
    BY <2>1 DEF Serving
  <2> QED BY <1>a, <2>1, <2>2 DEF GapInv
<1>2. CASE ThreadWrote
  <2>1. PICK t \in Threads : pc[t] = "decided" /\ Grew(t)
    BY <1>2 DEF ThreadWrote
  <2>2. /\ todo' = todo /\ gov' = gov /\ lock'.by # "governor" /\ lock.by # "governor"
        /\ Head(todo)' = Head(todo)
    BY <1>2 DEF ThreadWrote, Rest
  <2>3. todo # <<>> => Head(todo) \notin Hooks \union {"gap_close"}
    BY <1>b, <2>1, <2>2 DEF GapInv
  <2> QED BY <1>b, <2>1, <2>2, <2>3
<1>3. CASE MainWrote
  <2>1. /\ NextIsLine /\ lock.by # "governor" /\ lock'.by = "governor" /\ Grew(Head(todo))
        /\ todo' = todo /\ spool' = spool /\ gov' = gov /\ Head(todo)' = Head(todo)
        /\ todo # <<>>
    BY <1>3, UnlockedType DEF MainWrote, Rest, NextIsLine
  <2>2. Serving => Head(todo) = "governor_stop"
    BY <2>1 DEF Serving, TodoInv
  <2>3. Serving' => Serving /\ Head(todo) \notin Hooks \union {"gap_open"}
    BY <2>1, <2>2, NamesDiffer DEF Serving, Notes
  <2> QED BY <1>c, <2>1, <2>3
<1>4. CASE MainAnchored
  <2>1. /\ log' = log /\ NextIsLine /\ lock.by = "governor" /\ lock'.by # "governor"
        /\ todo' = Tail(todo) /\ spool' = spool /\ gov' = gov /\ todo # <<>>
    BY <1>4, UnlockedType DEF MainAnchored, NextIsLine
  <2>2. /\ Intact
        /\ GapOpen <=> Head(todo) \in Hooks \union {"gap_open"}
    BY <1>a, <2>1 DEF GapInv
  <2>3. PICK n \in Nat : n = Len(todo) /\ n > 0
    BY <2>1, TailLines
  <2>4. /\ Head(todo) = todo[1] /\ 1 \in 1..n /\ Len(Tail(todo)) = n - 1
        /\ \A i \in 1..Len(Tail(todo)) : Tail(todo)[i] = todo[i + 1]
    BY <2>1, <2>3, TailLines
  <2>5. /\ Head(todo) \in Hooks \union {"gap_open"} =>
             1 < n /\ todo[1 + 1] \in Hooks \union {"gap_close"}
        /\ Head(todo) = "gap_close" => 1 < n /\ todo[1 + 1] = Drop
        /\ Head(todo) \in Notes => 1 = n
    BY <2>3, <2>4 DEF TodoInv, Ordered
  <2>6. Head(todo) \in GapIds \union Notes
    BY <2>1, NextLineKind
  <2>7. Tail(todo) \in Seq(Hooks \union Markers \union {Drop})
    BY <2>1, TailType
  <2>8. 1 < n => Head(todo)' = todo[1 + 1]
    <3>1. PICK t : t = Tail(todo)
      OBVIOUS
    <3>2. 1 < n => Len(t) > 0 /\ t[1] = todo[1 + 1]
      BY <2>3, <2>4, <3>1
    <3>3. t # <<>> => Head(t) = t[1]
      BY <2>7, <3>1, HeadTailProperties
    <3>4. 1 < n => t # <<>>
      BY <3>2, EmptySeq
    <3> QED BY <2>1, <3>1, <3>2, <3>3, <3>4
  <2>9. 1 = n => todo' = <<>>
    BY <2>1, <2>4, <2>7, EmptySeq
  <2>10. 1 < n => todo' # <<>>
    BY <2>1, <2>3, <2>4, EmptySeq
  <2>11. CASE Head(todo) \in Hooks \union {"gap_open"}
    <3>1. GapOpen' /\ todo' # <<>> /\ Head(todo)' \in Hooks \union {"gap_close"}
      BY <1>a, <2>1, <2>2, <2>5, <2>8, <2>10, <2>11
    <3>2. Head(todo)' \notin Notes \union {Drop}
      BY <3>1, NamesDiffer
    <3>3. Serving' <=> Serving
      BY <2>1 DEF Serving
    <3> QED BY <1>a, <2>1, <3>1, <3>2, <3>3
  <2>12. CASE Head(todo) = "gap_close"
    <3>1. ~GapOpen' /\ Head(todo)' = Drop
      BY <1>a, <2>1, <2>2, <2>5, <2>8, <2>12, NamesDiffer
    <3> QED BY <1>a, <2>1, <3>1, NamesDiffer
  <2>13. CASE Head(todo) \in Notes
    <3>1. ~GapOpen' /\ todo' = <<>>
      BY <1>a, <2>1, <2>2, <2>5, <2>9, <2>13, NamesDiffer
    <3> QED BY <1>a, <2>1, <3>1
  <2> QED BY <2>6, <2>11, <2>12, <2>13 DEF GapIds
<1>5. CASE DropSpool
  <2>1. /\ log' = log /\ lock' = lock /\ NextIsDrop /\ todo' = Tail(todo) /\ gov' = gov
        /\ todo # <<>> /\ Head(todo) = Drop
    BY <1>5 DEF DropSpool, disk, NextIsDrop
  <2>2. lock.by # "governor"
    BY <2>1 DEF TypeOK, NextIsLine
  <2>3. ~GapOpen'
    BY <1>a, <2>1, <2>2 DEF GapInv
  <2>4. todo' # <<>> => Head(todo)' \notin Hooks \union {"gap_close"}
    <3>1. PICK t : t = Tail(todo)
      OBVIOUS
    <3>2. Head(todo) = todo[1] /\ 1 \in 1..Len(todo)
      BY <2>1, TailLines
    <3>3. 1 + 1 = Len(todo) /\ todo[1 + 1] = "governor_start"
      BY <2>1, <3>2 DEF TodoInv, Ordered
    <3>4. Len(t) = 1 /\ t[1] = todo[1 + 1]
      BY <2>1, <3>1, <3>3, TailLines
    <3>5. Head(t) = t[1]
      <4>1. t \in Seq(Hooks \union Markers \union {Drop})
        BY <2>1, <3>1, TailType
      <4>2. t # <<>>
        BY <3>4, EmptySeq
      <4> QED BY <4>1, <4>2, HeadTailProperties
    <3> QED BY <2>1, <3>1, <3>3, <3>4, <3>5, NamesDiffer DEF Notes
  <2> QED BY <1>a, <2>1, <2>2, <2>3, <2>4
<1>6. CASE Start
  <2>1. /\ log' = log /\ lock' = lock /\ spool' = spool /\ gov' = "starting" /\ gov = "down"
        /\ todo' = Ingestion(spool) /\ spool \in Seq(Hooks)
    BY <1>6 DEF Start, disk, TypeOK
  <2>2. lock.by # "governor" /\ ~Serving'
    BY <2>1 DEF TypeOK, TodoInv, NextIsLine, Serving
  <2>3. todo' # <<>>
    BY <2>1, IngestionType
  <2>4. CASE spool = <<>>
    <3>1. Head(todo)' = "governor_start"
      <4>1. todo' = <<"governor_start">>
        BY <2>1, <2>4, IngestionOrdered
      <4>2. Head(<<"governor_start">>) = "governor_start"
        OBVIOUS
      <4> QED BY <4>1, <4>2
    <3> QED BY <1>a, <2>1, <2>2, <2>3, <2>4, <3>1, NamesDiffer DEF Notes
  <2>5. CASE spool # <<>>
    <3>1. Ingestion(spool)[1] = "gap_open"
      BY <2>1, <2>5, IngestionLines
    <3>2. Head(todo)' = "gap_open"
      <4>1. Ingestion(spool) \in Seq(Hooks \union Markers \union {Drop}) /\ Ingestion(spool) # <<>>
        BY <2>1, IngestionType
      <4>2. Head(Ingestion(spool)) = Ingestion(spool)[1]
        BY <4>1, HeadTailProperties
      <4> QED BY <2>1, <3>1, <4>2
    <3> QED BY <1>a, <2>1, <2>2, <2>3, <2>5, <3>2, NamesDiffer
  <2> QED BY <2>4, <2>5
<1>7. CASE Serve
  <2>1. log' = log /\ lock' = lock /\ spool' = spool /\ gov = "starting" /\ gov' = "up"
        /\ todo = <<>> /\ todo' = <<>>
    BY <1>7 DEF Serve, disk
  <2>2. lock.by # "governor"
    BY <2>1 DEF TypeOK, NextIsLine
  <2>3. ~GapOpen'
    BY <1>a, <2>1 DEF GapInv
  <2> QED BY <1>a, <2>1, <2>2, <2>3
<1>8. CASE Stop
  <2>1. log' = log /\ lock' = lock /\ spool' = spool /\ gov = "up" /\ todo = <<>>
        /\ Head(todo)' = "governor_stop" /\ gov' = "stopping"
    BY <1>8 DEF Stop, disk, TodoInv
  <2>2. lock.by # "governor"
    BY <2>1 DEF TypeOK, NextIsLine
  <2>3. ~GapOpen'
    BY <1>a, <2>1 DEF Serving
  <2> QED BY <1>a, <2>1, <2>2, <2>3, NamesDiffer DEF Notes
<1>9. CASE End
  <2>1. gov' = "down" /\ todo' = <<>> /\ lock'.by # "governor" /\ spool' = spool /\ ~Serving'
    BY <1>9, UnlockedType DEF End, Serving
  <2>2. ASSUME lock.by = Nobody, NEW id \in NextLines, Grew(id)
        PROVE  GapIsMarked' /\ (GapOpen' => spool # <<>>)
    <3>1. CASE id \in Threads /\ pc[id] = "decided"
      BY <1>b, <2>2, <3>1
    <3>2. CASE NextIsLine /\ id = Head(todo)
      <4>1. lock.by # "governor"
        BY <2>2, UnlockedType
      <4> QED BY <1>c, <2>2, <3>2, <4>1
    <3> QED BY <2>2, <3>1, <3>2 DEF NextLines
  <2>3. GapIsMarked' /\ (GapOpen' => spool # <<>>)
    BY <1>9, <1>a, <2>2 DEF End
  <2> QED BY <2>1, <2>3
<1>10. ASSUME NEW h \in Hooks, Park(h) PROVE Goal
  <2>1. /\ log' = log /\ lock' = lock /\ todo' = todo /\ gov' = gov /\ spool \in Seq(Hooks)
        /\ Head(todo)' = Head(todo)
    BY <1>10 DEF Park, disk, TypeOK
  <2>2. (spool # <<>> => spool' # <<>>) /\ (Serving' <=> Serving)
    BY <1>10, <2>1 DEF Park, Serving
  <2> QED BY <1>a, <2>1, <2>2 DEF GapInv
<1> QED BY <1>1, <1>2, <1>3, <1>4, <1>5, <1>6, <1>7, <1>8, <1>9, <1>10, Kinds DEF MainMoves

\* Reconstructed records stand between their markers, and nothing decided by a
\* governor stands there: after a start that failed half-way the gap stays
\* open until a later start has closed it.
THEOREM GapsAreMarked == Spec => []GapIsMarked
<1>1. Init => GapInv
  BY UnlockedType DEF Init, GapInv, GapIsMarked, GapOpen, GapOpenAt, Serving
<1>2. GapInv => GapIsMarked
  BY DEF GapInv, GapIsMarked
<1> QED BY <1>1, <1>2, GapStep, TodoAlways, ServedAlways, LedgerTypeCorrect, PTL DEF Spec

=============================================================================
