-------------------------- MODULE DecisionLedgerProof --------------------------
(***************************************************************************)
(* Proofs about DecisionLedger, for any number of calls, commands, hooks   *)
(* and verifiers, and for any number of faults and starts.                 *)
(***************************************************************************)
EXTENDS DecisionLedger, SequenceTheorems, FiniteSetTheorems, WellFoundedInduction, TLAPS

-----------------------------------------------------------------------------
(* The hash of the last line that parses.                                  *)

\* The order of the naturals is well-founded, as a set of pairs.
LineOrder == {ss \in Nat \X Nat : ss[1] < ss[2]}
LEMMA LineOrderWellFounded == IsWellFoundedOn(LineOrder, Nat)
BY NatLessThanWellFounded DEF LineOrder, OpToRel

\* A set of line numbers that is not empty has a last one.
LEMMA LastExists ==
  ASSUME NEW n \in Nat, NEW S \in SUBSET (1..n), S # {}
  PROVE  \E i \in S : \A j \in S : j <= i
<1> DEFINE T == {n - i : i \in S}
<1>1. T \subseteq Nat /\ T # {}
  <2>1. ASSUME NEW x \in T PROVE x \in Nat
    <3>1. PICK i \in 1..n : x = n - i
      OBVIOUS
    <3> QED BY <3>1
  <2>2. PICK i \in S : TRUE
    OBVIOUS
  <2>3. n - i \in T
    OBVIOUS
  <2> QED BY <2>1, <2>3
<1>2. \E x \in T : \A y \in T : ~(<<y, x>> \in LineOrder)
  <2> HIDE DEF T
  <2> QED BY <1>1, LineOrderWellFounded, WFMin
<1>3. PICK x \in T : \A y \in T : ~(<<y, x>> \in LineOrder)
  BY <1>2
<1>4. PICK i \in S : x = n - i
  OBVIOUS
<1>5. ASSUME NEW j \in S PROVE j <= i
  <2>1. n - j \in T
    OBVIOUS
  <2>2. ~((n - j) < (n - i))
    BY <2>1, <1>1, <1>3, <1>4 DEF LineOrder
  <2> QED BY <2>2
<1> QED BY <1>5

\* Max() of such a set is its last line number.
LEMMA MaxIsLast ==
  ASSUME NEW n \in Nat, NEW S \in SUBSET (1..n), S # {}
  PROVE  Max(S) \in S /\ \A j \in S : j <= Max(S)
<1>1. PICK i \in S : \A j \in S : j <= i
  BY LastExists
<1>2. \A j \in S : i >= j
  BY <1>1
<1>3. Max(S) \in S /\ \A j \in S : Max(S) >= j
  BY <1>2 DEF Max
<1> QED BY <1>3

\* last_hash() depends on the lines it reads, and on no other.
LEMMA HashIsLocal ==
  ASSUME NEW l, NEW m, NEW n \in Nat, \A i \in 1..n : l[i] = m[i]
  PROVE  HashUpTo(l, n) = HashUpTo(m, n)
<1> DEFINE P == {i \in 1..n : Parses(l[i])}
<1>1. {i \in 1..n : Parses(m[i])} = P
  OBVIOUS
<1>2. CASE P = {}
  BY <1>1, <1>2 DEF HashUpTo
<1>3. CASE P # {}
  <2>1. Max(P) \in 1..n
    BY <1>3, MaxIsLast
  <2> QED BY <1>1, <1>3, <2>1 DEF HashUpTo
<1> QED BY <1>2, <1>3

\* Over a line that parses, it is that line's hash.
LEMMA HashOfParsed ==
  ASSUME NEW l, NEW n \in Nat, n > 0, Parses(l[n])
  PROVE  HashUpTo(l, n) = l[n].hash
<1> DEFINE P == {i \in 1..n : Parses(l[i])}
<1>1. n \in P /\ \A j \in P : j <= n
  OBVIOUS
<1>2. Max(P) \in P /\ \A j \in P : j <= Max(P)
  BY <1>1, MaxIsLast
<1>3. Max(P) = n
  BY <1>1, <1>2
<1> QED BY <1>1, <1>3 DEF HashUpTo

\* It is a chain.
LEMMA HashIsChain ==
  ASSUME NEW l \in Seq(Line), NEW n \in 0..Len(l)
  PROVE  HashUpTo(l, n) \in Chain
<1> DEFINE P == {i \in 1..n : Parses(l[i])}
<1>1. CASE P = {}
  BY <1>1 DEF HashUpTo, Genesis, Chain
<1>2. CASE P # {}
  <2>0. Len(l) \in Nat
    BY LenProperties
  <2>1. n \in Nat /\ 1..n \subseteq 1..Len(l)
    BY <2>0
  <2>2. Max(P) \in 1..Len(l)
    <3>1. P \in SUBSET (1..n)
      OBVIOUS
    <3> HIDE DEF P
    <3>2. Max(P) \in P
      BY <1>2, <2>1, <3>1, MaxIsLast
    <3> QED BY <2>1, <3>1, <3>2
  <2>3. ASSUME NEW x \in 1..Len(l) PROVE l[x].hash \in Chain
    <3>1. l[x] \in Line
      BY ElementOfSeq
    <3> QED BY <3>1 DEF Line
  <2> QED BY <1>2, <2>2, <2>3 DEF HashUpTo
<1> QED BY <1>1, <1>2

-----------------------------------------------------------------------------
(* One more line.                                                          *)

\* A new line has the shape of one.
LEMMA LineType ==
  ASSUME TypeOK, NEW id \in Records
  PROVE  /\ ChainHead \in Chain
         /\ Append(ChainHead, id) \in Chain
         /\ Event(id, ChainHead) \in Line
         /\ Torn \in Line
<1>1. ChainHead \in Chain
  <2>1. log \in Seq(Line) /\ Len(log) \in 0..Len(log)
    BY DEF TypeOK
  <2> QED BY <2>1, HashIsChain DEF ChainHead, LastHash
<1>2. Append(ChainHead, id) \in Chain
  BY <1>1 DEF Chain
<1>3. Torn \in Line
  BY DEF Torn, Line, Genesis, Chain
<1> QED BY <1>1, <1>2, <1>3 DEF Event, Line

\* The extended ledger: one line longer, or of the same length and torn at
\* its end; the lines before are the same.
LEMMA ExtendedShape ==
  ASSUME TypeOK, NEW line \in Line
  PROVE  /\ Extended(line) \in Seq(Line)
         /\ Extended(line) # <<>>
         /\ ragged => /\ Len(log) > 0
                      /\ Len(Extended(line)) = Len(log)
                      /\ Extended(line)[Len(log)] = Torn
                      /\ \A i \in 1..(Len(log) - 1) : Extended(line)[i] = log[i]
         /\ ~ragged => /\ Len(Extended(line)) = Len(log) + 1
                       /\ Extended(line)[Len(log) + 1] = line
                       /\ \A i \in 1..Len(log) : Extended(line)[i] = log[i]
<1>1. log \in Seq(Line) /\ Len(log) \in Nat /\ (ragged => log # <<>>)
  BY DEF TypeOK
<1>2. Torn \in Line
  BY DEF Torn, Line, Genesis, Chain
<1>3. CASE ragged
  <2>1. Len(log) \in 1..Len(log)
    BY <1>1, <1>3, EmptySeq
  <2>2. Extended(line) = [log EXCEPT ![Len(log)] = Torn]
    BY <1>3 DEF Extended
  <2> QED BY <1>1, <1>2, <1>3, <2>1, <2>2, ExceptSeq
<1>4. CASE ~ragged
  <2>1. Extended(line) = Append(log, line)
    BY <1>4 DEF Extended
  <2> QED BY <1>1, <1>4, <2>1
<1> QED BY <1>3, <1>4

\* The chain holds over a line that is chained to the head, and over one that
\* is cut short.
LEMMA ExtendedChain ==
  ASSUME TypeOK, Chained(log), NEW id \in Records,
         NEW line \in {Event(id, ChainHead), Torn}
  PROVE  Chained(Extended(line))
<1> DEFINE n == Len(log)
<1> DEFINE l == Extended(line)
<1>1. line \in Line /\ n \in Nat
  BY LineType DEF TypeOK
<1>2. ASSUME NEW i \in 1..n, l[i] = log[i], \A j \in 1..(i - 1) : l[j] = log[j], Parses(l[i])
      PROVE  l[i].prev = HashUpTo(l, i - 1) /\ l[i].hash = Append(l[i].prev, l[i].id)
  <2>1. i - 1 \in Nat
    BY <1>1
  <2>2. HashUpTo(l, i - 1) = HashUpTo(log, i - 1)
    <3> HIDE DEF l
    <3> QED BY <1>2, <2>1, HashIsLocal
  <2>3. log[i].prev = HashUpTo(log, i - 1) /\ log[i].hash = Append(log[i].prev, log[i].id)
    BY <1>2 DEF Chained
  <2> HIDE DEF l
  <2> QED BY <1>2, <2>2, <2>3
<1>3. CASE ragged
  <2>1. n > 0 /\ Len(l) = n /\ l[n] = Torn /\ \A i \in 1..(n - 1) : l[i] = log[i]
    BY <1>1, <1>3, ExtendedShape
  <2>2. ~Parses(Torn)
    BY DEF Parses, Torn
  <2> HIDE DEF l
  <2>3. ASSUME NEW i \in 1..n, Parses(l[i])
        PROVE  l[i].prev = HashUpTo(l, i - 1) /\ l[i].hash = Append(l[i].prev, l[i].id)
    <3>1. i # n
      BY <2>1, <2>2, <2>3
    <3>2. i \in 1..(n - 1) /\ \A j \in 1..(i - 1) : j \in 1..(n - 1)
      BY <1>1, <3>1
    <3> QED BY <1>2, <2>1, <2>3, <3>2
  <2>4. Chained(l)
    BY <2>1, <2>3 DEF Chained
  <2> QED BY <2>4 DEF l
<1>4. CASE ~ragged
  <2>1. Len(l) = n + 1 /\ l[n + 1] = line /\ \A i \in 1..n : l[i] = log[i]
    BY <1>1, <1>4, ExtendedShape
  <2> HIDE DEF l
  <2>2. ASSUME NEW i \in 1..(n + 1), Parses(l[i])
        PROVE  l[i].prev = HashUpTo(l, i - 1) /\ l[i].hash = Append(l[i].prev, l[i].id)
    <3>1. CASE i \in 1..n
      <4>1. \A j \in 1..(i - 1) : j \in 1..n
        BY <1>1, <3>1
      <4> QED BY <1>2, <2>1, <2>2, <3>1, <4>1
    <3>2. CASE i = n + 1
      <4>1. line = Event(id, ChainHead)
        BY <2>1, <2>2, <3>2 DEF Parses, Torn
      <4>2. HashUpTo(l, n) = HashUpTo(log, n)
        BY <1>1, <2>1, HashIsLocal
      <4>3. HashUpTo(log, n) = ChainHead
        BY DEF ChainHead, LastHash
      <4>4. i - 1 = n
        BY <1>1, <3>2
      <4>5. line.prev = ChainHead /\ line.hash = Append(line.prev, line.id)
        BY <4>1 DEF Event
      <4> QED BY <2>1, <3>2, <4>2, <4>3, <4>4, <4>5
    <3> QED BY <1>1, <3>1, <3>2
  <2>3. Chained(l)
    BY <2>1, <2>2 DEF Chained
  <2> QED BY <2>3 DEF l
<1> QED BY <1>3, <1>4

-----------------------------------------------------------------------------
(* The shape of the state.                                                 *)

DiskType ==
  /\ log \in Seq(Line)
  /\ ragged \in BOOLEAN
  /\ ragged => log # <<>>
  /\ anchor \in Chain

\* What a write leaves on disk has the declared shape.
LEMMA WriteLineType ==
  ASSUME TypeOK, NEW id \in Records, NEW who, WriteLine(who, id)
  PROVE  DiskType' /\ lock'.by = who /\ lock'.head \in Chain
<1>1. Event(id, ChainHead) \in Line /\ Append(ChainHead, id) \in Chain
  BY LineType
<1>2. log' \in Seq(Line) /\ anchor' = anchor /\ ragged' = FALSE
  BY <1>1, ExtendedShape DEF WriteLine
<1>3. lock' = [by |-> who, head |-> Append(ChainHead, id)]
  BY DEF WriteLine
<1> QED BY <1>1, <1>2, <1>3 DEF DiskType, TypeOK

LEMMA CutLineType ==
  ASSUME TypeOK, NEW id \in Records, CutLine(id), anchor' = anchor
  PROVE  DiskType'
<1>1. Event(id, ChainHead) \in Line /\ Torn \in Line
  BY LineType
<1>2. log' \in Seq(Line) /\ log' # <<>> /\ ragged' = TRUE
  BY <1>1, ExtendedShape DEF CutLine
<1> QED BY <1>2 DEF DiskType, TypeOK

LEMMA FailLineType ==
  ASSUME TypeOK, NEW id \in Records, FailLine(id)
  PROVE  DiskType' /\ UNCHANGED lock /\ faults' \in 0..MaxFaults
<1>1. anchor' = anchor /\ lock' = lock
  BY DEF FailLine
<1>2. DiskType'
  <2>1. CASE CutLine(id)
    BY <1>1, <2>1, CutLineType
  <2>2. CASE UNCHANGED <<log, ragged>>
    BY <1>1, <2>2 DEF DiskType, TypeOK
  <2> QED BY <2>1, <2>2 DEF FailLine
<1>3. faults' \in 0..MaxFaults
  BY BoundsAssumption DEF FailLine, Fault, TypeOK
<1> QED BY <1>1, <1>2, <1>3

LEMMA AnchorType ==
  ASSUME TypeOK, NEW who, WriteAnchor(who) \/ FailAnchor(who)
  PROVE  DiskType' /\ lock' = Unlocked /\ faults' \in 0..MaxFaults
<1>1. lock.head \in Chain
  BY DEF TypeOK
<1>2. CASE WriteAnchor(who)
  BY <1>1, <1>2 DEF WriteAnchor, NoFault, DiskType, TypeOK
<1>3. CASE FailAnchor(who)
  BY <1>3, BoundsAssumption DEF FailAnchor, Fault, DiskType, TypeOK
<1> QED BY <1>2, <1>3

\* Nobody has anything to anchor.
LEMMA UnlockedType ==
  /\ Unlocked \in [by : Threads \union {"governor", Nobody}, head : Chain]
  /\ Unlocked.by = Nobody
  /\ Nobody \notin Threads /\ Nobody # "governor" /\ "governor" \notin Threads
BY NamesAssumption DEF Unlocked, Genesis, Chain

\* What a start has to append.
LEMMA IngestionType ==
  ASSUME NEW r \in Seq(Hooks)
  PROVE  /\ Ingestion(r) \in Seq(Hooks \union Markers \union {Drop})
         /\ Ingestion(r) # <<>>
         /\ Head(Ingestion(r)) # Drop
<1> DEFINE E == Hooks \union Markers \union {Drop}
<1>1. /\ <<"governor_start">> \in Seq(E) /\ <<"gap_open">> \in Seq(E)
      /\ <<"gap_close", Drop, "governor_start">> \in Seq(E)
  BY DEF Markers
<1>2. r \in Seq(E)
  BY SeqMonotonic
<1> HIDE DEF E
<1>3. CASE r = <<>>
  BY <1>1, <1>3 DEF Ingestion, Drop, E
<1>4. CASE r # <<>>
  <2> DEFINE a == <<"gap_open">> \o r
  <2> DEFINE b == a \o <<"gap_close", Drop, "governor_start">>
  <2>1. a \in Seq(E) /\ Len(a) = 1 + Len(r) /\ a[1] = "gap_open"
    BY <1>1, <1>2, ConcatProperties
  <2>2. Len(r) \in Nat
    BY LenProperties
  <2> HIDE DEF a
  <2>3. b \in Seq(E) /\ Len(b) = Len(a) + 3 /\ b[1] = "gap_open"
    BY <1>1, <2>1, <2>2, ConcatProperties
  <2>4. Ingestion(r) = b
    BY <1>4 DEF Ingestion, a
  <2> HIDE DEF b
  <2>5. b # <<>> /\ Head(b) = "gap_open"
    BY <2>1, <2>2, <2>3
  <2> QED BY <2>3, <2>4, <2>5 DEF Drop, E
<1> QED BY <1>3, <1>4

\* What a verifier may have read and said.
VerifierState ==
  [pc : {"idle", "walked", "anchored"}, chain : BOOLEAN, anchor : Chain, len : Nat,
   calm : BOOLEAN, verdict : {"none", "ok", "alarm"}]
LEMMA VerdictType ==
  ASSUME NEW v \in {"none", "ok", "alarm"}, NEW c \in BOOLEAN
  PROVE  Verdict(v, c) \in VerifierState
BY DEF Verdict, VerifierState, Genesis, Chain

\* The first state has the declared shape.
LEMMA InitType == Init => TypeOK
<1> SUFFICES ASSUME Init PROVE TypeOK
  OBVIOUS
<1>1. log \in Seq(Line) /\ ragged \in BOOLEAN /\ (ragged => log # <<>>) /\ anchor \in Chain
  BY EmptySeq DEF Init, Genesis, Chain
<1>2. /\ seq \in Nat /\ seqOf \in [Calls -> Nat] /\ faults \in 0..MaxFaults
      /\ spool \in Seq(Hooks) /\ todo \in Seq(Hooks \union Markers \union {Drop})
  BY BoundsAssumption DEF Init
<1>3. lock \in [by : Threads \union {"governor", Nobody}, head : Chain]
  BY UnlockedType DEF Init
<1>4. (\A t \in Threads : pc[t] = "written" <=> lock.by = t) /\ lock.by # "governor"
  BY UnlockedType DEF Init
<1>5. ver \in [Verifiers -> VerifierState]
  BY VerdictType DEF Init
<1>6. /\ gov \in {"down", "starting", "up", "stopping"} /\ safe \in BOOLEAN
      /\ pc \in [Threads -> {"new", "decided", "written", "answered", "failed", "lost"}]
      /\ hpc \in [Hooks -> {"new", "parked", "late", "unrecorded"}]
  BY DEF Init
<1> QED BY <1>1, <1>2, <1>3, <1>4, <1>5, <1>6 DEF TypeOK, VerifierState

\* The rest of the shape: what TypeOK says beside DiskType.
LockType ==
  /\ lock \in [by : Threads \union {"governor", Nobody}, head : Chain]
  /\ pc \in [Threads -> {"new", "decided", "written", "answered", "failed", "lost"}]
  /\ \A t \in Threads : pc[t] = "written" <=> lock.by = t
  /\ todo \in Seq(Hooks \union Markers \union {Drop})
  /\ lock.by = "governor" => NextIsLine
SeqType == seq \in Nat /\ seqOf \in [Calls -> Nat]
OutsideType ==
  /\ spool \in Seq(Hooks)
  /\ hpc \in [Hooks -> {"new", "parked", "late", "unrecorded"}]
  /\ ver \in [Verifiers -> VerifierState]
RestType ==
  /\ gov \in {"down", "starting", "up", "stopping"}
  /\ safe \in BOOLEAN
  /\ faults \in 0..MaxFaults
LEMMA TypeParts == TypeOK => DiskType /\ LockType /\ SeqType /\ OutsideType /\ RestType
BY DEF TypeOK, DiskType, LockType, SeqType, OutsideType, RestType, VerifierState

\* And together they are all it says, of the next state too.
LEMMA TypeWhole ==
  ASSUME DiskType', LockType', SeqType', OutsideType', RestType'
  PROVE  TypeOK'
BY DEF TypeOK, DiskType, LockType, SeqType, OutsideType, RestType, VerifierState

\* The line the main thread appends next is a record.
LEMMA NextLineIsRecord ==
  ASSUME TypeOK, NextIsLine
  PROVE  Head(todo) \in Records
<1>1. todo \in Seq(Hooks \union Markers \union {Drop}) /\ todo # <<>>
  BY DEF TypeOK, NextIsLine
<1>2. Head(todo) \in Hooks \union Markers \union {Drop}
  BY <1>1, HeadTailProperties
<1> QED BY <1>2 DEF NextIsLine, Records

LEMMA ThreadIsRecord == Threads \subseteq Records
BY DEF Records

-----------------------------------------------------------------------------
(* Every kind of step keeps the shape.                                     *)

LEMMA DrawSeqType ==
  ASSUME TypeOK, NEW c \in Calls, DrawSeq(c)
  PROVE  TypeOK'
<1>1. DiskType' /\ OutsideType'
  BY TypeParts DEF DrawSeq, disk, DiskType, OutsideType
<1>2. LockType'
  BY TypeParts DEF DrawSeq, LockType, SetPc, Threads, NextIsLine
<1>3. SeqType' /\ RestType'
  BY TypeParts, BoundsAssumption DEF DrawSeq, NextSeq, SeqType, RestType, Fault, NoFault
<1> QED BY <1>1, <1>2, <1>3, TypeWhole

LEMMA ActType ==
  ASSUME TypeOK, NEW k \in Commands, Act(k)
  PROVE  TypeOK'
<1>1. DiskType' /\ OutsideType' /\ SeqType' /\ RestType'
  BY TypeParts DEF Act, disk, DiskType, OutsideType, SeqType, RestType
<1>2. LockType'
  BY TypeParts DEF Act, LockType, SetPc, Threads, NextIsLine
<1> QED BY <1>1, <1>2, TypeWhole

LEMMA ThreadLineType ==
  ASSUME TypeOK, NEW t \in Threads, ThreadLine(t)
  PROVE  TypeOK'
<1>1. DiskType' /\ lock'.by = t /\ lock'.head \in Chain
  BY WriteLineType, ThreadIsRecord DEF ThreadLine
<1>2. OutsideType' /\ SeqType' /\ RestType'
  BY TypeParts DEF ThreadLine, WriteLine, NoFault, OutsideType, SeqType, RestType
<1>3. lock.by = Nobody /\ lock' = [by |-> t, head |-> Append(ChainHead, t)]
  BY DEF ThreadLine, WriteLine
<1>4. LockType'
  BY <1>1, <1>3, TypeParts, UnlockedType DEF ThreadLine, LockType, SetPc, NextIsLine
<1> QED BY <1>1, <1>2, <1>4, TypeWhole

LEMMA ThreadAnchorType ==
  ASSUME TypeOK, NEW t \in Threads, ThreadAnchor(t)
  PROVE  TypeOK'
<1>1. DiskType' /\ lock' = Unlocked
  BY AnchorType DEF ThreadAnchor
<1>2. OutsideType' /\ SeqType' /\ RestType'
  BY TypeParts DEF ThreadAnchor, WriteAnchor, NoFault, OutsideType, SeqType, RestType
<1>3. LockType'
  BY <1>1, TypeParts, UnlockedType
     DEF ThreadAnchor, WriteAnchor, LockType, SetPc, NextIsLine
<1> QED BY <1>1, <1>2, <1>3, TypeWhole

LEMMA AppendFailsType ==
  ASSUME TypeOK, NEW t \in Threads, AppendFails(t), SetPc(t, "failed"), safe' \in BOOLEAN,
         UNCHANGED <<seq, spool, gov, todo, seqOf, hpc, ver>>
  PROVE  TypeOK'
<1>1. OutsideType' /\ SeqType'
  BY TypeParts DEF OutsideType, SeqType
<1>2. CASE pc[t] = "decided" /\ FailLine(t)
  <2>1. DiskType' /\ lock' = lock /\ faults' \in 0..MaxFaults
    BY <1>2, FailLineType, ThreadIsRecord
  <2>2. LockType'
    BY <1>2, <2>1, TypeParts DEF LockType, SetPc, NextIsLine
  <2> QED BY <1>1, <2>1, <2>2, TypeParts, TypeWhole DEF RestType
<1>3. CASE pc[t] = "written" /\ FailAnchor(t)
  <2>1. DiskType' /\ lock' = Unlocked /\ faults' \in 0..MaxFaults /\ lock.by = t
    BY <1>3, AnchorType DEF FailAnchor
  <2>2. LockType'
    BY <2>1, TypeParts, UnlockedType DEF LockType, SetPc, NextIsLine
  <2> QED BY <1>1, <2>1, <2>2, TypeParts, TypeWhole DEF RestType
<1> QED BY <1>2, <1>3 DEF AppendFails

LEMMA MainLineType ==
  ASSUME TypeOK, MainLine
  PROVE  TypeOK'
<1>1. DiskType' /\ lock'.by = "governor" /\ lock'.head \in Chain
  BY WriteLineType, NextLineIsRecord DEF MainLine
<1>2. OutsideType' /\ SeqType' /\ RestType'
  BY TypeParts DEF MainLine, WriteLine, NoFault, OutsideType, SeqType, RestType
<1>3. lock.by = Nobody /\ lock' = [by |-> "governor", head |-> Append(ChainHead, Head(todo))]
  BY DEF MainLine, WriteLine
<1>4. LockType'
  BY <1>1, <1>3, TypeParts, UnlockedType DEF MainLine, LockType, NextIsLine
<1> QED BY <1>1, <1>2, <1>4, TypeWhole

\* What the main thread has left to append.
LEMMA TailType ==
  ASSUME TypeOK, todo # <<>>
  PROVE  Tail(todo) \in Seq(Hooks \union Markers \union {Drop})
BY HeadTailProperties DEF TypeOK

LEMMA MainAnchorType ==
  ASSUME TypeOK, MainAnchor
  PROVE  TypeOK'
<1>1. DiskType' /\ lock' = Unlocked /\ lock.by = "governor"
  BY AnchorType DEF MainAnchor, WriteAnchor
<1>2. OutsideType' /\ SeqType' /\ RestType'
  BY TypeParts DEF MainAnchor, WriteAnchor, NoFault, OutsideType, SeqType, RestType
<1>3. todo' \in Seq(Hooks \union Markers \union {Drop})
  BY <1>1, TailType DEF MainAnchor, TypeOK, NextIsLine
<1>4. pc' = pc
  BY DEF MainAnchor
<1>5. LockType'
  BY <1>1, <1>3, <1>4, TypeParts, UnlockedType DEF LockType
<1> QED BY <1>1, <1>2, <1>5, TypeWhole

LEMMA DropSpoolType ==
  ASSUME TypeOK, DropSpool
  PROVE  TypeOK'
<1>1. DiskType' /\ SeqType' /\ RestType' /\ OutsideType'
  BY TypeParts DEF DropSpool, disk, DiskType, SeqType, RestType, OutsideType
<1>2. todo' \in Seq(Hooks \union Markers \union {Drop})
  BY TailType DEF DropSpool, NextIsDrop
<1>3. lock.by # "governor"
  BY DEF DropSpool, NextIsDrop, NextIsLine, TypeOK
<1>4. LockType'
  BY <1>2, <1>3, TypeParts DEF DropSpool, LockType
<1> QED BY <1>1, <1>4, TypeWhole

LEMMA StartStopType ==
  ASSUME TypeOK, Start \/ Stop \/ Serve
  PROVE  TypeOK'
<1>1. DiskType' /\ SeqType' /\ RestType' /\ OutsideType'
  BY TypeParts DEF Start, Stop, Serve, disk, DiskType, SeqType, RestType, OutsideType
<1>2. lock' = lock /\ pc' = pc
  BY DEF Start, Stop, Serve
<1>3. /\ todo' \in Seq(Hooks \union Markers \union {Drop})
      /\ lock.by = "governor" => NextIsLine'
  <2>1. CASE Start
    <3>1. todo' = Ingestion(spool) /\ spool \in Seq(Hooks)
      BY <2>1 DEF Start, TypeOK
    <3> QED BY <3>1, IngestionType DEF NextIsLine
  <2>2. CASE Stop
    BY <2>2 DEF Stop, NextIsLine, Markers, Drop
  <2>3. CASE Serve
    BY <2>3 DEF Serve, NextIsLine, TypeOK
  <2> QED BY <2>1, <2>2, <2>3
<1>4. LockType'
  BY <1>2, <1>3, TypeParts DEF LockType
<1> QED BY <1>1, <1>4, TypeWhole

LEMMA EndType ==
  ASSUME TypeOK, Exit \/ Crash
  PROVE  TypeOK'
<1>1. Ended
  BY DEF Exit, Crash
<1>2. SeqType' /\ OutsideType' /\ gov' = "down" /\ safe' = FALSE /\ anchor' = anchor
  BY <1>1, TypeParts DEF Ended, SeqType, OutsideType
<1>3. LockType'
  <2>1. todo' = <<>> /\ todo' \in Seq(Hooks \union Markers \union {Drop}) /\ lock' = Unlocked
    BY <1>1 DEF Ended
  <2>2. /\ pc' \in [Threads -> {"new", "decided", "written", "answered", "failed", "lost"}]
        /\ \A t \in Threads : pc'[t] # "written"
    BY <1>1, TypeParts DEF Ended, LockType
  <2> QED BY <2>1, <2>2, UnlockedType DEF LockType
<1>4. DiskType' /\ faults' \in 0..MaxFaults
  <2>1. CASE UNCHANGED <<log, ragged>>
    BY <1>2, <2>1, TypeParts, BoundsAssumption DEF DiskType, RestType, Exit, Crash, Fault
  <2>2. CASE Crash /\ \E id \in NextLines : CutLine(id)
    <3>1. PICK id \in NextLines : CutLine(id)
      BY <2>2
    <3>2. id \in Records
      BY NextLineIsRecord, ThreadIsRecord DEF NextLines
    <3> QED BY <1>2, <2>2, <3>1, <3>2, CutLineType, TypeParts, BoundsAssumption
         DEF RestType, Crash, Fault
  <2> QED BY <2>1, <2>2 DEF Exit, Crash
<1> QED BY <1>2, <1>3, <1>4, TypeWhole DEF RestType

LEMMA ParkType ==
  ASSUME TypeOK, NEW h \in Hooks, Park(h)
  PROVE  TypeOK'
<1>1. DiskType' /\ SeqType' /\ LockType'
  BY TypeParts DEF Park, disk, DiskType, SeqType, LockType, NextIsLine
<1>2. RestType'
  BY TypeParts, BoundsAssumption DEF Park, RestType, Fault, NoFault
<1>3. OutsideType'
  <2>1. spool' \in Seq(Hooks) /\ ver' = ver
    <3>1. spool \in Seq(Hooks) /\ spool' \in {spool, Append(spool, h)} /\ ver' = ver
      BY TypeParts DEF Park, OutsideType
    <3> QED BY <3>1
  <2>2. hpc' \in [Hooks -> {"new", "parked", "late", "unrecorded"}]
    BY TypeParts DEF Park, OutsideType
  <2> QED BY <2>1, <2>2, TypeParts DEF OutsideType
<1> QED BY <1>1, <1>2, <1>3, TypeWhole

LEMMA VerifierType ==
  ASSUME TypeOK, NEW v \in Verifiers, VerifierStep(v)
  PROVE  TypeOK'
<1>1. DiskType' /\ SeqType' /\ LockType' /\ RestType'
  BY TypeParts DEF VerifierStep, Walk, ReadAnchor, Conclude, disk, DiskType, SeqType,
                   LockType, RestType, NextIsLine
<1>2. ver[v] \in VerifierState /\ anchor \in Chain /\ Len(log) \in Nat
  BY TypeParts DEF OutsideType, DiskType
<1>3. ver' \in [Verifiers -> VerifierState]
  <2>1. CASE Walk(v)
    <3>1. Verifies(log) \in BOOLEAN /\ (lock.by = Nobody) \in BOOLEAN
      BY DEF Verifies
    <3>2. [Verdict("none", lock.by = Nobody) EXCEPT
             !.pc = "walked", !.chain = Verifies(log), !.len = Len(log)] \in VerifierState
      BY <1>2, <3>1, VerdictType DEF VerifierState
    <3> QED BY <2>1, <3>2, TypeParts DEF Walk, OutsideType
  <2>2. CASE ReadAnchor(v)
    <3>1. [ver[v] EXCEPT !.pc = "anchored", !.anchor = anchor] \in VerifierState
      BY <1>2 DEF VerifierState
    <3>2. ver' = [ver EXCEPT ![v] = [ver[v] EXCEPT !.pc = "anchored", !.anchor = anchor]]
      BY <2>2, TypeParts DEF ReadAnchor, OutsideType
    <3> QED BY <3>1, <3>2, TypeParts DEF OutsideType
  <2>3. CASE Conclude(v)
    <3>1. (ver[v].calm /\ ver[v].len = Len(log)) \in BOOLEAN
      BY <1>2 DEF VerifierState
    <3> QED BY <2>3, <3>1, VerdictType, TypeParts DEF Conclude, OutsideType
  <2> QED BY <2>1, <2>2, <2>3 DEF VerifierStep
<1>4. OutsideType'
  BY <1>3, TypeParts DEF VerifierStep, Walk, ReadAnchor, Conclude, OutsideType
<1> QED BY <1>1, <1>4, TypeWhole

\* The ledger, the processes and the counters keep the declared shape, and a
\* thread that has written its line is the one in append().
LEMMA NextType == TypeOK /\ [Next]_vars => TypeOK'
<1> SUFFICES ASSUME TypeOK, [Next]_vars PROVE TypeOK'
  OBVIOUS
<1>1. ASSUME NEW c \in Calls, CallStep(c) PROVE TypeOK'
  <2>1. c \in Threads
    BY DEF Threads
  <2>2. CASE CallFails(c)
    BY <2>1, <2>2, AppendFailsType DEF CallFails
  <2> QED BY <1>1, <2>1, <2>2, DrawSeqType, ThreadLineType, ThreadAnchorType DEF CallStep
<1>2. ASSUME NEW k \in Commands, CommandStep(k) PROVE TypeOK'
  <2>1. k \in Threads
    BY DEF Threads
  <2>2. CASE CommandFails(k)
    BY <2>1, <2>2, AppendFailsType DEF CommandFails, TypeOK
  <2> QED BY <1>2, <2>1, <2>2, ActType, ThreadLineType, ThreadAnchorType DEF CommandStep
<1>3. CASE MainStep
  BY <1>3, StartStopType, EndType, MainLineType, MainAnchorType, DropSpoolType DEF MainStep
<1>4. CASE UNCHANGED vars
  <2>1. DiskType' /\ SeqType' /\ OutsideType' /\ RestType'
    BY <1>4, TypeParts DEF vars, disk, DiskType, SeqType, OutsideType, RestType
  <2>2. LockType'
    BY <1>4, TypeParts DEF vars, LockType, NextIsLine
  <2> QED BY <2>1, <2>2, TypeWhole
<1> QED BY <1>1, <1>2, <1>3, <1>4, ParkType, VerifierType DEF Next

\* Type correctness of the ledger's model.
THEOREM LedgerTypeCorrect == Spec => []TypeOK
BY InitType, NextType, PTL DEF Spec

-----------------------------------------------------------------------------
(* What one step may do to ledger, anchor, lock and threads.               *)

\* Nothing is written; an anchor; or a line, by a thread that had decided and
\* has not after, or by the main thread.
NoWrite == log' = log /\ anchor' = anchor /\ lock' \in {lock, Unlocked}
AnchorWrite == log' = log /\ lock.by # Nobody /\ anchor' = lock.head /\ lock' = Unlocked
LineWrite(id, line) ==
  /\ line \in {Event(id, ChainHead), Torn}
  /\ log' = Extended(line)
  /\ anchor' = anchor
  /\ lock'.by = Nobody \/ (lock'.head = Append(ChainHead, id) /\ line = Event(id, ChainHead))
  /\ id \in Threads => pc[id] = "decided" /\ pc'[id] \notin {"new", "decided"}
DiskStep ==
  \/ NoWrite
  \/ AnchorWrite
  \/ \E id \in Records, line \in Line : LineWrite(id, line)

\* A thread goes on, or ends; a call that fails takes the perimeter to SAFE.
PcStep(t) ==
  \/ pc'[t] = pc[t]
  \/ pc'[t] = "lost"
  \/ pc'[t] = "failed" /\ (t \in Calls => safe')
  \/ pc[t] = "new" /\ pc'[t] = "decided"
  \/ pc[t] = "decided" /\ pc'[t] = "written" /\ log' = Extended(Event(t, ChainHead))
  \/ pc[t] = "written" /\ pc'[t] = "answered"

LEMMA CutStep ==
  ASSUME TypeOK, NEW id \in Records, CutLine(id), anchor' = anchor, lock'.by = Nobody,
         id \in Threads => pc[id] = "decided" /\ pc'[id] \notin {"new", "decided"}
  PROVE  DiskStep
<1>1. PICK line \in {Torn, Event(id, ChainHead)} : log' = Extended(line)
  BY DEF CutLine
<1>2. line \in Line
  BY LineType
<1> QED BY <1>1, <1>2 DEF DiskStep, LineWrite

LEMMA WriteStep ==
  ASSUME TypeOK, NEW id \in Records, NEW who, WriteLine(who, id),
         id \in Threads => pc[id] = "decided" /\ pc'[id] \notin {"new", "decided"}
  PROVE  DiskStep
<1>1. Event(id, ChainHead) \in Line
  BY LineType
<1>2. lock'.head = Append(ChainHead, id)
  BY DEF WriteLine
<1>3. LineWrite(id, Event(id, ChainHead))
  BY <1>2 DEF LineWrite, WriteLine
<1> QED BY <1>1, <1>3 DEF DiskStep

\* The steps of a thread.
LEMMA ThreadSteps ==
  ASSUME TypeOK, NEW t \in Threads,
         \/ ThreadLine(t)
         \/ ThreadAnchor(t)
         \/ AppendFails(t) /\ SetPc(t, "failed") /\ (t \in Calls => safe')
  PROVE  DiskStep /\ \A u \in Threads : PcStep(u)
<1>1. pc \in [Threads -> {"new", "decided", "written", "answered", "failed", "lost"}] /\ t \in Records
  BY ThreadIsRecord DEF TypeOK
<1>2. CASE ThreadLine(t)
  <2>1. pc[t] = "decided" /\ pc'[t] = "written"
    BY <1>1, <1>2 DEF ThreadLine, SetPc
  <2>2. DiskStep
    BY <1>1, <1>2, <2>1, WriteStep DEF ThreadLine
  <2>3. ASSUME NEW u \in Threads PROVE PcStep(u)
    BY <1>1, <1>2, <2>1 DEF ThreadLine, SetPc, PcStep, WriteLine
  <2> QED BY <2>2, <2>3
<1>3. CASE ThreadAnchor(t)
  <2>1. DiskStep
    BY <1>3, UnlockedType DEF ThreadAnchor, WriteAnchor, DiskStep, AnchorWrite
  <2>2. ASSUME NEW u \in Threads PROVE PcStep(u)
    BY <1>1, <1>3 DEF ThreadAnchor, SetPc, PcStep
  <2> QED BY <2>1, <2>2
<1>4. CASE AppendFails(t) /\ SetPc(t, "failed") /\ (t \in Calls => safe')
  <2>1. ASSUME NEW u \in Threads PROVE PcStep(u)
    BY <1>1, <1>4 DEF SetPc, PcStep
  <2>2. CASE pc[t] = "decided" /\ FailLine(t)
    <3>1. anchor' = anchor /\ lock' = lock /\ lock.by = Nobody /\ pc'[t] = "failed"
      <4>1. anchor' = anchor /\ lock' = lock /\ lock.by = Nobody
        BY <2>2 DEF FailLine
      <4>2. pc'[t] = "failed"
        BY <1>1, <1>4 DEF SetPc
      <4> QED BY <4>1, <4>2
    <3>2. CASE CutLine(t)
      BY <1>1, <2>1, <2>2, <3>1, <3>2, CutStep
    <3>3. CASE UNCHANGED <<log, ragged>>
      BY <2>1, <3>1, <3>3 DEF DiskStep, NoWrite
    <3> QED BY <2>1, <2>2, <3>2, <3>3 DEF FailLine
  <2>3. CASE pc[t] = "written" /\ FailAnchor(t)
    BY <2>1, <2>3 DEF FailAnchor, DiskStep, NoWrite
  <2> QED BY <1>4, <2>2, <2>3 DEF AppendFails
<1> QED BY <1>2, <1>3, <1>4

\* The steps of the main thread.
LEMMA MainSteps ==
  ASSUME TypeOK, MainStep
  PROVE  DiskStep /\ \A u \in Threads : PcStep(u)
<1>1. CASE Start \/ DropSpool \/ Serve \/ Stop
  BY <1>1 DEF Start, DropSpool, Serve, Stop, disk, DiskStep, NoWrite, PcStep
<1>2. CASE MainLine
  <2>1. Head(todo) \in Records /\ Head(todo) \notin Threads
    <3>1. Head(todo) \in Hooks \union Markers
      BY <1>2, HeadTailProperties DEF MainLine, NextIsLine, TypeOK
    <3> QED BY <1>2, <3>1, NamesAssumption DEF Records
  <2>2. DiskStep
    BY <1>2, <2>1, WriteStep DEF MainLine
  <2> QED BY <1>2, <2>2 DEF MainLine, PcStep
<1>3. CASE MainAnchor
  BY <1>3, UnlockedType DEF MainAnchor, WriteAnchor, DiskStep, AnchorWrite, PcStep
<1>4. CASE Exit \/ Crash
  <2>1. Ended
    BY <1>4 DEF Exit, Crash
  <2>2. ASSUME NEW u \in Threads PROVE PcStep(u)
    BY <2>1 DEF Ended, PcStep
  <2>3. CASE UNCHANGED log
    BY <2>1, <2>2, <2>3 DEF Ended, DiskStep, NoWrite
  <2>4. CASE \E id \in NextLines : CutLine(id)
    <3>1. PICK id \in NextLines : CutLine(id)
      BY <2>4
    <3>2. /\ id \in Records
          /\ id \in Threads => pc[id] = "decided"
      <4>1. CASE id \in Threads /\ pc[id] = "decided"
        BY <4>1, ThreadIsRecord
      <4>2. CASE NextIsLine /\ id = Head(todo)
        <5>1. Head(todo) \in Hooks \union Markers
          BY <4>2, HeadTailProperties DEF NextIsLine, TypeOK
        <5> QED BY <4>2, <5>1, NamesAssumption DEF Records
      <4> QED BY <3>1, <4>1, <4>2 DEF NextLines
    <3>3. id \in Threads => pc'[id] = "lost"
      BY <2>1, <3>2 DEF Ended
    <3>4. anchor' = anchor /\ lock'.by = Nobody
      BY <2>1, UnlockedType DEF Ended
    <3> QED BY <2>2, <3>1, <3>2, <3>3, <3>4, CutStep
  <2> QED BY <1>4, <2>3, <2>4 DEF Exit, Crash
<1> QED BY <1>1, <1>2, <1>3, <1>4 DEF MainStep

LEMMA AnyStep ==
  ASSUME TypeOK, [Next]_vars
  PROVE  DiskStep /\ \A u \in Threads : PcStep(u)
<1>1. ASSUME NEW c \in Calls, CallStep(c)
      PROVE  DiskStep /\ \A u \in Threads : PcStep(u)
  <2>1. c \in Threads
    BY DEF Threads
  <2>2. CASE DrawSeq(c)
    BY <2>1, <2>2 DEF DrawSeq, disk, SetPc, DiskStep, NoWrite, PcStep, TypeOK
  <2>3. CASE CallFails(c)
    BY <2>1, <2>3, ThreadSteps DEF CallFails
  <2> QED BY <1>1, <2>1, <2>2, <2>3, ThreadSteps DEF CallStep
<1>2. ASSUME NEW k \in Commands, CommandStep(k)
      PROVE  DiskStep /\ \A u \in Threads : PcStep(u)
  <2>1. k \in Threads /\ k \notin Calls
    BY NamesAssumption DEF Threads
  <2>2. CASE Act(k)
    BY <2>1, <2>2 DEF Act, disk, SetPc, DiskStep, NoWrite, PcStep, TypeOK
  <2>3. CASE CommandFails(k)
    BY <2>1, <2>3, ThreadSteps DEF CommandFails
  <2> QED BY <1>2, <2>1, <2>2, <2>3, ThreadSteps DEF CommandStep
<1>3. ASSUME UNCHANGED <<log, anchor, lock, pc>>
      PROVE  DiskStep /\ \A u \in Threads : PcStep(u)
  BY <1>3 DEF DiskStep, NoWrite, PcStep
<1>4. CASE \E h \in Hooks : Park(h)
  BY <1>3, <1>4 DEF Park, disk
<1>5. CASE \E v \in Verifiers : VerifierStep(v)
  BY <1>3, <1>5 DEF VerifierStep, Walk, ReadAnchor, Conclude, disk
<1>6. CASE UNCHANGED vars
  BY <1>3, <1>6 DEF vars, disk
<1> QED BY <1>1, <1>2, <1>4, <1>5, <1>6, MainSteps DEF Next

-----------------------------------------------------------------------------
(* The chain.                                                              *)

\* Whatever crashes and write errors leave behind, every line that parses is
\* chained to the last one before it that does.
THEOREM ChainNeverBreaks == Spec => []ChainHolds
<1>1. Init => ChainHolds
  BY DEF Init, ChainHolds, Chained
<1>2. TypeOK /\ ChainHolds /\ [Next]_vars => ChainHolds'
  <2> SUFFICES ASSUME TypeOK, Chained(log), [Next]_vars PROVE Chained(log')
    BY DEF ChainHolds
  <2>1. CASE log' = log
    BY <2>1
  <2>2. ASSUME NEW id \in Records, NEW line \in Line, LineWrite(id, line)
        PROVE  Chained(log')
    <3>1. line \in {Event(id, ChainHead), Torn} /\ log' = Extended(line)
      BY <2>2 DEF LineWrite
    <3>2. Chained(Extended(line))
      BY <3>1, ExtendedChain
    <3> QED BY <3>1, <3>2
  <2> QED BY <2>1, <2>2, AnyStep DEF DiskStep, NoWrite, AnchorWrite
<1> QED BY <1>1, <1>2, LedgerTypeCorrect, PTL DEF Spec

-----------------------------------------------------------------------------
(* While every line parses.                                                *)

\* A write that leaves every line whole found them so, and added its line.
LEMMA WholeWrite ==
  ASSUME TypeOK, NEW id \in Records, NEW line \in Line, LineWrite(id, line), Intact'
  PROVE  /\ Intact
         /\ line = Event(id, ChainHead)
         /\ Len(log') = Len(log) + 1
         /\ log'[Len(log) + 1] = line
         /\ \A i \in 1..Len(log) : log'[i] = log[i]
<1>1. line \in {Event(id, ChainHead), Torn} /\ log' = Extended(line) /\ Len(log) \in Nat
  BY DEF LineWrite, TypeOK
<1>2. ~Parses(Torn)
  BY DEF Parses, Torn
<1>3. ~ragged
  <2>1. ASSUME ragged PROVE FALSE
    <3>1. Len(log') = Len(log) /\ Len(log) > 0 /\ log'[Len(log)] = Torn
      BY <1>1, <2>1, ExtendedShape
    <3> QED BY <1>1, <1>2, <3>1 DEF Intact
  <2> QED BY <2>1
<1>4. /\ Len(log') = Len(log) + 1
      /\ log'[Len(log) + 1] = line
      /\ \A i \in 1..Len(log) : log'[i] = log[i]
  BY <1>1, <1>3, ExtendedShape
<1>5. Parses(line)
  BY <1>1, <1>4 DEF Intact
<1>6. Intact
  BY <1>1, <1>4 DEF Intact
<1> QED BY <1>1, <1>2, <1>4, <1>5, <1>6

\* The anchor names a head the ledger has had and still begins with; whoever
\* is in append() is about to anchor the ledger's head.
AnchorInv ==
  Intact =>
    /\ Len(anchor) <= Len(LastHash(log))
    /\ anchor = SubSeq(LastHash(log), 1, Len(anchor))
    /\ lock.by # Nobody => lock.head = LastHash(log)

\* A chain begins with itself, and what begins a chain begins a longer one.
LEMMA PrefixFacts ==
  ASSUME NEW h \in Chain, NEW a \in Chain, NEW id \in Records,
         Len(a) <= Len(h), a = SubSeq(h, 1, Len(a))
  PROVE  /\ Len(a) <= Len(Append(h, id))
         /\ a = SubSeq(Append(h, id), 1, Len(a))
<1>1. Len(a) \in Nat /\ Len(h) \in Nat /\ h \in Seq(Records) /\ a \in Seq(Records)
  BY DEF Chain
<1>2. Append(h, id) \in Seq(Records) /\ Len(Append(h, id)) = Len(h) + 1
  BY <1>1
<1>3. \A i \in 1..Len(h) : Append(h, id)[i] = h[i]
  BY <1>1
<1> DEFINE g == Append(h, id)
<1> DEFINE b == SubSeq(g, 1, Len(a))
<1>4. \A i \in 1..Len(a) : g[i] = h[i] /\ g[i] \in Records
  BY <1>1, <1>3
<1> HIDE DEF g
<1>5. b \in Seq(Records) /\ Len(b) = Len(a) /\ \A i \in 1..Len(a) : b[i] = g[i]
  BY <1>1, <1>4, SubSeqProperties
<1>6. \A i \in 1..Len(a) : SubSeq(h, 1, Len(a))[i] = h[i]
  BY <1>1
<1>7. a = b
  <2> HIDE DEF b
  <2> QED BY <1>1, <1>4, <1>5, <1>6, SeqEqual
<1> QED BY <1>1, <1>2, <1>7 DEF g

LEMMA HeadType ==
  ASSUME TypeOK
  PROVE  LastHash(log) \in Chain
<1>1. log \in Seq(Line) /\ Len(log) \in 0..Len(log)
  BY DEF TypeOK
<1> QED BY <1>1, HashIsChain DEF LastHash

\* While every line parses, the anchor is behind the ledger's head, never
\* elsewhere.
THEOREM AnchorTrails == Spec => []AnchorIsBehind
<1>1. Init => AnchorInv
  BY UnlockedType DEF Init, AnchorInv, Genesis, LastHash, HashUpTo
<1>2. TypeOK /\ AnchorInv /\ [Next]_vars => AnchorInv'
  <2> SUFFICES ASSUME TypeOK, AnchorInv, [Next]_vars, Intact'
               PROVE  /\ Len(anchor') <= Len(LastHash(log'))
                      /\ anchor' = SubSeq(LastHash(log'), 1, Len(anchor'))
                      /\ lock'.by # Nobody => lock'.head = LastHash(log')
    BY DEF AnchorInv
  <2>1. LastHash(log) \in Chain /\ anchor \in Chain
    BY HeadType DEF TypeOK
  <2>2. CASE NoWrite
    <3>1. Intact
      BY <2>2 DEF Intact, NoWrite
    <3> QED BY <2>2, <3>1, UnlockedType DEF NoWrite, AnchorInv
  <2>3. CASE AnchorWrite
    <3>1. Intact
      BY <2>3 DEF Intact, AnchorWrite
    <3>2. anchor' = LastHash(log) /\ LastHash(log') = LastHash(log)
      BY <2>3, <3>1 DEF AnchorWrite, AnchorInv
    <3>3. LastHash(log) = SubSeq(LastHash(log), 1, Len(LastHash(log)))
      BY <2>1, SubSeqFull DEF Chain
    <3>4. Len(LastHash(log)) \in Nat
      BY <2>1 DEF Chain
    <3> QED BY <2>3, <3>2, <3>3, <3>4, UnlockedType DEF AnchorWrite
  <2>4. ASSUME NEW id \in Records, NEW line \in Line, LineWrite(id, line)
        PROVE  /\ Len(anchor') <= Len(LastHash(log'))
               /\ anchor' = SubSeq(LastHash(log'), 1, Len(anchor'))
               /\ lock'.by # Nobody => lock'.head = LastHash(log')
    <3>1. /\ Intact
          /\ line = Event(id, ChainHead)
          /\ Len(log') = Len(log) + 1
          /\ log'[Len(log) + 1] = line
      BY <2>4, WholeWrite
    <3>2. Len(log) \in Nat
      BY DEF TypeOK
    <3>3. Parses(log'[Len(log) + 1])
      BY <3>1, <3>2 DEF Intact
    <3>4. LastHash(log') = log'[Len(log) + 1].hash
      BY <3>1, <3>2, <3>3, HashOfParsed DEF LastHash
    <3>5. LastHash(log') = Append(LastHash(log), id)
      BY <3>1, <3>4 DEF Event, ChainHead
    <3>6. anchor' = anchor /\ (lock'.by = Nobody \/ lock'.head = Append(LastHash(log), id))
      BY <2>4 DEF LineWrite, ChainHead
    <3>7. Len(anchor) <= Len(LastHash(log)) /\ anchor = SubSeq(LastHash(log), 1, Len(anchor))
      BY <3>1 DEF AnchorInv
    <3> QED BY <2>1, <3>5, <3>6, <3>7, PrefixFacts
  <2> QED BY <2>2, <2>3, <2>4, AnyStep DEF DiskStep
<1>3. AnchorInv => AnchorIsBehind
  BY DEF AnchorInv, AnchorIsBehind
<1> QED BY <1>1, <1>2, <1>3, LedgerTypeCorrect, PTL DEF Spec

-----------------------------------------------------------------------------
(* Every decision once.                                                    *)

\* A thread that has not written has no record, none has two, and one that
\* has written has one.
OnceInv ==
  Intact =>
    \A t \in Threads :
      /\ pc[t] \in {"new", "decided"} => Recorded(t) = {}
      /\ \A i, j \in Recorded(t) : i = j
      /\ pc[t] \in {"written", "answered"} => Recorded(t) # {}

\* The records of a thread after a write: the line's own thread has one more.
LEMMA RecordedAfter ==
  ASSUME TypeOK, NEW id \in Records, NEW line \in Line, LineWrite(id, line), Intact',
         NEW t \in Threads
  PROVE  Recorded(t)' = IF t = id THEN Recorded(t) \union {Len(log) + 1} ELSE Recorded(t)
<1>1. /\ line = Event(id, ChainHead)
      /\ Len(log') = Len(log) + 1
      /\ log'[Len(log) + 1] = line
      /\ \A i \in 1..Len(log) : log'[i] = log[i]
  BY WholeWrite
<1>2. Len(log) \in Nat
  BY DEF TypeOK
<1>3. line.id = id
  BY <1>1 DEF Event
<1>4. Recorded(t)' = {i \in 1..(Len(log) + 1) : log'[i].id = t}
  BY <1>1 DEF Recorded
<1>5. ASSUME NEW i
      PROVE  i \in Recorded(t)' <=> i \in Recorded(t) \/ (i = Len(log) + 1 /\ t = id)
  <2>1. i \in 1..(Len(log) + 1) <=> i \in 1..Len(log) \/ i = Len(log) + 1
    BY <1>2
  <2>2. Len(log) + 1 \notin 1..Len(log)
    BY <1>2
  <2> QED BY <1>1, <1>3, <1>4, <2>1, <2>2 DEF Recorded
<1> QED BY <1>5

LEMMA OnceStep == TypeOK /\ OnceInv /\ [Next]_vars => OnceInv'
<1> SUFFICES ASSUME TypeOK, OnceInv, [Next]_vars, Intact', NEW t \in Threads
             PROVE  /\ pc'[t] \in {"new", "decided"} => Recorded(t)' = {}
                    /\ \A i, j \in Recorded(t)' : i = j
                    /\ pc'[t] \in {"written", "answered"} => Recorded(t)' # {}
  BY DEF OnceInv
<1>1. DiskStep /\ PcStep(t)
  BY AnyStep
<1>2. CASE log' = log
  <2>1. Intact /\ Recorded(t)' = Recorded(t)
    BY <1>2 DEF Intact, Recorded
  <2>2. Extended(Event(t, ChainHead)) # log
    <3>1. Event(t, ChainHead) \in Line /\ Len(log) \in Nat
      BY LineType, ThreadIsRecord DEF TypeOK
    <3>2. ~Parses(Torn)
      BY DEF Parses, Torn
    <3>3. CASE ragged
      <4>1. Extended(Event(t, ChainHead))[Len(log)] = Torn /\ Len(log) > 0
        BY <3>1, <3>3, ExtendedShape
      <4> QED BY <2>1, <3>1, <3>2, <4>1 DEF Intact
    <3>4. CASE ~ragged
      BY <3>1, <3>4, ExtendedShape
    <3> QED BY <3>3, <3>4
  <2> QED BY <1>1, <1>2, <2>1, <2>2 DEF OnceInv, PcStep
<1>3. ASSUME NEW id \in Records, NEW line \in Line, LineWrite(id, line)
      PROVE  /\ pc'[t] \in {"new", "decided"} => Recorded(t)' = {}
             /\ \A i, j \in Recorded(t)' : i = j
             /\ pc'[t] \in {"written", "answered"} => Recorded(t)' # {}
  <2>1. Recorded(t)' = IF t = id THEN Recorded(t) \union {Len(log) + 1} ELSE Recorded(t)
    BY <1>3, RecordedAfter
  <2>2. Intact
    BY <1>3, WholeWrite
  <2>3. CASE t = id
    <3>1. Recorded(t) = {} /\ pc'[t] \notin {"new", "decided"}
      BY <1>3, <2>2, <2>3 DEF LineWrite, OnceInv
    <3> QED BY <2>1, <2>3, <3>1
  <2>4. CASE t # id
    <3>1. log' # Extended(Event(t, ChainHead))
      <4>1. /\ line = Event(id, ChainHead)
            /\ Len(log') = Len(log) + 1
            /\ log'[Len(log) + 1] = line
        BY <1>3, WholeWrite
      <4>2. Len(log) \in Nat /\ Event(t, ChainHead) \in Line
        BY LineType, ThreadIsRecord DEF TypeOK
      <4>3. CASE ragged
        BY <4>1, <4>2, <4>3, ExtendedShape
      <4>4. CASE ~ragged
        <5>1. Extended(Event(t, ChainHead))[Len(log) + 1] = Event(t, ChainHead)
          BY <4>2, <4>4, ExtendedShape
        <5> QED BY <2>4, <4>1, <5>1 DEF Event
      <4> QED BY <4>3, <4>4
    <3> QED BY <1>1, <2>1, <2>2, <2>4, <3>1 DEF OnceInv, PcStep
  <2> QED BY <2>3, <2>4
<1> QED BY <1>1, <1>2, <1>3 DEF DiskStep, NoWrite, AnchorWrite

LEMMA OnceAlways == Spec => []OnceInv
<1>1. Init => OnceInv
  BY DEF Init, OnceInv, Recorded
<1> QED BY <1>1, OnceStep, LedgerTypeCorrect, PTL DEF Spec

\* No decision is recorded twice, and what was answered without an error is
\* recorded, over failures and restarts, while every line parses.
THEOREM EveryDecisionOnce == Spec => []RecordedOnce
<1>1. OnceInv => RecordedOnce
  <2> SUFFICES ASSUME OnceInv, Intact, NEW t \in Threads
               PROVE  /\ Cardinality(Recorded(t)) <= 1
                      /\ pc[t] \in {"written", "answered"} => Recorded(t) # {}
    BY DEF RecordedOnce
  <2>1. \A i, j \in Recorded(t) : i = j
    BY DEF OnceInv
  <2>2. CASE Recorded(t) = {}
    BY <2>2, FS_EmptySet DEF OnceInv
  <2>3. CASE Recorded(t) # {}
    <3>1. PICK i \in Recorded(t) : TRUE
      BY <2>3
    <3>2. Recorded(t) = {i}
      BY <2>1, <3>1
    <3> QED BY <3>2, FS_Singleton
  <2> QED BY <2>2, <2>3
<1> QED BY <1>1, OnceAlways, PTL

\* When a call is answered, its record is in the ledger or the perimeter has
\* dropped to SAFE.
THEOREM AnsweredMeansRecordedOrSafe == Spec => RecordedOrSafe
<1>1. TypeOK /\ OnceInv /\ OnceInv' /\ [Next]_vars =>
        [Intact' => \A c \in Calls :
           pc[c] \in {"decided", "written"} /\ pc'[c] \in {"answered", "failed"}
             => safe' \/ Recorded(c)' # {}]_vars
  <2> SUFFICES ASSUME TypeOK, OnceInv', [Next]_vars, Intact', NEW c \in Calls,
                      pc[c] \in {"decided", "written"}, pc'[c] \in {"answered", "failed"}
               PROVE  safe' \/ Recorded(c)' # {}
    OBVIOUS
  <2>1. c \in Threads
    BY DEF Threads
  <2>2. PcStep(c)
    BY <2>1, AnyStep
  <2>3. pc'[c] = "answered" => Recorded(c)' # {}
    BY <2>1 DEF OnceInv
  <2> QED BY <2>2, <2>3 DEF PcStep
<1> QED BY <1>1, OnceAlways, LedgerTypeCorrect, PTL DEF Spec, RecordedOrSafe

-----------------------------------------------------------------------------
(* Sequence numbers.                                                       *)

\* The counter is at least every number drawn, and none was drawn twice.
SeqInv ==
  /\ \A c \in Calls : seqOf[c] <= seq
  /\ SeqIsUnique

\* No two calls ever have the same sequence number, over crashes.
THEOREM SequenceNumbersAreUnique == Spec => []SeqIsUnique
<1>1. Init => SeqInv
  BY DEF Init, SeqInv, SeqIsUnique
<1>2. TypeOK /\ SeqInv /\ [Next]_vars => SeqInv'
  <2> SUFFICES ASSUME TypeOK, SeqInv, [Next]_vars PROVE SeqInv'
    OBVIOUS
  <2>1. seq \in Nat /\ seqOf \in [Calls -> Nat]
    BY DEF TypeOK
  <2>2. CASE UNCHANGED <<seq, seqOf>>
    BY <2>2 DEF SeqInv, SeqIsUnique
  <2>3. ASSUME NEW c \in Calls, NextSeq(c) PROVE SeqInv'
    <3>1. seq' = seq + 1 /\ seqOf' = [seqOf EXCEPT ![c] = seq + 1]
      BY <2>3 DEF NextSeq
    <3>2. ASSUME NEW d \in Calls PROVE seqOf'[d] = IF d = c THEN seq + 1 ELSE seqOf[d]
      BY <2>1, <3>1
    <3>3. \A d \in Calls : seqOf[d] \in Nat /\ seqOf[d] <= seq
      BY <2>1 DEF SeqInv
    <3>4. \A d \in Calls : seqOf'[d] <= seq'
      BY <2>1, <3>1, <3>2, <3>3
    <3>5. SeqIsUnique'
      BY <2>1, <3>2, <3>3 DEF SeqInv, SeqIsUnique
    <3> QED BY <3>4, <3>5 DEF SeqInv
  <2>4. UNCHANGED <<seq, seqOf>> \/ \E c \in Calls : NextSeq(c)
    BY DEF Next, CallStep, DrawSeq, ThreadLine, ThreadAnchor, CallFails, CommandStep, Act,
           CommandFails, MainStep, Start, MainLine, MainAnchor, DropSpool, Serve, Stop, Exit,
           Crash, Ended, Park, VerifierStep, Walk, ReadAnchor, Conclude, vars
  <2> QED BY <2>2, <2>3, <2>4
<1>3. SeqInv => SeqIsUnique
  BY DEF SeqInv
<1> QED BY <1>1, <1>2, <1>3, LedgerTypeCorrect, PTL DEF Spec

=============================================================================
