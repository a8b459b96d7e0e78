---------------------------- MODULE LedgerProofs ----------------------------
(***************************************************************************)
(* Proofs about the ledger file: for any number of overlapping processes,  *)
(* kills and failed writes, a file that loads is no mixture of histories;  *)
(* and one invocation at a time keeps what was saved: it implements the    *)
(* append-only log.                                                        *)
(***************************************************************************)
EXTENDS Ledger, SequenceTheorems, FiniteSetTheorems, TLAPS

(* A set of positions has a largest one.                                   *)
LEMMA LargestElement ==
  ASSUME NEW N \in Nat, NEW T \in SUBSET (1 .. N), T # {}
  PROVE  \E x \in T : \A y \in T : y <= x
<1> DEFINE Up == {x .. N : x \in T}
           R  == StrictSubsetOrdering(1 .. N)
           F  == FiniteSubsetsOf(1 .. N)
<1>1. IsWellFoundedOn(R, F)
  BY FS_StrictSubsetOrderingWellFounded
<1>2. Up \subseteq F
  <2>1. \A x \in T : x .. N \subseteq 1 .. N /\ IsFiniteSet(x .. N)
    BY FS_Interval
  <2>2. QED
    BY <2>1 DEF FiniteSubsetsOf
<1>3. PICK A \in Up : \A B \in Up : <<B, A>> \notin R
  <2>1. Up # {}
    OBVIOUS
  <2>2. QED
    BY <1>1, <1>2, <2>1, WFMin, Zenon
<1>4. PICK x \in T : A = x .. N
  OBVIOUS
<1>5. ASSUME NEW y \in T, ~(y <= x) PROVE FALSE
  <2>1. y .. N \subseteq x .. N /\ y .. N # x .. N /\ x .. N \subseteq 1 .. N
    BY <1>5
  <2>2. <<y .. N, x .. N>> \in R
    BY <2>1 DEF StrictSubsetOrdering
  <2>3. QED
    BY <1>3, <1>4, <2>2
<1>6. QED
  BY <1>5

(* An entry of a history and its checksum.                                 *)
LEMMA EntryFacts ==
  ASSUME NEW h \in History, NEW i \in DOMAIN h
  PROVE  /\ i \in 1 .. Len(h)
         /\ h[i] \in Event
         /\ Entry(h, i).event = h[i]
         /\ Entry(h, i).checksum = SubSeq(h, 1, i)
         /\ SubSeq(h, 1, i) \in History
         /\ Entry(h, i) \in Line
<1>1. i \in 1 .. Len(h) /\ Len(h) \in Nat /\ h[i] \in Event
  BY LenProperties, ElementOfSeq DEF History
<1>2. \A j \in 1 .. i : h[j] \in Event
  BY <1>1, ElementOfSeq DEF History
<1>3. SubSeq(h, 1, i) \in History
  BY <1>1, <1>2, SubSeqProperties DEF History
<1>4. QED
  BY <1>1, <1>3 DEF Entry, Line

(* A checksum determines the one before it and its event.                  *)
LEMMA AppendCancels ==
  ASSUME NEW s \in Seq(Event), NEW t \in Seq(Event),
         NEW d \in Event, NEW e \in Event, Append(s, d) = Append(t, e)
  PROVE  s = t /\ d = e
<1>1. Append(s, d) \in Seq(Event) /\ Append(t, e) \in Seq(Event)
  OBVIOUS
<1>2. Len(Append(s, d)) = Len(s) + 1 /\ Len(Append(t, e)) = Len(t) + 1
  OBVIOUS
<1>3. Len(s) = Len(t) /\ Len(s) \in Nat
  BY <1>2
<1>4. d = e
  BY <1>3
<1>5. \A i \in 1 .. Len(s) : s[i] = t[i]
  BY <1>3, AppendProperties
<1>6. QED
  BY <1>3, <1>4, <1>5, SeqEqual

-----------------------------------------------------------------------------
(* A file whose chain verifies and whose last line is an entry of h is a   *)
(* prefix of h, whoever wrote the lines before it.                         *)
LEMMA ChainDeterminesHistory ==
  ASSUME NEW lines \in Seq(Line), lines # <<>>, Loads(lines),
         NEW h \in History, Len(lines) \in DOMAIN h,
         lines[Len(lines)] = Entry(h, Len(lines))
  PROVE  IsPrefix(Events(lines), h)
<1> DEFINE n == Len(lines)
<1>1. n \in Nat /\ n >= 1 /\ DOMAIN lines = 1 .. n /\ n <= Len(h) /\ Len(h) \in Nat
  BY LenProperties, EmptySeq, EntryFacts DEF History
<1>2. \A i \in 1 .. n : lines[i].event \in Event /\ lines[i].checksum \in History
  <2>1. \A i \in 1 .. n : lines[i] \in Line /\ lines[i] # Torn
    BY <1>1, ElementOfSeq DEF Loads
  <2>2. QED
    BY <2>1 DEF Line
<1>3. \A i \in 1 .. n :
        /\ i = 1 => lines[i].checksum = Append(<<>>, lines[i].event)
        /\ i > 1 => lines[i].checksum =
                      Append(lines[i - 1].checksum, lines[i].event)
  <2>1. \A i \in 1 .. n :
          LET previous == IF i = 1 THEN <<>> ELSE lines[i - 1].checksum
          IN  lines[i].checksum = Append(previous, lines[i].event)
    BY <1>1 DEF Loads, VerifyChain
  <2>2. QED
    BY <2>1
<1>4. ASSUME NEW i \in 1 .. n
      PROVE  /\ i \in DOMAIN h
             /\ h[i] \in Event
             /\ SubSeq(h, 1, i) \in History
             /\ SubSeq(h, 1, i - 1) \in History
             /\ i = 1 => SubSeq(h, 1, i) = Append(<<>>, h[i])
             /\ SubSeq(h, 1, i) = Append(SubSeq(h, 1, i - 1), h[i])
  <2>1. i \in 1 .. Len(h) /\ DOMAIN h = 1 .. Len(h)
    BY <1>1, LenProperties DEF History
  <2>2. /\ h[i] \in Event /\ SubSeq(h, 1, i) \in History
        /\ \A j \in 1 .. i - 1 : h[j] \in Event
    BY <2>1, EntryFacts, ElementOfSeq DEF History
  <2>3. SubSeq(h, 1, i - 1) \in Seq(Event)
    BY <2>1, <2>2, SubSeqProperties
  <2>4. SubSeq(h, 1, i) = SubSeq(h, 1, i - 1) \o <<h[i]>>
    BY <2>1, SubSeqRecursiveSecond DEF History
  <2>5. SubSeq(h, 1, i) = Append(SubSeq(h, 1, i - 1), h[i])
    BY <2>2, <2>3, <2>4, AppendIsConcat
  <2>6. i = 1 => SubSeq(h, 1, i - 1) = <<>>
    BY SubSeqEmpty
  <2>7. QED
    BY <2>1, <2>2, <2>3, <2>5, <2>6 DEF History
<1> DEFINE Bad == {i \in 1 .. n : lines[i].checksum # SubSeq(h, 1, i)}
<1>5. ASSUME NEW i \in 1 .. n, i > 1, lines[i].checksum = SubSeq(h, 1, i)
      PROVE  lines[i - 1].checksum = SubSeq(h, 1, i - 1)
  <2>1. /\ i - 1 \in 1 .. n
        /\ lines[i - 1].checksum \in Seq(Event)
        /\ SubSeq(h, 1, i - 1) \in Seq(Event)
        /\ lines[i].event \in Event
        /\ h[i] \in Event
    BY <1>1, <1>2, <1>4, <1>5 DEF History
  <2>2. lines[i].checksum = Append(lines[i - 1].checksum, lines[i].event)
    BY <1>3, <1>5
  <2>3. SubSeq(h, 1, i) = Append(SubSeq(h, 1, i - 1), h[i])
    BY <1>4, <1>5
  <2>4. Append(lines[i - 1].checksum, lines[i].event) =
          Append(SubSeq(h, 1, i - 1), h[i])
    BY <1>5, <2>2, <2>3
  <2> HIDE DEF Bad
  <2>5. QED
    BY <2>1, <2>4, AppendCancels
<1>6. Bad = {}
  <2> SUFFICES ASSUME Bad # {} PROVE FALSE
    OBVIOUS
  <2>1. PICK i \in Bad : \A j \in Bad : j <= i
    BY <1>1, LargestElement
  <2>2. n \notin Bad
    BY <1>1, EntryFacts
  <2>3. i + 1 \in 1 .. n /\ i + 1 \notin Bad
    BY <1>1, <2>1, <2>2
  <2>4. QED
    BY <1>5, <2>1, <2>3
<1>7. \A i \in 1 .. n : lines[i].event = h[i]
  <2> TAKE i \in 1 .. n
  <2>1. lines[i].checksum = SubSeq(h, 1, i)
    BY <1>6
  <2>2. i - 1 \in 1 .. n \/ i = 1
    BY <1>1
  <2>3. CASE i = 1
    <3>1. <<>> \in Seq(Event)
      BY EmptySeq
    <3>2. Append(<<>>, lines[i].event) = Append(<<>>, h[i])
      BY <1>3, <1>4, <2>1, <2>3
    <3>3. QED
      BY <1>2, <1>4, <3>1, <3>2, AppendCancels
  <2>4. CASE i # 1
    <3>1. Append(lines[i - 1].checksum, lines[i].event) =
            Append(SubSeq(h, 1, i - 1), h[i])
      <4>1. lines[i].checksum = Append(lines[i - 1].checksum, lines[i].event)
        BY <1>3, <2>4
      <4>2. SubSeq(h, 1, i) = Append(SubSeq(h, 1, i - 1), h[i])
        BY <1>4
      <4>3. QED
        BY <2>1, <4>1, <4>2
    <3>2. /\ lines[i - 1].checksum \in Seq(Event)
          /\ SubSeq(h, 1, i - 1) \in Seq(Event)
      BY <1>2, <1>4, <2>2, <2>4 DEF History
    <3>3. QED
      BY <1>2, <1>4, <3>1, <3>2, AppendCancels
  <2>5. QED
    BY <2>3, <2>4
<1>8. Events(lines) \in Seq(Event) /\ Len(Events(lines)) = n
      /\ \A i \in 1 .. n : Events(lines)[i] = h[i]
  <2>1. Events(lines) \in [1 .. n -> Event]
    BY <1>1, <1>2 DEF Events
  <2>2. Events(lines) \in Seq(Event)
    BY <1>1, <2>1, SeqDef
  <2>3. QED
    BY <1>1, <1>7, <2>1, <2>2, LenProperties DEF Events
<1>9. Events(lines) = SubSeq(h, 1, n)
  <2>1. SubSeq(h, 1, n) \in Seq(Event) /\ Len(SubSeq(h, 1, n)) = n
        /\ \A i \in 1 .. n : SubSeq(h, 1, n)[i] = h[i]
    <3>1. \A i \in 1 .. n : h[i] \in Event
      BY <1>4
    <3>2. QED
      BY <1>1, <3>1, SubSeqProperties
  <2>2. QED
    BY <1>8, <2>1, SeqEqual
<1>10. SubSeq(Events(lines), 1, n) = Events(lines)
  BY <1>8, SubSeqFull
<1>11. QED
  BY <1>1, <1>8, <1>9, <1>10 DEF IsPrefix

-----------------------------------------------------------------------------
(* The steps that write the file. *)

(* A write leaves every other line alone, or makes a hole.                 *)
LEMMA WriteAtFacts ==
  ASSUME NEW lines \in Seq(Line), NEW i \in Nat, i >= 1, NEW line \in Line
  PROVE  /\ WriteAt(lines, i, line) \in Seq(Line)
         /\ \A j \in DOMAIN WriteAt(lines, i, line) :
              \/ j = i /\ WriteAt(lines, i, line)[j] = line
              \/ j \in DOMAIN lines /\ WriteAt(lines, i, line)[j] = lines[j]
              \/ WriteAt(lines, i, line)[j] = Torn
<1> DEFINE k == IF i > Len(lines) THEN i ELSE Len(lines)
           f == [j \in 1 .. k |->
                   CASE j = i          -> line
                     [] j # i /\ j \in DOMAIN lines -> lines[j]
                     [] OTHER          -> Torn]
<1>1. k \in Nat /\ DOMAIN lines = 1 .. Len(lines)
  BY LenProperties
<1>2. WriteAt(lines, i, line) = f
  BY DEF WriteAt
<1>3. ASSUME NEW j \in 1 .. k
      PROVE  /\ \/ j = i /\ f[j] = line
                \/ j \in DOMAIN lines /\ f[j] = lines[j]
                \/ f[j] = Torn
             /\ f[j] \in Line
  <2>1. Torn \in Line
    BY DEF Line
  <2>2. j \in DOMAIN lines => lines[j] \in Line
    BY <1>1, ElementOfSeq
  <2>3. CASE j = i
    BY <2>3
  <2>4. CASE j # i /\ j \in DOMAIN lines
    BY <2>2, <2>4
  <2>5. CASE j # i /\ j \notin DOMAIN lines
    BY <2>1, <2>5
  <2>6. QED
    BY <2>3, <2>4, <2>5
<1> HIDE DEF k
<1>4. f \in [1 .. k -> Line]
  BY <1>3
<1>5. f \in Seq(Line)
  BY <1>1, <1>4, SeqDef
<1>6. QED
  BY <1>2, <1>3, <1>5

LedgerInv == TypeOK /\ LinesAreEntries

(* The invariant holds at the start.                                       *)
LEMMA InitInv == Init => LedgerInv
<1> SUFFICES ASSUME Init PROVE LedgerInv
  OBVIOUS
<1>1. <<>> \in Seq(Line) /\ <<>> \in Seq(Event) /\ Len(<<>>) = 0
  BY EmptySeq
<1>2. QED
  BY <1>1 DEF Init, LedgerInv, TypeOK, LinesAreEntries, History

(* Whatever is on disk, a process boots into a history. *)
LEMMA BootstrapType ==
  ASSUME NEW lines \in Seq(Line)
  PROVE  Bootstrap(lines) \in History
<1>1. <<>> \in Seq(Event)
  BY EmptySeq
<1>2. CASE Loads(lines)
  <2>1. DOMAIN lines = 1 .. Len(lines) /\ Len(lines) \in Nat
    BY LenProperties
  <2>2. \A i \in 1 .. Len(lines) : lines[i] \in Line /\ lines[i] # Torn
    BY <1>2, <2>1, ElementOfSeq DEF Loads
  <2>3. \A i \in 1 .. Len(lines) : lines[i].event \in Event
    BY <2>2 DEF Line
  <2>4. Events(lines) \in [1 .. Len(lines) -> Event]
    BY <2>1, <2>3 DEF Events
  <2>5. Events(lines) \in Seq(Event)
    BY <2>1, <2>4, SeqDef
  <2>6. QED
    BY <1>2, <2>5 DEF Bootstrap, History
<1>3. QED
  BY <1>1, <1>2 DEF Bootstrap, History

(* Steps that leave the file, the histories and the saving processes alone. *)
LEMMA LogStep ==
  ASSUME LedgerInv, NEW p \in Process, NEW h \in History,
         pc[p] # "saving", pc'[p] # "saving",
         log' = [log EXCEPT ![p] = h],
         pc' \in [Process -> {"down", "up", "saving"}],
         \A q \in Process : q # p => pc'[q] = pc[q],
         UNCHANGED <<file, written, interrupts, started, saved>>
  PROVE  LedgerInv'
<1>1. TypeOK'
  <2>1. log' \in [Process -> History]
    BY DEF LedgerInv, TypeOK
  <2>2. \A q \in Process : pc'[q] = "saving" => log'[q] = log[q] /\ pc[q] = "saving"
    BY DEF LedgerInv, TypeOK
  <2>3. QED
    BY <2>1, <2>2 DEF LedgerInv, TypeOK
<1>2. LinesAreEntries'
  <2>1. \A q \in Process : pc'[q] = "saving" => log'[q] = log[q] /\ pc[q] = "saving"
    BY DEF LedgerInv, TypeOK
  <2>2. QED
    BY <2>1 DEF LedgerInv, LinesAreEntries
<1>3. QED
  BY <1>1, <1>2 DEF LedgerInv

(* A line is written, and the process goes on saving or goes down. *)
LEMMA WriteStep ==
  ASSUME LedgerInv, NEW p \in Process, NEW i \in Nat, NEW line \in Line,
         pc[p] = "saving", i >= 1,
         line = Torn \/ (i \in DOMAIN log[p] /\ line = Entry(log[p], i)),
         file' = WriteAt(file, i, line),
         pc' \in [Process -> {"down", "up", "saving"}],
         \A q \in Process : pc'[q] = "saving" => pc[q] = "saving",
         written' \in [Process -> Nat],
         \A q \in Process : pc'[q] = "saving" => written'[q] <= Len(log[q]),
         interrupts' \in Nat,
         UNCHANGED <<log, started, saved>>
  PROVE  LedgerInv'
<1>1. file \in Seq(Line) /\ file' \in Seq(Line)
  BY WriteAtFacts DEF LedgerInv, TypeOK
<1>2. TypeOK'
  BY <1>1 DEF LedgerInv, TypeOK
<1>3. ASSUME NEW j \in DOMAIN file'
      PROVE  file'[j] = Torn
             \/ \E h \in started' : j \in DOMAIN h /\ file'[j] = Entry(h, j)
  <2>1. \/ j = i /\ file'[j] = line
        \/ j \in DOMAIN file /\ file'[j] = file[j]
        \/ file'[j] = Torn
    <3>1. file' = WriteAt(file, i, line) /\ j \in DOMAIN WriteAt(file, i, line)
      OBVIOUS
    <3>2. \/ j = i /\ WriteAt(file, i, line)[j] = line
          \/ j \in DOMAIN file /\ WriteAt(file, i, line)[j] = file[j]
          \/ WriteAt(file, i, line)[j] = Torn
      BY <1>1, <3>1, WriteAtFacts
    <3>3. QED
      BY <3>1, <3>2
  <2>2. log[p] \in started
    BY DEF LedgerInv, LinesAreEntries
  <2>3. QED
    BY <2>1, <2>2 DEF LedgerInv, LinesAreEntries
<1>4. LinesAreEntries'
  BY <1>3 DEF LedgerInv, LinesAreEntries
<1>5. QED
  BY <1>2, <1>4 DEF LedgerInv

(* Every step of every process preserves the invariant.                    *)
LEMMA NextInv == LedgerInv /\ [Next]_vars => LedgerInv'
<1> SUFFICES ASSUME LedgerInv, [Next]_vars PROVE LedgerInv'
  OBVIOUS
<1>1. CASE UNCHANGED vars
  BY <1>1 DEF vars, LedgerInv, TypeOK, LinesAreEntries, Entry
<1>2. ASSUME NEW p \in Process, Boot(p) PROVE LedgerInv'
  <2>1. Bootstrap(file) \in History
    BY BootstrapType DEF LedgerInv, TypeOK
  <2>2. pc' \in [Process -> {"down", "up", "saving"}] /\ pc'[p] = "up"
        /\ \A q \in Process : q # p => pc'[q] = pc[q]
    BY <1>2 DEF Boot, LedgerInv, TypeOK
  <2>3. QED
    BY <1>2, <2>1, <2>2, LogStep DEF Boot
<1>3. ASSUME NEW p \in Process, NEW e \in Event, Record(p, e) PROVE LedgerInv'
  <2>1. Append(log[p], e) \in History
    BY DEF LedgerInv, TypeOK, History
  <2>2. log' = [log EXCEPT ![p] = Append(log[p], e)]
    BY <1>3 DEF Record
  <2>3. QED
    BY <1>3, <2>1, <2>2, LogStep DEF Record, LedgerInv, TypeOK
<1>4. ASSUME NEW p \in Process, StartSave(p) PROVE LedgerInv'
  <2>1. <<>> \in Seq(Line)
    BY EmptySeq
  <2>2. log[p] \in History /\ Len(log[p]) \in Nat
    BY LenProperties DEF LedgerInv, TypeOK, History
  <2>3. TypeOK'
    BY <1>4, <2>1, <2>2 DEF StartSave, LedgerInv, TypeOK
  <2>4. LinesAreEntries'
    BY <1>4 DEF StartSave, LedgerInv, TypeOK, LinesAreEntries
  <2>5. QED
    BY <2>3, <2>4 DEF LedgerInv
<1>5. ASSUME NEW p \in Process, WriteLine(p) PROVE LedgerInv'
  <2> DEFINE i == written[p] + 1
  <2>1. /\ log[p] \in History /\ written[p] \in Nat
        /\ DOMAIN log[p] = 1 .. Len(log[p]) /\ Len(log[p]) \in Nat
    BY LenProperties DEF LedgerInv, TypeOK, History
  <2>2. i \in DOMAIN log[p] /\ written'[p] = i
    BY <1>5, <2>1 DEF WriteLine, LedgerInv, TypeOK
  <2>3. Entry(log[p], i) \in Line
    BY <2>1, <2>2, EntryFacts
  <2>4. written' \in [Process -> Nat]
        /\ \A q \in Process : pc'[q] = "saving" => written'[q] <= Len(log[q])
    BY <1>5, <2>1, <2>2 DEF WriteLine, LedgerInv, TypeOK
  <2>5. i \in Nat /\ i >= 1 /\ pc[p] = "saving"
        /\ file' = WriteAt(file, i, Entry(log[p], i))
    BY <1>5, <2>1, <2>2 DEF WriteLine
  <2>6. QED
    BY <1>5, <2>2, <2>3, <2>4, <2>5, WriteStep DEF WriteLine, LedgerInv, TypeOK
<1>6. ASSUME NEW p \in Process, EndSave(p) PROVE LedgerInv'
  BY <1>6 DEF EndSave, LedgerInv, TypeOK, LinesAreEntries, Entry
<1>7. ASSUME NEW p \in Process, Leave(p) PROVE LedgerInv'
  BY <1>7 DEF Leave, LedgerInv, TypeOK, LinesAreEntries, Entry
<1>8. ASSUME NEW p \in Process, Interrupt(p) PROVE LedgerInv'
  <2>1. CASE UNCHANGED file
    BY <1>8, <2>1 DEF Interrupt, LedgerInv, TypeOK, LinesAreEntries, Entry
  <2>2. CASE file' = WriteAt(file, written[p] + 1, Torn)
    <3>1. /\ written[p] + 1 \in Nat /\ written[p] + 1 >= 1
          /\ Torn \in Line
      BY DEF Line, LedgerInv, TypeOK
    <3>2. /\ pc' \in [Process -> {"down", "up", "saving"}]
          /\ \A q \in Process : pc'[q] = "saving" => pc[q] = "saving"
          /\ interrupts' \in Nat /\ pc[p] = "saving"
      BY <1>8 DEF Interrupt, LedgerInv, TypeOK
    <3>3. /\ written' \in [Process -> Nat]
          /\ \A q \in Process : pc'[q] = "saving" => written'[q] <= Len(log[q])
      BY <1>8, <3>2 DEF Interrupt, LedgerInv, TypeOK
    <3>4. QED
      BY <1>8, <2>2, <3>1, <3>2, <3>3, WriteStep DEF Interrupt
  <2>3. QED
    BY <1>8, <2>1, <2>2 DEF Interrupt
<1>9. QED
  BY <1>1, <1>2, <1>3, <1>4, <1>5, <1>6, <1>7, <1>8 DEF Next

(* The invariant of the ledger file, however processes overlap.            *)
THEOREM Invariance == Spec => []LedgerInv
<1>1. QED
  BY InitInv, NextInv, PTL DEF Spec

(***************************************************************************)
(* The state of the file and of every process always has its type.         *)
(***************************************************************************)
THEOREM TypeCorrect == Spec => []TypeOK
<1>1. LedgerInv => TypeOK
  BY DEF LedgerInv
<1>2. QED
  BY Invariance, <1>1, PTL

(***************************************************************************)
(* Whatever overlapping saves, kills and failed writes leave on disk: a    *)
(* file that load() accepts is a prefix of one history that some process   *)
(* held, for any number of processes and events.                           *)
(***************************************************************************)
THEOREM LoadedFileIsNoMixture == Spec => []NoHybridHistory
<1>1. LedgerInv => NoHybridHistory
  <2> SUFFICES ASSUME LedgerInv, Loads(file), file # <<>>
               PROVE  \E h \in started : IsPrefix(Events(file), h)
    BY DEF NoHybridHistory
  <2>1. file \in Seq(Line) /\ Len(file) \in DOMAIN file
    BY LenProperties, EmptySeq DEF LedgerInv, TypeOK
  <2>2. file[Len(file)] # Torn
    BY <2>1 DEF Loads
  <2>3. PICK h \in started : Len(file) \in DOMAIN h
                             /\ file[Len(file)] = Entry(h, Len(file))
    BY <2>1, <2>2 DEF LedgerInv, LinesAreEntries
  <2>4. h \in History
    BY DEF LedgerInv, TypeOK
  <2>5. QED
    BY <2>1, <2>3, <2>4, ChainDeterminesHistory
<1>2. QED
  BY Invariance, <1>1, PTL

(* A prefix, element by element. *)
LEMMA PrefixFacts ==
  ASSUME NEW s \in History, NEW t \in History
  PROVE  IsPrefix(s, t) <=> Len(s) <= Len(t) /\ \A i \in 1 .. Len(s) : s[i] = t[i]
<1>1. /\ Len(s) \in Nat /\ Len(t) \in Nat
      /\ DOMAIN s = 1 .. Len(s) /\ DOMAIN t = 1 .. Len(t)
  BY LenProperties DEF History
<1>2. SubSeq(s, 1, Len(s)) = s
  BY SubSeqFull DEF History
<1>3. ASSUME Len(s) <= Len(t)
      PROVE  /\ SubSeq(t, 1, Len(s)) \in Seq(Event)
             /\ Len(SubSeq(t, 1, Len(s))) = Len(s)
             /\ \A i \in 1 .. Len(s) : SubSeq(t, 1, Len(s))[i] = t[i]
  <2>1. \A i \in 1 .. Len(s) : t[i] \in Event
    BY <1>1, <1>3, ElementOfSeq DEF History
  <2>2. QED
    BY <1>1, <2>1, SubSeqProperties
<1>4. ASSUME Len(s) <= Len(t), \A i \in 1 .. Len(s) : s[i] = t[i]
      PROVE  s = SubSeq(t, 1, Len(s))
  BY <1>3, <1>4, SeqEqual DEF History
<1>5. QED
  BY <1>2, <1>3, <1>4 DEF IsPrefix

(* Prefixes are ordered; what is appended is behind what was there.        *)
LEMMA PrefixOrder ==
  /\ \A s \in History : IsPrefix(s, s) /\ IsPrefix(<<>>, s)
  /\ \A s \in History, e \in Event : IsPrefix(s, Append(s, e))
  /\ \A s, t, u \in History : IsPrefix(s, t) /\ IsPrefix(t, u) => IsPrefix(s, u)
<1>1. <<>> \in History /\ Len(<<>>) = 0
  BY EmptySeq DEF History
<1>2. \A s \in History : Len(s) \in Nat
  BY LenProperties DEF History
<1>3. \A s \in History : IsPrefix(s, s) /\ IsPrefix(<<>>, s)
  BY <1>1, <1>2, PrefixFacts
<1>4. ASSUME NEW s \in History, NEW e \in Event PROVE IsPrefix(s, Append(s, e))
  <2>1. /\ Append(s, e) \in History /\ Len(Append(s, e)) = Len(s) + 1
        /\ \A i \in 1 .. Len(s) : Append(s, e)[i] = s[i]
    BY <1>4, AppendProperties DEF History
  <2>2. Len(s) \in Nat
    BY <1>2
  <2>3. Len(s) <= Len(Append(s, e)) /\ \A i \in 1 .. Len(s) : s[i] = Append(s, e)[i]
    BY <2>1, <2>2
  <2> HIDE DEF History
  <2>4. QED
    BY <2>1, <2>3, PrefixFacts, Zenon
<1>5. ASSUME NEW s \in History, NEW t \in History, NEW u \in History,
             IsPrefix(s, t), IsPrefix(t, u)
      PROVE  IsPrefix(s, u)
  <2>1. Len(s) <= Len(t) /\ \A i \in 1 .. Len(s) : s[i] = t[i]
    BY <1>5, PrefixFacts
  <2>2. Len(t) <= Len(u) /\ \A i \in 1 .. Len(t) : t[i] = u[i]
    BY <1>5, PrefixFacts
  <2>3. Len(s) <= Len(u) /\ \A i \in 1 .. Len(s) : s[i] = u[i]
    BY <1>2, <2>1, <2>2
  <2>4. QED
    BY <2>3, PrefixFacts
<1>6. QED
  BY <1>3, <1>4, <1>5

(* The file after the first n entries of a history were written. *)
Lines(h, n) == [i \in 1 .. n |-> Entry(h, i)]

(* The lines of a part of a history, as a sequence.                        *)
LEMMA LinesFacts ==
  ASSUME NEW h \in History, NEW n \in 0 .. Len(h)
  PROVE  /\ Lines(h, n) \in Seq(Line) /\ Len(Lines(h, n)) = n
         /\ DOMAIN Lines(h, n) = 1 .. n
         /\ \A i \in 1 .. n : Lines(h, n)[i] = Entry(h, i) /\ i \in DOMAIN h
<1>1. Len(h) \in Nat /\ DOMAIN h = 1 .. Len(h)
  BY LenProperties DEF History
<1>2. n \in Nat /\ \A i \in 1 .. n : i \in DOMAIN h /\ Entry(h, i) \in Line
  BY <1>1, EntryFacts
<1>3. Lines(h, n) \in [1 .. n -> Line]
  BY <1>2 DEF Lines
<1>4. Lines(h, n) \in Seq(Line)
  BY <1>2, <1>3, SeqDef
<1>5. Len(Lines(h, n)) = n
  BY <1>2, <1>3, <1>4, LenProperties
<1>6. QED
  BY <1>2, <1>4, <1>5 DEF Lines

(* What a save that reached its end wrote loads, and loads as it was. *)
LEMMA SavedLoads ==
  ASSUME NEW h \in History
  PROVE  Bootstrap(Lines(h, Len(h))) = h
<1> DEFINE lines == Lines(h, Len(h))
<1>1. Len(h) \in Nat /\ DOMAIN h = 1 .. Len(h) /\ \A i \in 1 .. Len(h) : h[i] \in Event
  BY LenProperties, ElementOfSeq DEF History
<1>2. DOMAIN lines = 1 .. Len(h) /\ \A i \in 1 .. Len(h) : lines[i] = Entry(h, i)
  BY <1>1, LinesFacts
<1> HIDE DEF lines
<1>3. \A i \in 1 .. Len(h) : lines[i] # Torn /\ lines[i].event = h[i]
                             /\ lines[i].checksum = SubSeq(h, 1, i)
  <2> TAKE i \in 1 .. Len(h)
  <2>1. /\ h[i] \in Event /\ SubSeq(h, 1, i) \in Seq(Event)
        /\ Entry(h, i).event = h[i] /\ Entry(h, i).checksum = SubSeq(h, 1, i)
    BY <1>1, EntryFacts DEF History
  <2>2. Entry(h, i) \in [event : Event, checksum : Seq(Event)]
    BY <2>1 DEF Entry
  <2>3. QED
    BY <1>2, <2>1, <2>2, TornIsNoEntry
<1>4. ASSUME NEW i \in 1 .. Len(h)
      PROVE  lines[i].checksum =
               Append(IF i = 1 THEN <<>> ELSE lines[i - 1].checksum, lines[i].event)
  <2>1. \A j \in 1 .. i : h[j] \in Event
    BY <1>1
  <2>2. SubSeq(h, 1, i) = SubSeq(h, 1, i - 1) \o <<h[i]>>
    BY <1>1, SubSeqRecursiveSecond DEF History
  <2>3. SubSeq(h, 1, i - 1) \in Seq(Event)
    BY <1>1, <2>1, SubSeqProperties
  <2>4. SubSeq(h, 1, i) = Append(SubSeq(h, 1, i - 1), h[i])
    BY <1>1, <2>2, <2>3, AppendIsConcat
  <2>5. i = 1 => SubSeq(h, 1, i - 1) = <<>>
    BY SubSeqEmpty
  <2>6. i # 1 => i - 1 \in 1 .. Len(h)
    BY <1>1
  <2>7. QED
    BY <1>3, <2>4, <2>5, <2>6
<1>5. Loads(lines)
  BY <1>2, <1>3, <1>4 DEF Loads, VerifyChain
<1>6. Events(lines) = h
  <2>1. Events(lines) = [i \in 1 .. Len(h) |-> h[i]]
    BY <1>2, <1>3 DEF Events
  <2>2. h = [i \in 1 .. Len(h) |-> h[i]]
    BY <1>1, IsASeq DEF History
  <2>3. QED
    BY <2>1, <2>2
<1>7. QED
  BY <1>5, <1>6 DEF Bootstrap, lines

-----------------------------------------------------------------------------
(* One invocation at a time, and none cut short. *)
Alone == (\A p, q \in Process : p = q) /\ MaxInterrupts = 0

(* No save is running. *)
Quiescent == \A p \in Process : pc[p] # "saving"

(* The file is what the running save has written of its log, or a whole    *)
(* history, and every saved history is in front of it.                     *)
SoloInv ==
  /\ LedgerInv
  /\ interrupts = 0
  /\ \A p \in Process : pc[p] = "saving" =>
       /\ file = Lines(log[p], written[p])
       /\ \A g \in saved : IsPrefix(g, log[p])
  /\ Quiescent =>
       \E h \in History : /\ file = Lines(h, Len(h))
                          /\ \A g \in saved : IsPrefix(g, h)
                          /\ \A p \in Process : pc[p] = "up" => IsPrefix(h, log[p])

(* Before the first entry is written the file is empty.                    *)
LEMMA EmptyLines == \A h \in History : Lines(h, 0) = <<>>
<1> TAKE h \in History
<1>1. Len(h) \in Nat
  BY LenProperties DEF History
<1>2. 0 \in 0 .. Len(h)
  BY <1>1
<1>3. Lines(h, 0) \in Seq(Line) /\ Len(Lines(h, 0)) = 0
  BY <1>2, LinesFacts
<1>4. QED
  BY <1>3, EmptySeq

(* The first invocation finds an empty file and no saved history.          *)
LEMMA SoloInit == Alone /\ Init => SoloInv
<1> SUFFICES ASSUME Alone, Init PROVE SoloInv
  OBVIOUS
<1>1. <<>> \in History /\ Len(<<>>) = 0
  BY EmptySeq DEF History
<1>2. Lines(<<>>, Len(<<>>)) = <<>>
  BY <1>1, EmptyLines
<1>3. \A p \in Process : pc[p] = "down"
  BY DEF Init
<1>4. QED
  BY <1>1, <1>2, <1>3, InitInv DEF Init, SoloInv

(* One more line is written behind the others.                             *)
LEMMA NextLine ==
  ASSUME NEW h \in History, NEW n \in 0 .. Len(h), n < Len(h)
  PROVE  WriteAt(Lines(h, n), n + 1, Entry(h, n + 1)) = Lines(h, n + 1)
<1> DEFINE lines == Lines(h, n)
<1>1. Len(h) \in Nat
  BY LenProperties DEF History
<1>2. /\ n \in Nat /\ Len(lines) = n /\ DOMAIN lines = 1 .. n
      /\ \A i \in 1 .. n : lines[i] = Entry(h, i)
  BY <1>1, LinesFacts
<1> HIDE DEF lines
<1>3. WriteAt(lines, n + 1, Entry(h, n + 1)) =
        [j \in 1 .. n + 1 |-> CASE j = n + 1 -> Entry(h, n + 1)
                                [] j # n + 1 /\ j \in DOMAIN lines -> lines[j]
                                [] OTHER -> Torn]
  BY <1>2 DEF WriteAt
<1>4. \A j \in 1 .. n + 1 : j # n + 1 => j \in 1 .. n
  BY <1>2
<1>5. QED
  BY <1>2, <1>3, <1>4 DEF Lines, lines

(* With one invocation at a time every step leaves the file a written part *)
(* of one history, with every saved history in front.                      *)
LEMMA SoloNext == Alone /\ SoloInv /\ [Next]_vars => SoloInv'
<1> SUFFICES ASSUME Alone, SoloInv, [Next]_vars PROVE SoloInv'
  OBVIOUS
<1>1. LedgerInv /\ LedgerInv'
  BY NextInv DEF SoloInv
<1>2. /\ pc \in [Process -> {"down", "up", "saving"}]
      /\ log \in [Process -> History] /\ log' \in [Process -> History]
      /\ written \in [Process -> Nat]
      /\ saved \subseteq History /\ saved' \subseteq History
  BY <1>1 DEF LedgerInv, TypeOK
<1>3. CASE UNCHANGED vars
  <2>1. Quiescent' <=> Quiescent
    BY <1>3 DEF vars, Quiescent
  <2>2. \A h, n : Lines(h, n)' = Lines(h, n)
    BY DEF Lines, Entry
  <2>3. QED
    BY <1>1, <1>3, <2>1 DEF vars, SoloInv, Lines, Entry
<1>4. ASSUME NEW p \in Process, pc[p] # "saving", pc'[p] # "saving",
             NEW h \in History, file = Lines(h, Len(h)),
             \A g \in saved : IsPrefix(g, h),
             pc'[p] = "up" => IsPrefix(h, log'[p]),
             UNCHANGED <<file, saved, interrupts>>
      PROVE  SoloInv'
  <2>1. \A q \in Process : q = p
    BY DEF Alone
  <2>2. /\ interrupts' = 0
        /\ \A q \in Process : pc'[q] # "saving"
        /\ file' = Lines(h, Len(h)) /\ \A g \in saved' : IsPrefix(g, h)
        /\ \A q \in Process : pc'[q] = "up" => IsPrefix(h, log'[q])
    BY <1>4, <2>1 DEF SoloInv
  <2>3. QED
    BY <1>1, <2>2 DEF SoloInv
<1>5. ASSUME NEW p \in Process, pc[p] # "saving"
      PROVE  \E h \in History : /\ file = Lines(h, Len(h))
                                /\ \A g \in saved : IsPrefix(g, h)
                                /\ pc[p] = "up" => IsPrefix(h, log[p])
  <2>1. Quiescent
    BY <1>5 DEF Alone, Quiescent
  <2>2. QED
    BY <2>1 DEF SoloInv
<1>6. ASSUME NEW p \in Process, Boot(p) PROVE SoloInv'
  <2>1. /\ pc[p] = "down" /\ pc'[p] = "up" /\ log'[p] = Bootstrap(file)
        /\ UNCHANGED <<file, saved, interrupts>>
    BY <1>2, <1>6 DEF Boot
  <2>2. PICK h \in History : file = Lines(h, Len(h)) /\ \A g \in saved : IsPrefix(g, h)
    BY <1>5, <2>1
  <2>3. IsPrefix(h, log'[p])
    BY <2>1, <2>2, SavedLoads, PrefixOrder
  <2>4. QED
    BY <1>4, <2>1, <2>2, <2>3
<1>7. ASSUME NEW p \in Process, NEW e \in Event, Record(p, e) PROVE SoloInv'
  <2>1. /\ pc[p] = "up" /\ pc'[p] = "up" /\ log'[p] = Append(log[p], e)
        /\ UNCHANGED <<file, saved, interrupts>>
    BY <1>2, <1>7 DEF Record
  <2>2. PICK h \in History : /\ file = Lines(h, Len(h)) /\ \A g \in saved : IsPrefix(g, h)
                             /\ IsPrefix(h, log[p])
    BY <1>5, <2>1
  <2>3. log[p] \in History /\ log'[p] \in History /\ IsPrefix(log[p], log'[p])
    BY <1>2, <2>1, PrefixOrder
  <2>4. IsPrefix(h, log'[p])
    BY <2>2, <2>3, PrefixOrder
  <2>5. QED
    BY <1>4, <2>1, <2>2, <2>4
<1>8. ASSUME NEW p \in Process, Leave(p) PROVE SoloInv'
  <2>1. /\ pc[p] = "up" /\ pc'[p] = "down"
        /\ UNCHANGED <<file, saved, interrupts>>
    BY <1>2, <1>8 DEF Leave
  <2>2. PICK h \in History : file = Lines(h, Len(h)) /\ \A g \in saved : IsPrefix(g, h)
    BY <1>5, <2>1
  <2>3. QED
    BY <1>4, <2>1, <2>2
<1>9. ASSUME NEW p \in Process, pc'[p] = "saving", log' = log, interrupts' = interrupts,
             file' = Lines(log[p], written'[p]),
             saved' = saved, \A g \in saved : IsPrefix(g, log[p])
      PROVE  SoloInv'
  <2>1. \A q \in Process : q = p
    BY DEF Alone
  <2>2. ~Quiescent'
    BY <1>9 DEF Quiescent
  <2>3. interrupts' = 0
    BY <1>9 DEF SoloInv
  <2>4. \A q \in Process : pc'[q] = "saving" =>
          /\ file' = Lines(log'[q], written'[q])
          /\ \A g \in saved' : IsPrefix(g, log'[q])
    BY <1>9, <2>1
  <2>5. QED
    BY <1>1, <2>2, <2>3, <2>4 DEF SoloInv, Lines, Entry
<1>10. ASSUME NEW p \in Process, StartSave(p) PROVE SoloInv'
  <2>1. /\ pc[p] = "up" /\ pc'[p] = "saving" /\ log' = log /\ written'[p] = 0
        /\ file' = <<>> /\ saved' = saved /\ interrupts' = interrupts
    BY <1>2, <1>10 DEF StartSave
  <2>2. PICK h \in History : \A g \in saved : IsPrefix(g, h) /\ IsPrefix(h, log[p])
    BY <1>5, <2>1
  <2>3. log[p] \in History
    BY <1>2
  <2>4. \A g \in saved : IsPrefix(g, log[p])
    BY <1>2, <2>2, <2>3, PrefixOrder
  <2>5. file' = Lines(log[p], written'[p])
    BY <2>1, <2>3, EmptyLines
  <2>6. QED
    BY <1>9, <2>1, <2>4, <2>5
<1>11. ASSUME NEW p \in Process, WriteLine(p) PROVE SoloInv'
  <2>1. /\ pc[p] = "saving" /\ pc' = pc /\ log' = log /\ written'[p] = written[p] + 1
        /\ saved' = saved /\ interrupts' = interrupts /\ written[p] < Len(log[p])
        /\ file' = WriteAt(file, written[p] + 1, Entry(log[p], written[p] + 1))
    BY <1>2, <1>11 DEF WriteLine
  <2>2. log[p] \in History /\ written[p] \in 0 .. Len(log[p])
    <3>1. log[p] \in History /\ written[p] \in Nat
      BY <1>2
    <3>2. Len(log[p]) \in Nat
      BY <3>1, LenProperties DEF History
    <3>3. QED
      BY <2>1, <3>1, <3>2
  <2>3. file = Lines(log[p], written[p]) /\ \A g \in saved : IsPrefix(g, log[p])
    BY <2>1 DEF SoloInv
  <2>4. file' = Lines(log[p], written'[p])
    BY <2>1, <2>2, <2>3, NextLine
  <2>5. QED
    BY <1>9, <2>1, <2>3, <2>4
<1>12. ASSUME NEW p \in Process, EndSave(p) PROVE SoloInv'
  <2>1. /\ pc[p] = "saving" /\ pc'[p] = "down" /\ log' = log /\ file' = file
        /\ saved' = saved \union {log[p]} /\ interrupts' = interrupts
        /\ written[p] = Len(log[p])
    BY <1>2, <1>12 DEF EndSave
  <2>2. file' = Lines(log[p], Len(log[p])) /\ log[p] \in History
    BY <1>2, <2>1 DEF SoloInv
  <2>3. \A g \in saved' : IsPrefix(g, log[p])
    BY <2>1, <2>2, PrefixOrder DEF SoloInv
  <2>4. \A q \in Process : pc'[q] = "down"
    BY <2>1 DEF Alone
  <2>5. interrupts' = 0
    BY <2>1 DEF SoloInv
  <2>6. QED
    BY <1>1, <2>2, <2>3, <2>4, <2>5 DEF SoloInv
<1>13. ASSUME NEW p \in Process, Interrupt(p) PROVE SoloInv'
  BY <1>13 DEF Interrupt, Alone, SoloInv
<1>14. QED
  BY <1>3, <1>6, <1>7, <1>8, <1>10, <1>11, <1>12, <1>13 DEF Next

(* The invariant of an invocation that has the file to itself.             *)
THEOREM SoloInvariance == Alone => (Spec => []SoloInv)
<1> SUFFICES ASSUME Alone PROVE Spec => []SoloInv
  OBVIOUS
<1>1. Init => SoloInv
  BY SoloInit
<1>2. SoloInv /\ [Next]_vars => SoloInv'
  BY SoloNext
<1>3. QED
  BY <1>1, <1>2, PTL DEF Spec

(***************************************************************************)
(* README.md:208, "history cannot be rewritten", holds for one invocation  *)
(* at a time that is never cut short: every history that a save has        *)
(* returned for is in front of what a later reader loads, for any number   *)
(* of invocations after it.                                                *)
(***************************************************************************)
THEOREM SavesAreKept == Alone => (Spec => []SavedHistorySurvives)
<1> SUFFICES ASSUME Alone PROVE Spec => []SavedHistorySurvives
  OBVIOUS
<1>1. ASSUME SoloInv PROVE SavedHistorySurvives
  <2>1. SUFFICES ASSUME Quiescent PROVE \A g \in saved : IsPrefix(g, Bootstrap(file))
    BY DEF SavedHistorySurvives, Quiescent
  <2>2. PICK h \in History : file = Lines(h, Len(h)) /\ \A g \in saved : IsPrefix(g, h)
    BY <1>1, <2>1 DEF SoloInv
  <2>3. QED
    BY <2>2, SavedLoads
<1>2. QED
  BY <1>1, SoloInvariance, PTL

(* The history a reader may rely on: what is being saved, otherwise what   *)
(* loads; and the log of a running invocation has it behind it.            *)
DurableInv ==
  /\ Durable \in History
  /\ \A p \in Process : pc[p] = "saving" => Durable = log[p]
  /\ Quiescent => /\ Durable = Bootstrap(file)
                  /\ \A p \in Process : pc[p] = "up" => IsPrefix(Durable, log[p])

(* While a save runs the history is in its log, otherwise in the file.     *)
LEMMA DurableFacts == Alone /\ SoloInv => DurableInv
<1> SUFFICES ASSUME Alone, SoloInv PROVE DurableInv
  OBVIOUS
<1>1. ASSUME NEW p \in Process, pc[p] = "saving"
      PROVE  Durable = log[p] /\ log[p] \in History
  <2> DEFINE Saver == CHOOSE q \in Process : pc[q] = "saving"
  <2>1. Saver \in Process
    BY <1>1
  <2>2. Saver = p
    BY <2>1 DEF Alone
  <2>3. QED
    BY <1>1, <2>2 DEF Durable, SoloInv, LedgerInv, TypeOK
<1>2. ASSUME Quiescent
      PROVE  /\ Durable = Bootstrap(file) /\ Durable \in History
             /\ \A p \in Process : pc[p] = "up" => IsPrefix(Durable, log[p])
  <2>1. Durable = Bootstrap(file)
    BY <1>2 DEF Quiescent, Durable
  <2>2. PICK h \in History : /\ file = Lines(h, Len(h))
                             /\ \A p \in Process : pc[p] = "up" => IsPrefix(h, log[p])
    BY <1>2 DEF SoloInv
  <2>3. Bootstrap(file) = h
    BY <2>2, SavedLoads
  <2>4. QED
    BY <2>1, <2>2, <2>3
<1>3. QED
  BY <1>1, <1>2 DEF Quiescent, DurableInv

(* Whatever the one invocation does, the history only grows at its end.    *)
LEMMA DurableGrows ==
  ASSUME Alone, SoloInv, DurableInv, DurableInv', [Next]_vars
  PROVE  IsPrefix(Durable, Durable')
<1>1. \A p, q \in Process : p = q
  BY DEF Alone
<1>2. ASSUME Quiescent, Quiescent', file' = file PROVE Durable' = Durable
  <2>1. Bootstrap(file)' = Bootstrap(file')
    BY DEF Bootstrap, Loads, VerifyChain, Events
  <2>2. QED
    BY <1>2, <2>1 DEF DurableInv
<1>3. ASSUME NEW p \in Process, pc[p] = "saving", pc'[p] = "saving", log' = log
      PROVE  Durable' = Durable
  BY <1>3 DEF DurableInv
<1>4. /\ pc \in [Process -> {"down", "up", "saving"}] /\ log \in [Process -> History]
  BY DEF SoloInv, LedgerInv, TypeOK
<1>5. CASE UNCHANGED vars
  <2>1. UNCHANGED <<pc, file, log>> /\ (Quiescent' <=> Quiescent)
    BY <1>5 DEF vars, Quiescent
  <2>2. Durable' = Durable
    BY <1>2, <1>3, <2>1 DEF Quiescent
  <2>3. QED
    BY <2>2, PrefixOrder DEF DurableInv
<1>6. ASSUME NEW p \in Process, Boot(p) \/ (\E e \in Event : Record(p, e)) \/ Leave(p)
      PROVE  IsPrefix(Durable, Durable')
  <2>1. pc[p] # "saving" /\ pc'[p] # "saving" /\ file' = file
    BY <1>4, <1>6 DEF Boot, Record, Leave
  <2>2. Quiescent /\ Quiescent'
    BY <1>1, <2>1 DEF Quiescent
  <2>3. Durable' = Durable
    BY <1>2, <2>1, <2>2
  <2>4. QED
    BY <2>3, PrefixOrder DEF DurableInv
<1>7. ASSUME NEW p \in Process, StartSave(p) PROVE IsPrefix(Durable, Durable')
  <2>1. pc[p] = "up" /\ pc'[p] = "saving" /\ log' = log
    BY <1>4, <1>7 DEF StartSave
  <2>2. Quiescent
    BY <1>1, <2>1 DEF Quiescent
  <2>3. IsPrefix(Durable, log[p]) /\ Durable' = log[p]
    BY <2>1, <2>2 DEF DurableInv
  <2>4. QED
    BY <2>3
<1>8. ASSUME NEW p \in Process, WriteLine(p) PROVE IsPrefix(Durable, Durable')
  <2>1. Durable' = Durable
    BY <1>3, <1>8 DEF WriteLine
  <2>2. QED
    BY <2>1, PrefixOrder DEF DurableInv
<1>9. ASSUME NEW p \in Process, EndSave(p) PROVE IsPrefix(Durable, Durable')
  <2>1. /\ pc[p] = "saving" /\ pc'[p] = "down" /\ file' = file
        /\ written[p] = Len(log[p])
    BY <1>4, <1>9 DEF EndSave
  <2>2. Durable = log[p] /\ log[p] \in History /\ file = Lines(log[p], Len(log[p]))
    BY <1>4, <2>1 DEF DurableInv, SoloInv
  <2>3. Bootstrap(file)' = log[p]
    <3>1. Bootstrap(file)' = Bootstrap(file')
      BY DEF Bootstrap, Loads, VerifyChain, Events
    <3>2. QED
      BY <2>1, <2>2, <3>1, SavedLoads
  <2>4. Quiescent'
    BY <1>1, <2>1 DEF Quiescent
  <2>5. Durable' = Durable
    BY <2>2, <2>3, <2>4 DEF DurableInv
  <2>6. QED
    BY <2>5, PrefixOrder DEF DurableInv
<1>10. ASSUME NEW p \in Process, Interrupt(p) PROVE FALSE
  BY <1>10 DEF Interrupt, Alone, SoloInv
<1>11. QED
  BY <1>5, <1>6, <1>7, <1>8, <1>9, <1>10 DEF Next

(***************************************************************************)
(* The ledger file implements the append-only log that the ledger promises *)
(* (AppendOnlyLog), step by step, when one invocation runs at a time and   *)
(* none is cut short: every step of save and load extends the history or   *)
(* leaves it alone.                                                        *)
(***************************************************************************)
THEOREM LedgerIsAppendOnly == Alone => (Spec => ImplementsAppendOnlyLog)
<1> SUFFICES ASSUME Alone PROVE Spec => Log!Spec
  BY DEF ImplementsAppendOnlyLog
<1>1. Init => Log!Init
  <2> SUFFICES ASSUME Init PROVE Durable = <<>>
    BY DEF Log!Init
  <2>1. \A p \in Process : pc[p] # "saving"
    BY DEF Init
  <2>2. Bootstrap(<<>>) = <<>>
    <3>1. <<>> \in History /\ Len(<<>>) = 0
      BY EmptySeq DEF History
    <3>2. QED
      BY <3>1, EmptyLines, SavedLoads
  <2>3. QED
    BY <2>1, <2>2 DEF Init, Durable
<1>2. SoloInv => DurableInv
  BY DurableFacts
<1>3. SoloInv /\ DurableInv /\ DurableInv' /\ [Next]_vars => [Log!Extend]_Durable
  <2> SUFFICES ASSUME SoloInv, DurableInv, DurableInv', [Next]_vars
               PROVE  Log!Extend
    OBVIOUS
  <2>1. IsPrefix(Durable, Durable')
    BY DurableGrows
  <2>2. QED
    BY <2>1 DEF Log!Extend, Log!IsPrefix, IsPrefix
<1>4. QED
  BY <1>1, <1>2, <1>3, SoloInvariance, PTL DEF Spec, Log!Spec
=============================================================================
