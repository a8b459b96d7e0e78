------------------------------- MODULE Ledger -------------------------------
(***************************************************************************)
(* The ledger file and the processes that use it.  Every `omrp`            *)
(* invocation loads the whole file, replays it, appends events in memory   *)
(* and, on its way out, rewrites the file from scratch: persist() in       *)
(* omrp-core/src/ledger.rs truncates it and then writes one line per       *)
(* entry.  Nothing locks the file, a process may die between any two       *)
(* lines, and a write may fail (disk full), which persist() reports and    *)
(* save_ledger() only prints.                                              *)
(*                                                                         *)
(* A line is a whole entry or Torn: part of one, or a hole in the file.    *)
(* The SHA-256 chain is taken to be collision free, so a checksum stands   *)
(* for the sequence of events it covers (its length is the entry's seq).   *)
(* Lines have one width: a process that still writes after another has     *)
(* truncated the file goes on at its own offset, line by line.             *)
(***************************************************************************)
EXTENDS Naturals, Sequences, SequencesExt

CONSTANTS
  Event,            \* the events a process may record
  Process,          \* the invocations that may overlap
  Torn,             \* a line that is not a whole entry
  MaxLen,           \* bound: events in a history
  MaxInterrupts     \* bound: interrupted saves and killed processes

ASSUME LedgerBounds == MaxLen \in Nat /\ MaxInterrupts \in Nat

ASSUME TornIsNoEntry == Torn \notin [event : Event, checksum : Seq(Event)]

VARIABLES
  file,        \* the lines on disk
  pc,          \* per process: "down", "up" or "saving"
  log,         \* per process: EventPipeline::event_log
  written,     \* per process: lines written by its running persist()
  interrupts,  \* how many interruptions there were
  started,     \* histories some persist() began to write
  saved        \* histories some persist() wrote to the end

vars == <<file, pc, log, written, interrupts, started, saved>>

-----------------------------------------------------------------------------
(* LedgerEntry and LedgerStore. *)

Entry(history, i) == [event |-> history[i], checksum |-> SubSeq(history, 1, i)]

(* A slip to be caught: an entry is verified without the one before it. *)
VerifyEach(entries) ==
  \A i \in DOMAIN entries :
    Len(entries[i].checksum) = i /\ entries[i].checksum[i] = entries[i].event

(* LedgerEntry::verify_chain: each checksum extends the one before it. *)
VerifyChain(entries) ==
  \A i \in DOMAIN entries :
    LET previous == IF i = 1 THEN <<>> ELSE entries[i - 1].checksum
    IN  entries[i].checksum = Append(previous, entries[i].event)

(* LedgerStore::load succeeds: every line parses and the chain verifies. *)
Loads(lines) ==
  /\ \A i \in DOMAIN lines : lines[i] # Torn
  /\ VerifyChain(lines)

Events(lines) == [i \in DOMAIN lines |-> lines[i].event]

(* load_from_ledger(..).unwrap_or_else(|_| EventPipeline::new()) *)
Bootstrap(lines) == IF Loads(lines) THEN Events(lines) ELSE <<>>

(* A write at line i of the file; the gap it may leave is a hole. *)
WriteAt(lines, i, line) ==
  [j \in 1 .. (IF i > Len(lines) THEN i ELSE Len(lines)) |->
     CASE j = i          -> line
       [] j # i /\ j \in DOMAIN lines -> lines[j]
       [] OTHER          -> Torn]

-----------------------------------------------------------------------------
Init ==
  /\ file = <<>>
  /\ pc = [p \in Process |-> "down"]
  /\ log = [p \in Process |-> <<>>]
  /\ written = [p \in Process |-> 0]
  /\ interrupts = 0
  /\ started = {}
  /\ saved = {}

(* A slip to be caught: an invocation that replays nothing. *)
BootEmpty(p) ==
  /\ pc[p] = "down"
  /\ pc' = [pc EXCEPT ![p] = "up"]
  /\ log' = [log EXCEPT ![p] = <<>>]
  /\ UNCHANGED <<file, written, interrupts, started, saved>>

(* bootstrap_pipeline: a new invocation replays what it finds. *)
Boot(p) ==
  /\ pc[p] = "down"
  /\ pc' = [pc EXCEPT ![p] = "up"]
  /\ log' = [log EXCEPT ![p] = Bootstrap(file)]
  /\ UNCHANGED <<file, written, interrupts, started, saved>>

(* EventPipeline::process pushes to the in-memory log only. *)
Record(p, e) ==
  /\ pc[p] = "up"
  /\ Len(log[p]) < MaxLen
  /\ log' = [log EXCEPT ![p] = Append(@, e)]
  /\ UNCHANGED <<file, pc, written, interrupts, started, saved>>

(* A slip to be caught: a save that goes on where the last one stopped. *)
StartSaveResuming(p) ==
  /\ pc[p] = "up"
  /\ pc' = [pc EXCEPT ![p] = "saving"]
  /\ file' = <<>>
  /\ started' = started \union {log[p]}
  /\ UNCHANGED <<log, written, interrupts, saved>>

(* persist(): File::create truncates the file. *)
StartSave(p) ==
  /\ pc[p] = "up"
  /\ pc' = [pc EXCEPT ![p] = "saving"]
  /\ file' = <<>>
  /\ written' = [written EXCEPT ![p] = 0]
  /\ started' = started \union {log[p]}
  /\ UNCHANGED <<log, interrupts, saved>>

(* persist(): writeln! of the next entry. *)
WriteLine(p) ==
  /\ pc[p] = "saving"
  /\ written[p] < Len(log[p])
  /\ written' = [written EXCEPT ![p] = @ + 1]
  /\ file' = WriteAt(file, written'[p], Entry(log[p], written'[p]))
  /\ UNCHANGED <<pc, log, interrupts, started, saved>>

(* A slip to be caught: the last line is never flushed. *)
EndSaveUnflushed(p) ==
  /\ pc[p] = "saving"
  /\ written[p] + 1 >= Len(log[p])
  /\ pc' = [pc EXCEPT ![p] = "down"]
  /\ saved' = saved \union {log[p]}
  /\ UNCHANGED <<file, log, written, interrupts, started>>

(* persist() returns Ok and the invocation ends. *)
EndSave(p) ==
  /\ pc[p] = "saving"
  /\ written[p] = Len(log[p])
  /\ pc' = [pc EXCEPT ![p] = "down"]
  /\ saved' = saved \union {log[p]}
  /\ UNCHANGED <<file, log, written, interrupts, started>>

(* An invocation that ends without saving (omrp models, status, best, and  *)
(* omrp route when no model can be selected).                              *)
Leave(p) ==
  /\ pc[p] = "up"
  /\ pc' = [pc EXCEPT ![p] = "down"]
  /\ UNCHANGED <<file, log, written, interrupts, started, saved>>

(* The process is killed, or a write fails: the line being written may be  *)
(* there in part.                                                          *)
Interrupt(p) ==
  /\ pc[p] = "saving"
  /\ interrupts < MaxInterrupts
  /\ interrupts' = interrupts + 1
  /\ pc' = [pc EXCEPT ![p] = "down"]
  /\ \/ UNCHANGED file
     \/ /\ written[p] < Len(log[p])
        /\ file' = WriteAt(file, written[p] + 1, Torn)
  /\ UNCHANGED <<log, written, started, saved>>

Next ==
  \E p \in Process :
    \/ Boot(p)
    \/ \E e \in Event : Record(p, e)
    \/ StartSave(p)
    \/ WriteLine(p)
    \/ EndSave(p)
    \/ Leave(p)
    \/ Interrupt(p)

Spec == Init /\ [][Next]_vars

-----------------------------------------------------------------------------
History == Seq(Event)

Line == [event : Event, checksum : History] \union {Torn}

(* Every part of the system has its type. *)
TypeOK ==
  /\ file \in Seq(Line)
  /\ pc \in [Process -> {"down", "up", "saving"}]
  /\ log \in [Process -> History]
  /\ written \in [Process -> Nat]
  /\ \A p \in Process : pc[p] = "saving" => written[p] <= Len(log[p])
  /\ interrupts \in Nat
  /\ started \subseteq History
  /\ saved \subseteq started

(* A line is torn, or it is the entry a process put at that place, and     *)
(* what a process is saving is a history it began to write.                *)
LinesAreEntries ==
  /\ \A i \in DOMAIN file :
       file[i] = Torn \/ \E h \in started : i \in DOMAIN h /\ file[i] = Entry(h, i)
  /\ \A p \in Process : pc[p] = "saving" => log[p] \in started

(***************************************************************************)
(* Whatever interruptions and overlapping saves leave on disk, a reader    *)
(* that loads it without an error gets a prefix of one history that some   *)
(* process really held: never a mixture of two.                            *)
(***************************************************************************)
NoHybridHistory ==
  Loads(file) =>
    \/ file = <<>>
    \/ \E h \in started : IsPrefix(Events(file), h)

(***************************************************************************)
(* README.md:208, "history cannot be rewritten": once a save has returned, *)
(* every later reader that does not catch a save in progress finds the     *)
(* saved history, possibly with more behind it.  Overlapping invocations   *)
(* and interruptions break it; one invocation at a time keeps it.          *)
(***************************************************************************)
SavedHistorySurvives ==
  (\A p \in Process : pc[p] # "saving") =>
    \A h \in saved : IsPrefix(h, Bootstrap(file))

(***************************************************************************)
(* With one invocation at a time and none interrupted, the file implements *)
(* an append-only log: while a save runs the history is what it is writing.*)
(***************************************************************************)
Durable ==
  IF \E p \in Process : pc[p] = "saving"
  THEN log[CHOOSE p \in Process : pc[p] = "saving"]
  ELSE Bootstrap(file)

Log == INSTANCE AppendOnlyLog WITH history <- Durable

ImplementsAppendOnlyLog == Log!Spec
=============================================================================
