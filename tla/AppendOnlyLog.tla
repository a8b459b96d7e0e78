---------------------------- MODULE AppendOnlyLog ----------------------------
(***************************************************************************)
(* What the ledger promises its readers: one history of events that starts *)
(* empty and only ever grows at its end.                                   *)
(***************************************************************************)
EXTENDS Sequences, SequencesExt

VARIABLE history

Init == history = <<>>

Extend == IsPrefix(history, history')

Spec == Init /\ [][Extend]_history
=============================================================================
