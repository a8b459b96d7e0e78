------------------------------ MODULE MCLedger ------------------------------
(* The ledger with few invocations and short histories. *)
EXTENDS Ledger, TLC

Symmetry == Permutations(Event) \union Permutations(Process)
=============================================================================
