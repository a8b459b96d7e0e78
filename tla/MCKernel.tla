------------------------------ MODULE MCKernel ------------------------------
(* The kernel on a small set of interchangeable models. *)
EXTENDS Kernel, TLC

Symmetry == Permutations(ModelId)
=============================================================================
