------------------------------ MODULE MCRoute ------------------------------
(* The command line with few models, and two definitions of its model that *)
(* stand for loops, compared with the loops.                               *)
EXTENDS Route

(* Total is the sum that the library folds. *)
ASSUME TotalIsSum ==
  \A M \in SUBSET ModelId : \A map \in [M -> 0 .. 3] : Total(map) = SumFunction(map)

(* Adding the models of M one after another. *)
AddedInTurn(s, M) == FoldSet(LAMBDA m, t : ModelAdded(t, m), s, M)

(* Bootstrapped is that loop, also for a state with a record. *)
ASSUME BootstrappedIsLoop ==
  \A old, configured \in SUBSET ModelId, failed \in ModelId :
    LET s == ModelFailed(AddedInTurn(NewState, old), failed)
    IN  Bootstrapped(s, configured) = AddedInTurn(s, configured \ s.models)
=============================================================================
