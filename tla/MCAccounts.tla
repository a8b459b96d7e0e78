------------------------------ MODULE MCAccounts ------------------------------
(* Ids of users, ids of keys and handlers are interchangeable. *)
EXTENDS Accounts, TLC

Symmetry == Permutations(UserId) \union Permutations(KeyId) \union Permutations(Handler)
=============================================================================
