----------------------------- MODULE MCAccounts -----------------------------
(* One name, whose account may be deleted and registered again. *)
EXTENDS Accounts, TLC

OneAddress == [n \in Name |-> "address"]

Symmetry == Permutations(Request)
=============================================================================
