----------------------------- MODULE MCAccounts -----------------------------
(* Addresses and handlers are interchangeable. *)
EXTENDS Accounts, TLC

Symmetry == Permutations(Emails) \cup Permutations(Handlers)
=============================================================================
