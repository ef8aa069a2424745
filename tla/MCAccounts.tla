----------------------------- MODULE MCAccounts -----------------------------
(* Instances of Accounts for TLC: two workers and one user. *)
EXTENDS Accounts, TLC

CONSTANTS p1, p2, ann

Alike == Permutations(Procs)

=============================================================================
