--------------------------- MODULE MCTransactions ---------------------------
(* Instances of Transactions for TLC: interchangeable requests, one old row. *)
EXTENDS Transactions, TLC

CONSTANTS r1, r2, r3, old

Alike == Permutations(Requests)

=============================================================================
