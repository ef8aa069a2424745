----------------------------- MODULE MCPayments -----------------------------
(* Instances of Payments for TLC: the callers ask for everything. *)
EXTENDS PaymentsInv

CONSTANTS r1, i1

AllOps == Ops

=============================================================================
