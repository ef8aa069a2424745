---------------------------- MODULE MCBuyShield ----------------------------
(* Instances of BuyShield for TLC: which fields of a protection are passed. *)
EXTENDS BuyShield

CONSTANTS c1, c2, c3, i1

Everything == Fields
Nothing == {}

=============================================================================
