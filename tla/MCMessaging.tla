---------------------------- MODULE MCMessaging ----------------------------
(* Instances of Messaging for TLC: one user with two sockets, one with one. *)
EXTENDS Messaging, TLC

CONSTANTS ann, bob, a1, a2, b1, m1, m2

Handshakes == (a1 :> ann) @@ (a2 :> ann) @@ (b1 :> bob)

ToAnn == {<<bob, ann>>}

=============================================================================
