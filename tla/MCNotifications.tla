-------------------------- MODULE MCNotifications --------------------------
(* Instances of Notifications for TLC. *)
EXTENDS Notifications

CONSTANTS n1, n2, w1, w2, a, b

AllMessages == Notifs \X Copies

=============================================================================
