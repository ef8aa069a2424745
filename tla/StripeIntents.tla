--------------------------- MODULE StripeIntents ---------------------------
(***************************************************************************)
(* The operations on Stripe's payment intents that the services offer, and *)
(* the states an intent goes through (Stripe itself is external).          *)
(***************************************************************************)
EXTENDS Naturals

Creations == {"create", "hold"}
Captures == {"capture", "release"}
Refunds == {"refund", "escrowRefund"}
Ops == Creations \cup Captures \cup Refunds

IntentStates(amount) ==
    [state : {"none", "held", "captured", "returned"}, refunded : 0 .. amount]

\* Operation o may take an intent worth "amount" from i to j.  A hold that is
\* created a second time leaves the intent held: the first one is an orphan.
Forward(amount, o, i, j) ==
    \/ o = "create" /\ i.state = "none" /\ j = [state |-> "captured", refunded |-> 0]
    \/ o = "hold" /\ i.state \in {"none", "held"} /\ j = [state |-> "held", refunded |-> 0]
    \/ o \in Captures /\ i.state = "held" /\ j = [state |-> "captured", refunded |-> 0]
    \/ o \in Refunds /\ i.state = "held" /\ j = [state |-> "returned", refunded |-> amount]
    \/ /\ o = "refund" /\ i.state = "captured" /\ i.refunded < j.refunded
       /\ j.state = IF j.refunded = amount THEN "returned" ELSE "captured"
    \/ o = "escrowRefund" /\ i.state = "captured" /\ j = [state |-> "returned", refunded |-> amount]

=============================================================================
