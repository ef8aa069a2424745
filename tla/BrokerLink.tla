---------------------------- MODULE BrokerLink ----------------------------
(***************************************************************************)
(* What Broker takes a worker's connection to do: it comes up once, may be *)
(* lost, and comes up again only after the process has ended.              *)
(***************************************************************************)

VARIABLE link

Init == link = "down"

Connect == link = "down" /\ link' = "up"
Lose == link = "up" /\ link' = "lost"
End == link # "down" /\ link' = "down"

Next == Connect \/ Lose \/ End

Spec == Init /\ [][Next]_link

=============================================================================
