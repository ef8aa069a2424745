------------------------------ MODULE Broker ------------------------------
(***************************************************************************)
(* A durable RabbitMQ queue (external) and the connections of the worker   *)
(* processes that consume it through RabbitMQService.  A worker publishes  *)
(* and acknowledges on different channels of one connection, so the broker *)
(* may read what it wrote in any order, and what was not read is lost with *)
(* the connection.                                                         *)
(*                                                                         *)
(* A process whose connection is lost does not get another one: the flag   *)
(* isInitialized stays true, so that initialize() returns at once and      *)
(* nothing subscribes again (RabbitConnection).  It consumes nothing until *)
(* it is restarted, and nothing restarts it while it is idle: only a       *)
(* worker with something in hand dies, of the acknowledgement.             *)
(***************************************************************************)
EXTENDS Naturals, FiniteSets

CONSTANTS Messages,   \* message ids
          Workers,    \* the worker processes
          Prefetch    \* queueConfig.options.channel.prefetch

VARIABLES
    place,   \* where each message is: nowhere yet, in the queue, with a worker, or gone
    wire,    \* the frames each worker wrote and the broker has not read
    link     \* each worker's connection

brokerVars == <<place, wire, link>>

Frames == [kind : {"ack", "requeue", "publish"}, msg : Messages]

BrokerTypeOK ==
    /\ place \in [Messages -> {"none", "ready", "gone"} \cup Workers]
    /\ wire \in [Workers -> SUBSET Frames]
    /\ link \in [Workers -> {"down", "up", "lost"}]

Unacked(w) == {m \in Messages : place[m] = w}

\* The messages that w wrote a publish frame for.
Publishing(w) == {m \in Messages : [kind |-> "publish", msg |-> m] \in wire[w]}

\* Some copy of m is in the queue, with a consumer, or on its way to the queue.
Alive(m) ==
    \/ place[m] \in {"ready"} \cup Workers
    \/ \E w \in Workers : m \in Publishing(w)

\* initialize() and consumeMessage().
Connect(w) ==
    /\ link[w] = "down"
    /\ link' = [link EXCEPT ![w] = "up"]
    /\ UNCHANGED <<place, wire>>

\* The broker hands m to w.
Deliver(w, m) ==
    /\ link[w] = "up"
    /\ place[m] = "ready"
    /\ Cardinality(Unacked(w)) < Prefetch
    /\ place' = [place EXCEPT ![m] = w]

\* w writes to its sockets.
Write(w, kind, m) == [wire EXCEPT ![w] = @ \cup {[kind |-> kind, msg |-> m]}]

\* The broker reads frame f of w.
Read(w, f) ==
    /\ f \in wire[w]
    /\ wire' = [wire EXCEPT ![w] = @ \ {f}]
    /\ place' = [place EXCEPT ![f.msg] = IF f.kind = "ack" THEN "gone" ELSE "ready"]
    /\ UNCHANGED link

\* The connection of w ends: the broker takes back what w has not acknowledged.
Disconnect(w, state) ==
    /\ link' = [link EXCEPT ![w] = state]
    /\ wire' = [wire EXCEPT ![w] = {}]
    /\ place' = [m \in Messages |-> IF place[m] = w THEN "ready" ELSE place[m]]

=============================================================================
