--------------------------- MODULE Notifications ---------------------------
(***************************************************************************)
(* NotificationSenderWorker: takes notifications from their queue, hands   *)
(* them to FCM, SES or a socket, and publishes a new copy of what failed.  *)
(* publishMessage gives every copy a random id, and retryCount, which is   *)
(* in memory, counts by that id.                                           *)
(*                                                                         *)
(* The rate limiters and breakers of the channels are part of "the attempt *)
(* fails".                                                                 *)
(***************************************************************************)
EXTENDS Broker

CONSTANTS Notifs,      \* notifications
          Unsendable,  \* those that are not JSON or whose type is unknown
          Copies,      \* bound: copies of one notification that are alive at once
          First,       \* the copy that is posted
          MaxRetries,  \* maxRetries
          MaxSends,    \* bound: how often one notification is sent
          MaxBreaks    \* bound: lost connections and crashes

ASSUME NotificationsAssumption ==
    /\ Messages = Notifs \X Copies
    /\ Unsendable \subseteq Notifs
    /\ IsFiniteSet(Copies)
    /\ First \in Copies
    /\ Workers \cap {"none", "ready", "gone"} = {}
    /\ Prefetch \in Nat \ {0}
    /\ MaxRetries \in Nat \ {0}
    /\ MaxSends \in Nat
    /\ MaxBreaks \in Nat

VARIABLES
    stage,       \* per worker and message, where processNotification stands
    retryCount,  \* per worker, the map from message ids to failed attempts
    sent,        \* how often each notification reached its receiver
    troubles,    \* history: per notification, responses lost and copies redelivered
    cut,         \* history: notifications whose publish frame was lost
    breaks       \* lost connections and crashes

workerVars == <<stage, retryCount>>
historyVars == <<sent, troubles, cut, breaks>>
vars == <<brokerVars, workerVars, historyVars>>

Stages == {"idle", "sending", "sent"}

CopiesOf(n) == {n} \X Copies

Init ==
    /\ place = [m \in Messages |-> "none"]
    /\ wire = [w \in Workers |-> {}]
    /\ link = [w \in Workers |-> "down"]
    /\ stage = [w \in Workers |-> [m \in Messages |-> "idle"]]
    /\ retryCount = [w \in Workers |-> [m \in Messages |-> 0]]
    /\ sent = [n \in Notifs |-> 0]
    /\ troubles = [n \in Notifs |-> 0]
    /\ cut = {}
    /\ breaks = 0

-----------------------------------------------------------------------------
\* Somebody publishes a notification.
Post(n) ==
    /\ \A m \in CopiesOf(n) : place[m] = "none"
    /\ place' = [place EXCEPT ![<<n, First>>] = "ready"]
    /\ UNCHANGED <<wire, link, workerVars, historyVars>>

Start(w) ==
    /\ Connect(w)
    /\ UNCHANGED <<workerVars, historyVars>>

\* Operators named Bug... are the definition after them with a plausible bug.

\* processNotification up to its first await: at the limit, the message is
\* acknowledged without being sent.
Process(w, m) ==
    /\ Deliver(w, m)
    /\ IF retryCount[w][m] >= MaxRetries
       THEN /\ wire' = Write(w, "ack", m)
            /\ UNCHANGED stage
       ELSE /\ stage' = [stage EXCEPT ![w][m] = "sending"]
            /\ UNCHANGED wire
    /\ UNCHANGED <<link, retryCount, sent, troubles, cut, breaks>>

\* The channel delivers the notification; its response is on the way.  What
\* cannot be parsed, or has no channel, throws before: it can only Fail.
Send(w, m) ==
    /\ stage[w][m] = "sending"
    /\ m[1] \notin Unsendable
    /\ sent[m[1]] < MaxSends
    /\ sent' = [sent EXCEPT ![m[1]] = @ + 1]
    /\ stage' = [stage EXCEPT ![w][m] = "sent"]
    /\ UNCHANGED <<brokerVars, retryCount, troubles, cut, breaks>>

\* The response arrives: consumeMessage acknowledges the message.
Succeed(w, m) ==
    /\ stage[w][m] = "sent"
    /\ link[w] = "up"
    /\ stage' = [stage EXCEPT ![w][m] = "idle"]
    /\ wire' = Write(w, "ack", m)
    /\ UNCHANGED <<place, link, retryCount, historyVars>>

\* A copy that is not in use: its id is a new one.
Fresh(m) == place[m] \in {"none", "gone"} /\ ~Alive(m) /\ \A w \in Workers : stage[w][m] = "idle"

\* Bug: the copy is published, but the message it replaces is put back, too.
BugFailRequeues(w, m) ==
    /\ stage[w][m] \in {"sending", "sent"}
    /\ link[w] = "up"
    /\ stage' = [stage EXCEPT ![w][m] = "idle"]
    /\ \E c \in CopiesOf(m[1]) :
          /\ Fresh(c)
          /\ wire' = [wire EXCEPT ![w] = @ \cup {[kind |-> "requeue", msg |-> m],
                                                 [kind |-> "publish", msg |-> c]}]
          /\ retryCount' = [x \in Workers |-> [retryCount[x] EXCEPT ![c] = 0]]
    /\ troubles' = [troubles EXCEPT ![m[1]] = IF stage[w][m] = "sent" THEN @ + 1 ELSE @]
    /\ UNCHANGED <<place, link, sent, cut, breaks>>

\* Bug: a failed message is acknowledged without a copy.
BugFailDrops(w, m) ==
    /\ stage[w][m] \in {"sending", "sent"}
    /\ link[w] = "up"
    /\ stage' = [stage EXCEPT ![w][m] = "idle"]
    /\ wire' = Write(w, "ack", m)
    /\ retryCount' = [retryCount EXCEPT ![w][m] = @ + 1]
    /\ troubles' = [troubles EXCEPT ![m[1]] = IF stage[w][m] = "sent" THEN @ + 1 ELSE @]
    /\ UNCHANGED <<place, link, sent, cut, breaks>>

\* The attempt fails, or its response is lost: handleNotificationError
\* publishes a copy, or gives up, and consumeMessage acknowledges the message.
\* No queue is bound to dlx.notifications: what is published there is dropped.
Fail(w, m) ==
    /\ stage[w][m] \in {"sending", "sent"}
    /\ link[w] = "up"
    /\ stage' = [stage EXCEPT ![w][m] = "idle"]
    /\ IF retryCount[w][m] < MaxRetries
       THEN /\ \E c \in CopiesOf(m[1]) :
                  /\ Fresh(c)
                  /\ wire' = [wire EXCEPT ![w] = @ \cup {[kind |-> "ack", msg |-> m],
                                                         [kind |-> "publish", msg |-> c]}]
                  /\ retryCount' = [x \in Workers |->
                        [retryCount[x] EXCEPT ![c] = 0, ![m] = IF x = w THEN @ + 1 ELSE @]]
       ELSE /\ wire' = Write(w, "ack", m)
            /\ UNCHANGED retryCount
    /\ troubles' = [troubles EXCEPT ![m[1]] = IF stage[w][m] = "sent" THEN @ + 1 ELSE @]
    /\ UNCHANGED <<place, link, sent, cut, breaks>>

BrokerReads(w, f) ==
    /\ Read(w, f)
    /\ UNCHANGED <<workerVars, historyVars>>

-----------------------------------------------------------------------------
(* What breaks *)

\* What the end of w's connection does to the notifications.  Bound: no break
\* leaves all the copies of what circulates for ever alive.
Broken(w) ==
    /\ breaks < MaxBreaks
    /\ \A n \in Unsendable : \E m \in CopiesOf(n) : place[m] \in {"none", "gone"}
    /\ breaks' = breaks + 1
    /\ cut' = cut \cup {m[1] : m \in Publishing(w)}
    /\ troubles' = [n \in Notifs |-> troubles[n] + Cardinality(Unacked(w) \cap CopiesOf(n))]

\* The connection of w breaks.  What w is sending goes on.
LoseConnection(w) ==
    /\ link[w] = "up"
    /\ Disconnect(w, "lost")
    /\ Broken(w)
    /\ UNCHANGED <<workerVars, sent>>

\* The process ends: it crashes, is told to (shutdown closes the connection and
\* exits without waiting for what is being sent), or has lost its connection
\* and dies of the next acknowledgement, which throws where nobody catches.
Restart(w) ==
    /\ link[w] # "down"
    /\ IF link[w] = "up" THEN Broken(w) ELSE UNCHANGED <<breaks, cut, troubles>>
    /\ Disconnect(w, "down")
    /\ stage' = [stage EXCEPT ![w] = [m \in Messages |-> "idle"]]
    /\ retryCount' = [retryCount EXCEPT ![w] = [m \in Messages |-> 0]]
    /\ UNCHANGED sent

Next ==
    \/ \E n \in Notifs : Post(n)
    \/ \E w \in Workers :
          \/ Start(w) \/ LoseConnection(w) \/ Restart(w)
          \/ \E f \in Frames : BrokerReads(w, f)
          \/ \E m \in Messages : Process(w, m) \/ Send(w, m) \/ Succeed(w, m) \/ Fail(w, m)

Spec == Init /\ [][Next]_vars

\* Nothing in the process replaces a lost connection, and an idle process that
\* has lost it lives on: only one with something in hand dies of it.
Dying(w) == link[w] = "lost" /\ \E m \in Messages : stage[w][m] # "idle"

\* A process that ended is started again; the broker works, and hands out its
\* messages first in, first out; the channel of a notification that can be sent
\* is not down for ever.
FairSpec ==
    /\ Spec
    /\ \A w \in Workers : WF_vars(Start(w)) /\ WF_vars(Dying(w) /\ Restart(w))
    /\ \A m \in Messages :
          /\ WF_vars(\E w \in Workers, f \in Frames : f.msg = m /\ BrokerReads(w, f))
          /\ WF_vars(\E w \in Workers : Succeed(w, m) \/ Fail(w, m))
          /\ SF_vars(\E w \in Workers : Process(w, m))
    /\ \A n \in Notifs \ Unsendable : SF_vars(\E w \in Workers, m \in CopiesOf(n) : Send(w, m))

-----------------------------------------------------------------------------
(* Properties *)

\* The variables keep their shape; a message that is being sent over a live
\* connection is still the worker's.
TypeOK ==
    /\ BrokerTypeOK
    /\ stage \in [Workers -> [Messages -> Stages]]
    /\ retryCount \in [Workers -> [Messages -> 0 .. MaxRetries]]
    /\ sent \in [Notifs -> Nat]
    /\ troubles \in [Notifs -> Nat]
    /\ cut \subseteq Notifs
    /\ breaks \in 0 .. MaxBreaks
    /\ \A w \in Workers, m \in Messages :
          stage[w][m] # "idle" => link[w] = "lost" \/ place[m] = w

Posted(n) == \E m \in CopiesOf(n) : place[m] # "none"
Waiting(n) == \E m \in CopiesOf(n) : Alive(m)

\* A notification that was published is sent, or still waits somewhere, unless
\* its copy was cut off with a connection after the acknowledgement of the
\* original had arrived: the two are written to different channels, and nothing
\* confirms the copy.  No notification is ever lost to the retry limit.
LossExplained ==
    \A n \in Notifs :
        Posted(n) => sent[n] > 0 \/ Waiting(n) \/ n \in cut

\* A notification reaches its receiver a second time only after a response was
\* lost or the broker delivered a copy again.
DuplicatesExplained ==
    \A n \in Notifs : sent[n] <= 1 + troubles[n]

Tasks == INSTANCE TaskQueue WITH
    Tasks <- Notifs,
    status <- [n \in Notifs |->
        IF sent[n] > 0 THEN "done"
        ELSE IF Waiting(n) THEN "queued"
        ELSE IF Posted(n) THEN "lost"
        ELSE "absent"],
    excused <- cut

\* The worker implements the promise of a task queue: what was posted is kept
\* until it is done, and only what was cut off is ever lost.
ImplementsTasks == Tasks!Spec

\* Every worker has lost its connection with nothing in hand.
Stranded == \A w \in Workers : link[w] = "lost" /\ ~Dying(w)

\* Every notification that can be sent is sent in the end, however often attempts
\* fail and connections and processes break, and although one that cannot be
\* sent circulates for ever, unless its copy was cut off or all the workers sit
\* without a connection from some moment on.
EveryNotificationSent ==
    \A n \in Notifs \ Unsendable :
        Posted(n) ~> \/ sent[n] > 0
                     \/ n \in cut
                     \/ []Stranded

=============================================================================
