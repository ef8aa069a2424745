----------------------------- MODULE Messaging -----------------------------
(***************************************************************************)
(* Chat messages of one API process: the sockets that SocketService keeps  *)
(* per user, the two ways in (a socket event, an HTTP request), each       *)
(* behind an opossum breaker of its own, and MessagingAIService, which     *)
(* loads its two models together, scores a message with them, and checks   *)
(* its own health every five minutes.                                      *)
(*                                                                         *)
(* A breaker's timeout answers the sender while the analysis goes on: such *)
(* a message is no longer `waiting`, and its `stage` still moves.          *)
(***************************************************************************)
EXTENDS Opossum

CONSTANTS Users, Sockets, NoSocket,
          UserOf,                     \* the user of each socket's handshake
          Messages,
          Talks                       \* who writes to whom

ASSUMPTION MessagingAssumption ==
    /\ UserOf \in [Sockets -> Users]
    /\ NoSocket \notin Sockets
    /\ Talks \subseteq Users \X Users

\* Operators named Bug... are the definition after them with a plausible bug.

VARIABLES
    up,                 \* SocketService has not been shut down
    socket,             \* "new", "open" or "closed"
    connectedUsers,     \* the socket registered for a user, or NoSocket
    models,             \* sentimentModel and fraudModel are loaded
    isModelHealthy,
    booting,            \* the load that the constructor starts is under way
    breaker,            \* aiServiceBreaker ("socket"), messageBreaker ("http")
    message,
    overlapped,         \* history: users who opened a socket beside an open one
    vouched             \* history: a health check has passed without models

registry == <<up, socket, connectedUsers, overlapped>>
ai == <<models, isModelHealthy, booting, vouched>>
messagingVars == <<registry, ai, breaker, message>>

Paths == {"socket", "http"}

\* What the score says of a message; "pending" is the fallback of a failed load.
Verdicts == {"approved", "flagged", "blocked", "pending"}

Message == [path : Paths, from : Users, to : Users,
            stage : {"unsent", "refused", "loading", "analysing", "done"},
            sighted : BOOLEAN,        \* the analysis began with loaded models
            waiting : BOOLEAN,        \* the sender's handler awaits the breaker
            verdict : Verdicts \cup {"none"}, scored : BOOLEAN,
            delivered : BOOLEAN,
            told : {"nothing", "error", "400", "403", "500"}]

MessagingTypeOK ==
    /\ up \in BOOLEAN
    /\ socket \in [Sockets -> {"new", "open", "closed"}]
    /\ connectedUsers \in [Users -> Sockets \cup {NoSocket}]
    /\ overlapped \in SUBSET Users
    /\ models \in BOOLEAN /\ isModelHealthy \in BOOLEAN
    /\ booting \in BOOLEAN /\ vouched \in BOOLEAN
    /\ breaker \in [Paths -> BreakerState]
    /\ message \in [Messages -> Message]

Unsent(u) == [path |-> "http", from |-> u, to |-> u, stage |-> "unsent",
              sighted |-> FALSE, waiting |-> FALSE, verdict |-> "none",
              scored |-> FALSE, delivered |-> FALSE, told |-> "nothing"]

MessagingInit ==
    /\ up = TRUE
    /\ socket = [s \in Sockets |-> "new"]
    /\ connectedUsers = [u \in Users |-> NoSocket]
    /\ overlapped = {}
    /\ models = FALSE /\ isModelHealthy = FALSE /\ booting = TRUE
    /\ vouched = FALSE
    /\ breaker = [p \in Paths |-> "closed"]
    /\ message \in [Messages -> {Unsent(u) : u \in Users}]

-----------------------------------------------------------------------------
\* Sockets.

OpenSockets(u) == {s \in Sockets : UserOf[s] = u /\ socket[s] = "open"}

\* A socket passes authenticate() and is registered for its user, whatever
\* socket was registered before.
Connect(s) ==
    /\ up /\ socket[s] = "new"
    /\ socket' = [socket EXCEPT ![s] = "open"]
    /\ connectedUsers' = [connectedUsers EXCEPT ![UserOf[s]] = s]
    /\ overlapped' = IF OpenSockets(UserOf[s]) = {} THEN overlapped
                     ELSE overlapped \cup {UserOf[s]}
    /\ UNCHANGED <<up, ai, breaker, message>>

\* Bug: the handler of "disconnect" does not touch the registry.
BugDisconnectKeeps(s) ==
    /\ socket[s] = "open"
    /\ socket' = [socket EXCEPT ![s] = "closed"]
    /\ UNCHANGED <<up, connectedUsers, overlapped, ai, breaker, message>>

\* A socket closes, or its ping runs into the timeout: the handler forgets
\* the user, whichever socket is registered.
Disconnect(s) ==
    /\ socket[s] = "open"
    /\ socket' = [socket EXCEPT ![s] = "closed"]
    /\ connectedUsers' = [connectedUsers EXCEPT ![UserOf[s]] = NoSocket]
    /\ UNCHANGED <<up, overlapped, ai, breaker, message>>

\* shutdown() disconnects who is registered, and io.close() everybody else.
Shutdown ==
    /\ up
    /\ up' = FALSE
    /\ socket' = [s \in Sockets |->
                    IF socket[s] = "open" THEN "closed" ELSE socket[s]]
    /\ connectedUsers' = [u \in Users |-> NoSocket]
    /\ UNCHANGED <<overlapped, ai, breaker, message>>

\* emitToUser() reaches the registered socket only.
Hears(u) == connectedUsers[u] # NoSocket /\ socket[connectedUsers[u]] = "open"

-----------------------------------------------------------------------------
\* The way in.

\* What a sender hears of a message that failed: a socket event, if one of the
\* sender's sockets is registered, or a status.
Failed(r) == [r EXCEPT !.waiting = FALSE,
                       !.told = IF r.path = "http" THEN "500"
                                ELSE IF Hears(r.from) THEN "error"
                                ELSE "nothing"]

\* processMessage() goes on with the models as they are, or loads them first.
Begin(r) == [r EXCEPT !.waiting = TRUE,
                      !.stage = IF isModelHealthy THEN "analysing" ELSE "loading",
                      !.sighted = isModelHealthy /\ models]

\* handleMessage() or sendMessage(): a message without its required fields is
\* refused, the others go through the breaker of their path.
Send(m, p, u, v) ==
    LET r == [message[m] EXCEPT !.path = p, !.from = u, !.to = v] IN
    /\ message[m].stage = "unsent"
    /\ p = "socket" => OpenSockets(u) # {}
    /\ \/ /\ message' = [message EXCEPT ![m] =
                [Failed(r) EXCEPT !.stage = "refused",
                                  !.told = IF p = "http" THEN "400" ELSE @]]
          /\ UNCHANGED breaker
       \/ /\ ~ Admits(breaker[p])
          /\ message' = [message EXCEPT ![m] =
                [Failed(r) EXCEPT !.stage = "refused"]]
          /\ UNCHANGED breaker
       \/ /\ Admits(breaker[p])
          /\ message' = [message EXCEPT ![m] = Begin(r)]
          /\ breaker' = [breaker EXCEPT ![p] = OnFire(@)]
    /\ UNCHANGED <<registry, ai>>

\* A sender by socket is told nothing: the receiver gets the message, whatever
\* its verdict, if a socket of the receiver is registered.  A sender by HTTP is
\* refused when the score is too high; all others fail, too: the API's queue
\* service is not initialized, so that publishMessage() throws.
Settle(r) ==
    IF r.path = "socket" THEN [r EXCEPT !.waiting = FALSE, !.delivered = Hears(r.to)]
    ELSE IF r.verdict = "blocked" THEN [r EXCEPT !.waiting = FALSE, !.told = "403"]
    ELSE Failed(r)

\* Bug: a result that comes too late is handled like any other.
BugResultLate(m, verdict, scored) ==
    /\ message' = [message EXCEPT ![m] =
            Settle([@ EXCEPT !.stage = "done", !.verdict = verdict,
                             !.scored = scored])]
    /\ breaker' = [breaker EXCEPT ![message[m].path] = OnSuccess(@)]

\* The result of the analysis of m: settles the message if the breaker still
\* waits for it, and is dropped if not.
Result(m, verdict, scored) ==
    LET r == [message[m] EXCEPT !.stage = "done", !.verdict = verdict,
                                !.scored = scored] IN
    IF r.waiting
    THEN /\ message' = [message EXCEPT ![m] = Settle(r)]
         /\ breaker' = [breaker EXCEPT ![r.path] = OnSuccess(@)]
    ELSE /\ message' = [message EXCEPT ![m] = r]
         /\ UNCHANGED breaker

\* Bug: the time for loading the models does not count.
BugTimeOutLoaded(m) ==
    /\ message[m].waiting /\ message[m].stage = "analysing"
    /\ message' = [message EXCEPT ![m] = Failed(@)]
    /\ \E b \in OnFailure(breaker[message[m].path]) :
            breaker' = [breaker EXCEPT ![message[m].path] = b]
    /\ UNCHANGED <<registry, ai>>

\* The breaker gives up after its timeout.
TimeOut(m) ==
    /\ message[m].waiting
    /\ message' = [message EXCEPT ![m] = Failed(@)]
    /\ \E b \in OnFailure(breaker[message[m].path]) :
            breaker' = [breaker EXCEPT ![message[m].path] = b]
    /\ UNCHANGED <<registry, ai>>

ResetBreaker(p) ==
    /\ breaker[p] = "open"
    /\ breaker' = [breaker EXCEPT ![p] = "halfOpen"]
    /\ UNCHANGED <<registry, ai, message>>

-----------------------------------------------------------------------------
\* The models.

\* Bug: a failed load leaves the flag up.
BugLoadedAlways(ok) ==
    /\ models' = (models \/ ok)
    /\ isModelHealthy' = TRUE
    /\ UNCHANGED vouched

\* initializeModels() ends: both models are there, or the flag is taken down.
Loaded(ok) ==
    /\ models' = (models \/ ok)
    /\ isModelHealthy' = ok
    /\ UNCHANGED vouched

BootLoads(ok) ==
    /\ booting /\ booting' = FALSE
    /\ Loaded(ok)
    /\ UNCHANGED <<registry, breaker, message>>

\* The load that a message has started ends.  With the models the analysis
\* begins, without them processMessage() returns its fallback.
MessageLoads(m, ok) ==
    /\ message[m].stage = "loading"
    /\ Loaded(ok)
    /\ IF ok
       THEN /\ message' = [message EXCEPT ![m].stage = "analysing",
                                          ![m].sighted = TRUE]
            /\ UNCHANGED breaker
       ELSE Result(m, "pending", FALSE)
    /\ UNCHANGED <<registry, booting>>

\* detectFraud() returns a score, or 0.5 after any failure, a missing model
\* included: determineModerationStatus() approves a score of 0.5.
Analysed(m) ==
    /\ message[m].stage = "analysing"
    /\ \/ /\ message[m].sighted
          /\ \E v \in {"approved", "flagged", "blocked"} : Result(m, v, TRUE)
       \/ Result(m, "approved", FALSE)
    /\ UNCHANGED <<registry, ai>>

\* The health check calls the two analyses, which never throw, so that it
\* always passes.
HealthCheck ==
    /\ isModelHealthy' = TRUE
    /\ vouched' = (vouched \/ ~ models)
    /\ UNCHANGED <<registry, models, booting, breaker, message>>

-----------------------------------------------------------------------------
MessagingNext ==
    \/ \E s \in Sockets : Connect(s) \/ Disconnect(s)
    \/ Shutdown
    \/ \E m \in Messages, p \in Paths, t \in Talks : Send(m, p, t[1], t[2])
    \/ \E m \in Messages : TimeOut(m) \/ Analysed(m)
    \/ \E m \in Messages, ok \in BOOLEAN : MessageLoads(m, ok)
    \/ \E ok \in BOOLEAN : BootLoads(ok)
    \/ \E p \in Paths : ResetBreaker(p)
    \/ HealthCheck

MessagingSpec == MessagingInit /\ [][MessagingNext]_messagingVars

\* Timers fire; nothing is assumed of the models' storage or of TensorFlow.
MessagingFairSpec ==
    MessagingSpec /\ \A m \in Messages : WF_messagingVars(TimeOut(m))

-----------------------------------------------------------------------------
\* Properties.

\* The registry: what is registered for a user is an open socket of that user,
\* and a user with open sockets of whom none is registered has had two of them
\* at once: handleDisconnection() of the older one has removed the newer one.
RegistryTrue ==
    \A u \in Users :
        IF connectedUsers[u] = NoSocket
        THEN OpenSockets(u) = {} \/ u \in overlapped
        ELSE connectedUsers[u] \in OpenSockets(u)

\* The life of a message: what was answered stays answered.  A result that
\* comes after the breaker's timeout neither delivers the message, of which the
\* sender was told that it failed, nor tells anybody anything else.
OutcomeIsFinal ==
    [][\A m \in Messages :
        message[m].stage # "unsent" /\ ~ message[m].waiting
        => /\ message'[m].delivered = message[m].delivered
           /\ message'[m].told = message[m].told
           /\ ~ message'[m].waiting]_messagingVars

\* The health of the models: a message is approved without having been looked
\* at by a loaded model only after performHealthCheck() has called models
\* healthy that were never loaded.  The failed load itself ends in
\* getFallbackMetadata(), which leaves the message to a review.
UnscoredExplained ==
    \A m \in Messages :
        message[m].verdict = "approved" /\ ~ message[m].sighted => vouched

\* Every message that handleMessage() or sendMessage() hands to its breaker is
\* settled, even if loading or scoring never ends.
EveryMessageSettled ==
    \A m \in Messages : message[m].waiting ~> ~ message[m].waiting


=============================================================================
