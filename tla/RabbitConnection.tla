-------------------------- MODULE RabbitConnection --------------------------
(***************************************************************************)
(* One worker process and its RabbitMQService: initialize(), the timers    *)
(* that the connection's error and close events set, and the shutdown that *)
(* two handlers of the same signal run at once.  The worker is             *)
(* MessageProcessingWorker, which initializes the service, subscribes, and *)
(* has a shutdown of its own.                                              *)
(*                                                                         *)
(* Every call of initialize() that gets past its guard is named by the     *)
(* connection it opens.  One channel of the pool stands for all of them.   *)
(***************************************************************************)
EXTENDS Naturals, FiniteSets

CONSTANTS Conns,        \* bound: 1 .. Conns are the connections one process opens
          maxAttempts   \* queueConfig.options.retry.maxAttempts

ASSUME RabbitConnectionAssumption == Conns \in Nat /\ maxAttempts \in Nat

VARIABLES
    process,            \* the process: up, or how it exited
    start,              \* where MessageProcessingWorker.start stands
    init,               \* where each call of initialize() stands
    field,              \* the service's fields channelPool, channel and connection
    object,             \* the state of what they refer to, per connection
    isInitialized,
    reconnectAttempts,
    timers,             \* reconnection timers that have not fired
    byStart,            \* the call of initialize() that start awaits
    consumer,           \* the connection on which the worker subscribed
    closer,             \* per shutdown handler, what it is closing
    overlapped,         \* history: an initialization met another one, or a shutdown
    lost                \* history: a connection was lost

serviceVars == <<field, object, isInitialized, reconnectAttempts, timers>>
workerVars == <<start, byStart, consumer>>
historyVars == <<overlapped, lost>>
vars == <<process, init, serviceVars, workerVars, closer, historyVars>>

Cs == 1 .. Conns
none == 0

\* What closeConnection closes, in this order.
Order == <<"pool", "channel", "connection">>
Things == {"pool", "channel", "connection"}
Handlers == {"service", "worker"}

Opening == {c \in Cs : init[c] \in {"connecting", "connected", "asserting", "pooling"}}
Nothing == [what |-> "nothing", of |-> none]
Reporting == [what |-> "reporting", of |-> none]
Closing == \E h \in Handlers : closer[h] # Nothing

\* What belongs to connection c is no longer open.
Gone(c) == [t \in Things |-> [object[t] EXCEPT ![c] = IF @ = "none" THEN @ ELSE "closed"]]

Init ==
    /\ process = "up"
    /\ start = "idle"
    /\ init = [c \in Cs |-> "unused"]
    /\ field = [t \in Things |-> none]
    /\ object = [t \in Things |-> [c \in Cs |-> "none"]]
    /\ isInitialized = FALSE
    /\ reconnectAttempts = 0
    /\ timers = 0
    /\ byStart = none
    /\ consumer = none
    /\ closer = [h \in Handlers |-> Nothing]
    /\ overlapped = FALSE
    /\ lost = FALSE

-----------------------------------------------------------------------------
(* initialize() *)

\* A call of initialize() that does not return at once starts to connect.
Connecting(c) ==
    /\ init[c] = "unused"
    /\ \A d \in Cs : d < c => init[d] # "unused"
    /\ init' = [init EXCEPT ![c] = "connecting"]
    /\ overlapped' = (overlapped \/ Opening # {} \/ Closing)

\* start() calls initialize().
Start ==
    /\ process = "up"
    /\ start = "idle"
    /\ \E c \in Cs : Connecting(c) /\ byStart' = c
    /\ start' = "initializing"
    /\ UNCHANGED <<process, serviceVars, consumer, closer, lost>>

\* connect() resolves; the handlers of its events are set at once.
Connected(c) ==
    /\ process = "up"
    /\ init[c] = "connecting"
    /\ init' = [init EXCEPT ![c] = "connected"]
    /\ field' = [field EXCEPT !["connection"] = c]
    /\ object' = [object EXCEPT !["connection"][c] = "open"]
    /\ UNCHANGED <<process, isInitialized, reconnectAttempts, timers, workerVars, closer, historyVars>>

ChannelOpens(c) ==
    /\ process = "up"
    /\ init[c] = "connected"
    /\ object["connection"][c] = "open"
    /\ init' = [init EXCEPT ![c] = "asserting"]
    /\ field' = [field EXCEPT !["channel"] = c]
    /\ object' = [object EXCEPT !["channel"][c] = "open"]
    /\ UNCHANGED <<process, isInitialized, reconnectAttempts, timers, workerVars, closer, historyVars>>

\* The field refers to something that can be used.
Usable(t) == field[t] # none /\ object[t][field[t]] = "open"

\* Exchanges and queues are declared, on whatever channel the field holds.
Asserted(c) ==
    /\ process = "up"
    /\ init[c] = "asserting"
    /\ Usable("channel")
    /\ init' = [init EXCEPT ![c] = "pooling"]
    /\ UNCHANGED <<process, serviceVars, workerVars, closer, historyVars>>

\* The pool is opened, on whatever connection the field holds: initialize()
\* returns to start(), which goes on to subscribe, or to its timer.
Pooled(c) ==
    /\ process = "up"
    /\ init[c] = "pooling"
    /\ Usable("connection")
    /\ init' = [init EXCEPT ![c] = "done"]
    /\ field' = [field EXCEPT !["pool"] = field["connection"]]
    /\ object' = [object EXCEPT !["pool"][field["connection"]] = "open"]
    /\ isInitialized' = TRUE
    /\ start' = IF c = byStart THEN "subscribing" ELSE start
    /\ reconnectAttempts' = IF c = byStart THEN reconnectAttempts ELSE 0
    /\ UNCHANGED <<process, timers, byStart, consumer, closer, historyVars>>

\* connect() or a call on a channel or connection that is gone rejects.
Fails(c) ==
    /\ process = "up"
    /\ \/ init[c] = "connecting"
       \/ init[c] = "connected" /\ object["connection"][c] # "open"
       \/ init[c] = "asserting" /\ ~Usable("channel")
       \/ init[c] = "pooling" /\ ~Usable("connection")
    /\ init' = [init EXCEPT ![c] = "failed"]
    /\ start' = IF c = byStart THEN "failed" ELSE start
    /\ UNCHANGED <<process, serviceVars, byStart, consumer, closer, historyVars>>

\* consumeMessage() opens a channel on the connection and subscribes.
Subscribe ==
    /\ process = "up"
    /\ start = "subscribing"
    /\ consumer' = IF Usable("connection") THEN field["connection"] ELSE none
    /\ start' = IF Usable("connection") THEN "subscribed" ELSE "failed"
    /\ UNCHANGED <<process, init, serviceVars, byStart, closer, historyVars>>

-----------------------------------------------------------------------------
(* Events of the connection and their timers *)

\* attemptReconnection(), n times.
Attempt(n) ==
    LET left == maxAttempts - reconnectAttempts
        set == IF n <= left THEN n ELSE left
    IN  /\ reconnectAttempts' = reconnectAttempts + set
        /\ timers' = timers + set

\* The connection is lost: it emits "close", and "error" before that unless
\* the broker was told to close it.
Lose(c) ==
    /\ process = "up"
    /\ object["connection"][c] = "open"
    /\ object' = Gone(c)
    /\ \E events \in 1 .. 2 : Attempt(events)
    /\ lost' = TRUE
    /\ UNCHANGED <<process, init, field, isInitialized, workerVars, closer, overlapped>>

\* Bug: initialize() does not look at isInitialized.
BugTimerFiresAnyway ==
    /\ process = "up"
    /\ timers > 0
    /\ timers' = timers - 1
    /\ \E c \in Cs : Connecting(c)
    /\ UNCHANGED <<process, field, object, isInitialized, reconnectAttempts, workerVars, closer, lost>>

\* Bug: the timer runs start() again, with a second subscription.
BugTimerFiresStart ==
    /\ process = "up"
    /\ timers > 0
    /\ timers' = timers - 1
    /\ \E c \in Cs : Connecting(c) /\ byStart' = c
    /\ start' = "initializing"
    /\ UNCHANGED <<process, field, object, isInitialized, reconnectAttempts, consumer, closer, lost>>

\* A timer calls initialize(), which returns at once when the service is
\* initialized: nothing resets that flag when a connection is lost.
TimerFires ==
    /\ process = "up"
    /\ timers > 0
    /\ timers' = timers - 1
    /\ IF isInitialized
       THEN /\ reconnectAttempts' = 0
            /\ UNCHANGED <<init, overlapped>>
       ELSE /\ \E c \in Cs : Connecting(c)
            /\ UNCHANGED reconnectAttempts
    /\ UNCHANGED <<process, field, object, isInitialized, workerVars, closer, lost>>

-----------------------------------------------------------------------------
(* Shutdown *)

\* closeConnection() is done: the service exits, the worker reports first.
Closed(h) ==
    /\ isInitialized' = FALSE
    /\ IF h = "service"
       THEN process' = "clean" /\ UNCHANGED closer
       ELSE closer' = [closer EXCEPT ![h] = Reporting] /\ UNCHANGED process

\* Handler h closes the next thing that the fields F still hold, from the i-th
\* on.  Closing what is already closed, or being closed, throws: one handler
\* exits with an error then, the other dies of an unhandled rejection.
CloseNext(h, F, O, i) ==
    LET held == {j \in i .. 3 : F[Order[j]] # none}
    IN  IF held = {}
        THEN /\ Closed(h)
             /\ object' = O
        ELSE LET t == Order[CHOOSE j \in held : \A k \in held : j <= k]
             IN  /\ IF O[t][F[t]] = "open"
                    THEN /\ closer' = [closer EXCEPT ![h] = [what |-> t, of |-> F[t]]]
                         /\ object' = [O EXCEPT ![t][F[t]] = "closing"]
                         /\ UNCHANGED process
                    ELSE /\ process' = "error"
                         /\ object' = O
                         /\ UNCHANGED closer
                 /\ UNCHANGED isInitialized

\* SIGINT: the worker's handler alone.
Interrupt ==
    /\ process = "up"
    /\ closer["worker"] = Nothing
    /\ CloseNext("worker", field, object, 1)
    /\ overlapped' = (overlapped \/ Opening # {})
    /\ UNCHANGED <<init, field, reconnectAttempts, timers, workerVars, lost>>

\* SIGTERM: first the service's handler, then the worker's, unless it runs
\* already.  Whatever the first one closes, the second finds closing.
Terminate ==
    /\ process = "up"
    /\ closer["service"] = Nothing
    /\ IF closer["worker"] = Nothing
       THEN /\ process' = IF \A t \in Things : field[t] = none THEN "clean" ELSE "error"
            /\ UNCHANGED <<object, isInitialized, closer, overlapped>>
       ELSE /\ CloseNext("service", field, object, 1)
            /\ overlapped' = (overlapped \/ Opening # {})
    /\ UNCHANGED <<init, field, reconnectAttempts, timers, workerVars, lost>>

\* Bug: the worker forgets to exit when everything is closed.
BugClosesForgets(h) ==
    /\ process = "up"
    /\ closer[h].what \in Things
    /\ closer[h].what = "connection"
    /\ object["connection"][closer[h].of] = "closing"
    /\ Attempt(1)
    /\ object' = Gone(closer[h].of)
    /\ field' = [field EXCEPT !["connection"] = none]
    /\ isInitialized' = FALSE
    /\ UNCHANGED <<process, closer, init, workerVars, historyVars>>

\* The broker confirms: the field is emptied and the handler goes on.  A
\* connection that is closed emits "close", which sets a timer.
Closes(h) ==
    /\ process = "up"
    /\ closer[h].what \in Things
    /\ LET t == closer[h].what
           c == closer[h].of
           F == [field EXCEPT ![t] = none]
           O == IF t = "connection" THEN Gone(c) ELSE [object EXCEPT ![t][c] = "closed"]
       IN  /\ object[t][c] = "closing"
           /\ IF t = "connection" THEN Attempt(1) ELSE UNCHANGED <<reconnectAttempts, timers>>
           /\ field' = F
           /\ CloseNext(h, F, O, CASE t = "pool" -> 2 [] t = "channel" -> 3 [] OTHER -> 4)
    /\ UNCHANGED <<init, workerVars, historyVars>>

\* The worker's last metrics are published, or not.
Reports ==
    /\ process = "up"
    /\ closer["worker"] = Reporting
    /\ process' \in {"clean", "error"}
    /\ UNCHANGED <<init, serviceVars, workerVars, closer, historyVars>>

Crash ==
    /\ process = "up"
    /\ process' = "error"
    /\ UNCHANGED <<init, serviceVars, workerVars, closer, historyVars>>

Next ==
    \/ Start \/ Subscribe \/ TimerFires \/ Interrupt \/ Terminate \/ Reports \/ Crash
    \/ \E c \in Cs :
          \/ Connected(c) \/ ChannelOpens(c) \/ Asserted(c) \/ Pooled(c)
          \/ Fails(c) \/ Lose(c)
    \/ \E h \in Handlers : Closes(h)

Spec == Init /\ [][Next]_vars

\* The broker answers what it is asked to close, and the report ends.
FairSpec ==
    /\ Spec
    /\ \A h \in Handlers : WF_vars(Closes(h))
    /\ WF_vars(Reports)

-----------------------------------------------------------------------------
(* Properties *)

ObjectStates == {"none", "open", "closing", "closed"}

\* The variables keep their shape; reconnectAttempts never passes its limit.
TypeOK ==
    /\ process \in {"up", "clean", "error"}
    /\ start \in {"idle", "initializing", "subscribing", "subscribed", "failed"}
    /\ init \in [Cs -> {"unused", "connecting", "connected", "asserting", "pooling",
                        "done", "failed"}]
    /\ field \in [Things -> Cs \cup {none}]
    /\ object \in [Things -> [Cs -> ObjectStates]]
    /\ isInitialized \in BOOLEAN
    /\ reconnectAttempts \in 0 .. maxAttempts
    /\ timers \in Nat
    /\ byStart \in Cs \cup {none}
    /\ consumer \in Cs \cup {none}
    /\ closer \in [Handlers -> {Nothing, Reporting} \cup [what : Things, of : Cs]]
    /\ overlapped \in BOOLEAN
    /\ lost \in BOOLEAN

\* A connection that the service no longer refers to is not left open, unless
\* two initializations, or one and a shutdown, ran at the same time: the guard
\* of initialize() is read long before the flag is set.
NoStrayConnection ==
    \A c \in Cs :
        object["connection"][c] = "open" => c = field["connection"] \/ overlapped

\* isInitialized means that one can publish: connection, channel and pool are
\* there, open and of one connection, as long as no connection was lost, none
\* is being closed and no two initializations met.
InitializedMeansUsable ==
    isInitialized /\ ~overlapped /\ ~lost /\ ~Closing =>
        \A t \in Things : Usable(t) /\ field[t] = field["connection"]

\* However connections fail, a process that is not shutting down opens no more
\* than one connection and maxAttempts further ones.
AttemptsLimited ==
    ~Closing => Cardinality({c \in Cs : init[c] # "unused"}) <= 1 + maxAttempts

\* The worker's connection as Broker sees it.
workerLink ==
    IF process # "up" \/ consumer = none THEN "down"
    ELSE IF object["connection"][consumer] \in {"open", "closing"} THEN "up"
    ELSE "lost"

Link == INSTANCE BrokerLink WITH link <- workerLink

\* A worker consumes over one connection in its life: once that is lost, no
\* timer brings it another.
ImplementsLink == Link!Spec

\* Once the worker closes what it holds, the process ends, unless a connection
\* is lost in the middle: a channel that waits for its confirmation then waits
\* for ever.
ShutdownEnds ==
    closer["worker"] # Nothing ~> process # "up" \/ lost

=============================================================================
