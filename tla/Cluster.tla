------------------------------ MODULE Cluster ------------------------------
(***************************************************************************)
(* The API's processes: a primary that forks workers and forks another one *)
(* when one fails, and the shutdown of all of them.                        *)
(*                                                                         *)
(* app.ts, which server.ts imports, runs in every process, the primary     *)
(* included: it initializes the services, listens on the same port as the  *)
(* workers' servers of server.ts but on all addresses, and has a handler   *)
(* of SIGTERM and SIGINT of its own.  The system gives the port to         *)
(* listeners of one kind: the primary's app.ts, the servers of server.ts,  *)
(* which share a handle, or the workers' app.ts, which share another.      *)
(***************************************************************************)
EXTENDS Naturals, FiniteSets

CONSTANTS WorkerCount,
          Signals,          \* those that are sent, each at most once
          MaxForks,         \* bound: workers forked, the first ones included
          Serving           \* bound: workers whose connections are looked at

ASSUMPTION ClusterAssumption ==
    /\ WorkerCount \in Nat \ {0} /\ MaxForks \in Nat
    /\ WorkerCount <= MaxForks
    /\ Signals \subseteq {"SIGTERM", "SIGINT", "SIGQUIT"}

Workers == 1 .. MaxForks

VARIABLES
    primary,        \* its state
    listens,        \* its app.ts listens
    sent,           \* signals that the primary has got
    forked,         \* the last worker forked
    stage,          \* the state of a worker
    code,           \* how it has ended; "killed" is a null code and a signal
    reaped,         \* the primary has seen it end
    pending,        \* signals on their way to a worker
    server, app,    \* the listeners of server.ts and app.ts in a worker
    closing,        \* gracefulShutdown() of app.ts awaits the database
    open,           \* what there is on the connections of the worker's server.ts
    cause,          \* history: why gracefulShutdown() of server.ts was called
    cut             \* history: what of it was cut off

process == <<stage, code>>
clusterVars == <<primary, listens, sent, forked, process, reaped, pending, server,
                 app, closing, open, cause, cut>>

\* A request that has not been answered yet, and a response that has been
\* written but not flushed.
Traffic == {"request", "response"}

ClusterTypeOK ==
    /\ primary \in {"running", "closing", "gone"}
    /\ listens \in BOOLEAN
    /\ sent \in SUBSET Signals
    /\ forked \in Workers
    /\ stage \in [Workers -> {"unborn", "booting", "running", "draining", "gone"}]
    /\ code \in [Workers -> {"none", "0", "1", "killed"}]
    /\ reaped \in [Workers -> BOOLEAN]
    /\ pending \in [Workers -> SUBSET Signals]
    /\ server \in [Workers -> {"off", "on", "closed"}]
    /\ app \in [Workers -> {"off", "on", "closed"}]
    /\ closing \in [Workers -> BOOLEAN]
    /\ open \in [Workers -> SUBSET Traffic]
    /\ cause \in [Workers -> {"none", "signal", "exception", "address"}]
    /\ cut \in [Workers -> SUBSET Traffic]

ClusterInit ==
    /\ primary = "running" /\ listens = FALSE /\ sent = {}
    /\ forked = WorkerCount
    /\ stage = [w \in Workers |-> IF w <= WorkerCount THEN "booting" ELSE "unborn"]
    /\ code = [w \in Workers |-> "none"]
    /\ reaped = [w \in Workers |-> FALSE]
    /\ pending = [w \in Workers |-> {}]
    /\ server = [w \in Workers |-> "off"]
    /\ app = [w \in Workers |-> "off"]
    /\ closing = [w \in Workers |-> FALSE]
    /\ open = [w \in Workers |-> {}]
    /\ cause = [w \in Workers |-> "none"]
    /\ cut = [w \in Workers |-> {}]

Alive(w) == stage[w] \in {"booting", "running", "draining"}

-----------------------------------------------------------------------------
\* The end of a worker cuts off what is on its connections.

Exit(w, c) ==
    /\ stage' = [stage EXCEPT ![w] = "gone"]
    /\ code' = [code EXCEPT ![w] = c]
    /\ server' = [server EXCEPT ![w] = "closed"]
    /\ app' = [app EXCEPT ![w] = "closed"]
    /\ open' = [open EXCEPT ![w] = {}]
    /\ cut' = [cut EXCEPT ![w] = @ \cup open[w]]
    /\ pending' = [pending EXCEPT ![w] = {}]
    /\ closing' = [closing EXCEPT ![w] = FALSE]
    /\ UNCHANGED <<primary, listens, sent, forked, reaped, cause>>

\* gracefulShutdown() of server.ts: its server listens no more, a timer is set
\* and every socket is ended, so that no request is answered any more.
Drain(w, why) ==
    /\ stage' = [stage EXCEPT ![w] = "draining"]
    /\ server' = [server EXCEPT ![w] = "closed"]
    /\ cause' = [cause EXCEPT ![w] = IF @ = "none" THEN why ELSE @]
    /\ open' = [open EXCEPT ![w] = @ \ {"request"}]
    /\ cut' = [cut EXCEPT ![w] = @ \cup (open[w] \cap {"request"})]

\* Bug: it exits without awaiting the promises.
BugDrained(w) ==
    /\ stage[w] = "draining" /\ primary # "gone"
    /\ Exit(w, "0")

\* What was written before has been flushed, and the sockets are destroyed: exit(0).
Drained(w) ==
    /\ stage[w] = "draining" /\ "response" \notin open[w]
    /\ Exit(w, "0")

\* "Forced shutdown due to timeout": exit(1).
TimesOut(w) ==
    /\ stage[w] = "draining"
    /\ Exit(w, "1")

\* app.ts: the database is closed, or that has failed; nothing else is awaited.
DatabaseClosed(w) ==
    /\ closing[w]
    /\ \E c \in {"0", "1"} : Exit(w, c)

\* The channel to the primary closes: node ends a worker with exit(0).
Orphaned(w) ==
    /\ primary = "gone" /\ Alive(w)
    /\ Exit(w, "0")

\* The system kills it, or it runs out of memory.
Killed(w) ==
    /\ Alive(w)
    /\ Exit(w, "killed")

-----------------------------------------------------------------------------
\* The life of a worker.

\* app.ts and server.ts have been loaded: the handlers are there.
Boots(w) ==
    /\ stage[w] = "booting"
    /\ stage' = [stage EXCEPT ![w] = "running"]
    /\ UNCHANGED <<primary, listens, sent, forked, code, reaped, pending, server, app,
                   closing, open, cause, cut>>

\* Kinds of listeners that keep a listener of kind k from the port.
Taken(k) ==
    \/ k # "primary" /\ listens
    \/ k # "server" /\ \E w \in Workers : server[w] = "on"
    \/ k # "app" /\ \E w \in Workers : app[w] = "on"

\* setupWorker() listens.  An address in use is an "error" event nobody handles.
Listens(w) ==
    /\ stage[w] = "running" /\ server[w] = "off" /\ primary # "gone"
    /\ \/ /\ ~ Taken("server")
          /\ server' = [server EXCEPT ![w] = "on"]
          /\ UNCHANGED <<stage, cause, open, cut>>
       \/ /\ Taken("server")
          /\ Drain(w, "address")
    /\ UNCHANGED <<primary, listens, sent, forked, code, reaped, pending, app, closing>>

\* The services of app.ts are there and it listens.
Initialized(w) ==
    /\ stage[w] \in {"running", "draining"} /\ app[w] = "off" /\ primary # "gone"
    /\ \/ /\ ~ Taken("app")
          /\ app' = [app EXCEPT ![w] = "on"]
          /\ UNCHANGED <<stage, server, cause, open, cut>>
       \/ /\ Taken("app")
          /\ app' = [app EXCEPT ![w] = "closed"]
          /\ Drain(w, "address")
    /\ UNCHANGED <<primary, listens, sent, forked, code, reaped, pending, closing>>

\* A service, or the certificate, is missing: exit(1).
InitializationFails(w) ==
    /\ stage[w] \in {"running", "draining"} /\ app[w] = "off"
    /\ Exit(w, "1")

\* An uncaught exception or an unhandled rejection; the loss of the broker
\* connection of app.ts, which has no "error" handler, is one.
Throws(w) ==
    /\ stage[w] = "running"
    /\ Drain(w, "exception")
    /\ UNCHANGED <<primary, listens, sent, forked, code, reaped, pending, app, closing>>

\* Requests arrive, responses are written for them and flushed, and clients leave.
Connection(w) ==
    /\ w \in Serving
    /\ \E now \in SUBSET Traffic \ {open[w]} :
          /\ "request" \in now \ open[w] => server[w] = "on"
          /\ "response" \in now \ open[w] => "request" \in open[w]
          /\ open' = [open EXCEPT ![w] = now]
    /\ UNCHANGED <<primary, listens, sent, forked, process, reaped, pending, server, app,
                   closing, cause, cut>>

\* A signal arrives: both handlers run, that of app.ts for two signals only.
\* Before they are there the signal kills.
Signalled(w, s) ==
    /\ s \in pending[w]
    /\ \/ /\ stage[w] = "booting"
          /\ Exit(w, "killed")
       \/ /\ stage[w] \in {"running", "draining"}
          /\ Drain(w, "signal")
          /\ pending' = [pending EXCEPT ![w] = @ \ {s}]
          /\ closing' = [closing EXCEPT ![w] = @ \/ s # "SIGQUIT"]
          /\ UNCHANGED <<primary, listens, sent, forked, code, reaped, app>>

-----------------------------------------------------------------------------
\* The primary.

\* Bug: a worker that is not replaced is forgotten about, whatever its code,
\* when it ends during a shutdown.
BugReap(w) ==
    /\ stage[w] = "gone" /\ ~ reaped[w] /\ primary # "gone"
    /\ reaped' = [reaped EXCEPT ![w] = TRUE]
    /\ \/ /\ code[w] = "0" \/ sent # {}
          /\ UNCHANGED <<forked, stage>>
       \/ /\ code[w] # "0" /\ sent = {} /\ forked < MaxForks
          /\ forked' = forked + 1
          /\ stage' = [stage EXCEPT ![forked + 1] = "booting"]
    /\ UNCHANGED <<primary, listens, sent, code, pending, server, app, closing, open,
                   cause, cut>>

\* The "exit" event: every code but 0, and a null one, forks another worker.
Reap(w) ==
    /\ stage[w] = "gone" /\ ~ reaped[w] /\ primary # "gone"
    /\ reaped' = [reaped EXCEPT ![w] = TRUE]
    /\ \/ /\ code[w] = "0"
          /\ UNCHANGED <<forked, stage>>
       \/ /\ code[w] # "0" /\ forked < MaxForks
          /\ forked' = forked + 1
          /\ stage' = [stage EXCEPT ![forked + 1] = "booting"]
    /\ UNCHANGED <<primary, listens, sent, code, pending, server, app, closing, open,
                   cause, cut>>

\* The services of the primary's app.ts are there: it listens, and dies of an
\* uncaught exception if the address is in use.  It dies, too, of any other
\* exception, of a service that is missing and of being killed.
PrimaryInitialized ==
    /\ primary # "gone" /\ ~ listens
    /\ \/ ~ Taken("primary") /\ listens' = TRUE /\ UNCHANGED primary
       \/ Taken("primary") /\ primary' = "gone" /\ UNCHANGED listens
    /\ UNCHANGED <<sent, forked, process, reaped, pending, server, app, closing,
                   open, cause, cut>>

PrimaryFails ==
    /\ primary # "gone" /\ primary' = "gone" /\ listens' = FALSE
    /\ UNCHANGED <<sent, forked, process, reaped, pending, server, app, closing,
                   open, cause, cut>>

\* Bug: the primary only forwards the signals.
BugPrimarySignalled(s) ==
    /\ primary # "gone" /\ s \notin sent
    /\ sent' = sent \cup {s}
    /\ pending' = [w \in Workers |-> IF Alive(w) THEN pending[w] \cup {s} ELSE pending[w]]
    /\ UNCHANGED <<primary, listens, forked, process, reaped, server, app, closing, open,
                   cause, cut>>

\* Both handlers run: server.ts forwards the signal to the workers there are,
\* app.ts starts to close the database, but not for SIGQUIT.
PrimarySignalled(s) ==
    /\ primary # "gone" /\ s \notin sent
    /\ sent' = sent \cup {s}
    /\ pending' = [w \in Workers |-> IF Alive(w) THEN pending[w] \cup {s} ELSE pending[w]]
    /\ primary' = IF s = "SIGQUIT" THEN primary ELSE "closing"
    /\ UNCHANGED <<listens, forked, process, reaped, server, app, closing, open, cause, cut>>

PrimaryDatabaseClosed ==
    /\ primary = "closing" /\ primary' = "gone" /\ listens' = FALSE
    /\ UNCHANGED <<sent, forked, process, reaped, pending, server, app, closing,
                   open, cause, cut>>

-----------------------------------------------------------------------------
ClusterNext ==
    \/ \E w \in Workers : \/ Drained(w) \/ TimesOut(w) \/ DatabaseClosed(w)
                          \/ Orphaned(w) \/ Killed(w) \/ Boots(w) \/ Listens(w)
                          \/ Initialized(w) \/ InitializationFails(w)
                          \/ Throws(w) \/ Connection(w) \/ Reap(w)
    \/ \E w \in Workers, s \in Signals : Signalled(w, s)
    \/ \E s \in Signals : PrimarySignalled(s)
    \/ PrimaryInitialized \/ PrimaryFails \/ PrimaryDatabaseClosed

ClusterSpec == ClusterInit /\ [][ClusterNext]_clusterVars

\* A database pool closes or fails to, and a worker notices that the channel
\* to the primary is closed.
ClusterFairSpec ==
    /\ ClusterSpec
    /\ WF_clusterVars(PrimaryDatabaseClosed)
    /\ \A w \in Workers : WF_clusterVars(Orphaned(w))

-----------------------------------------------------------------------------
\* Properties.

\* setupCluster(): as long as the primary runs, all configured workers are
\* there, or ended and not yet noticed, except those that gracefulShutdown()
\* has ended with code 0 after an exception, an address in use or a signal:
\* those are not replaced.
WorkersExplained ==
    primary # "gone" =>
        LET unreplaced == {w \in Workers : reaped[w] /\ code[w] = "0"} IN
        /\ WorkerCount = Cardinality({w \in 1 .. forked : ~ reaped[w]})
                         + Cardinality(unreplaced)
        /\ \A w \in unreplaced : cause[w] # "none"

\* gracefulShutdown() of server.ts lets what was written reach the clients: a
\* response is cut off only by the timeout or a failed start, both with code 1,
\* by a kill, after SIGTERM or SIGINT, when app.ts ends the worker as soon as the
\* database is closed, or with the primary.  A request that is not answered yet
\* is cut off by every gracefulShutdown(), too.
CutExplained ==
    \A w \in Workers : \A k \in cut[w] :
        \/ code[w] \in {"1", "killed"} \/ primary = "gone"
        \/ sent \cap {"SIGTERM", "SIGINT"} # {}
        \/ k = "request" /\ cause[w] # "none"

\* SIGTERM or SIGINT end everything: the workers that the primary forks during
\* the shutdown, too, and those that do not drain.
ClusterEnds ==
    sent \cap {"SIGTERM", "SIGINT"} # {}
        ~> primary = "gone" /\ \A w \in Workers : ~ Alive(w)

=============================================================================
