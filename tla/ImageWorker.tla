---------------------------- MODULE ImageWorker ----------------------------
(***************************************************************************)
(* ImageProcessingWorker: takes jobs from their queue, at most             *)
(* MAX_CONCURRENT_JOBS at a time though the broker hands out Prefetch of   *)
(* them, and publishes the result of each.                                 *)
(*                                                                         *)
(* processImage never throws: a job that cannot be processed has a result, *)
(* too.  What fails is the JSON of a malformed job, and the publishing     *)
(* while RabbitMQService closes its channels.  A retry would be published  *)
(* to an exchange that does not exist, a second later: it reaches no queue *)
(* and is left out.                                                        *)
(***************************************************************************)
EXTENDS Broker

CONSTANTS Malformed,           \* jobs that are not JSON
          MAX_CONCURRENT_JOBS,
          MaxBreaks            \* bound: lost connections, crashes and stops from outside

Jobs == Messages

ASSUME ImageWorkerAssumption ==
    /\ Malformed \subseteq Messages
    /\ Workers \cap {"none", "ready", "gone"} = {}
    /\ IsFiniteSet(Messages)
    /\ Prefetch \in Nat \ {0}
    /\ MAX_CONCURRENT_JOBS \in Nat \ {0}
    /\ MaxBreaks \in Nat

VARIABLES
    working,      \* per worker, the jobs that are being processed
    activeJobs,   \* per worker, their number as it counts it
    channel,      \* per worker, the main channel: failing once a nack of it went out
    closing,      \* per worker, RabbitMQService closes the connection
    results,      \* the jobs whose result was published
    turnedAway,   \* history: jobs acknowledged at capacity
    dropped,      \* history: jobs acknowledged though their result was not published
    breaks

workerVars == <<working, activeJobs, channel, closing>>
historyVars == <<turnedAway, dropped, breaks>>
vars == <<brokerVars, workerVars, results, historyVars>>

Init ==
    /\ place = [j \in Jobs |-> "none"]
    /\ wire = [w \in Workers |-> {}]
    /\ link = [w \in Workers |-> "down"]
    /\ working = [w \in Workers |-> {}]
    /\ activeJobs = [w \in Workers |-> 0]
    /\ channel = [w \in Workers |-> "none"]
    /\ closing = [w \in Workers |-> FALSE]
    /\ results = {}
    /\ turnedAway = {}
    /\ dropped = {}
    /\ breaks = 0

-----------------------------------------------------------------------------
\* Somebody publishes a job.
Post(j) ==
    /\ place[j] = "none"
    /\ place' = [place EXCEPT ![j] = "ready"]
    /\ UNCHANGED <<wire, link, workerVars, results, historyVars>>

Start(w) ==
    /\ Connect(w)
    /\ channel' = [channel EXCEPT ![w] = "open"]
    /\ UNCHANGED <<working, activeJobs, closing, results, historyVars>>

\* Operators named Bug... are the definition after them with a plausible bug.

\* Bug: the capacity is checked after the job was counted.
BugTakeLate(w, j) ==
    /\ Deliver(w, j)
    /\ j \notin Malformed
    /\ activeJobs[w] <= MAX_CONCURRENT_JOBS
    /\ working' = [working EXCEPT ![w] = @ \cup {j}]
    /\ activeJobs' = [activeJobs EXCEPT ![w] = @ + 1]
    /\ UNCHANGED <<wire, link, channel, closing, results, historyVars>>

\* The consumer starts a job.
Take(w, j) ==
    /\ Deliver(w, j)
    /\ j \notin Malformed
    /\ activeJobs[w] < MAX_CONCURRENT_JOBS
    /\ working' = [working EXCEPT ![w] = @ \cup {j}]
    /\ activeJobs' = [activeJobs EXCEPT ![w] = @ + 1]
    /\ UNCHANGED <<wire, link, channel, closing, results, historyVars>>

\* Bug: the job is acknowledged, as if it had been handled.
BugTakeMalformedAcks(w, j) ==
    /\ Deliver(w, j)
    /\ j \in Malformed
    /\ activeJobs[w] < MAX_CONCURRENT_JOBS
    /\ wire' = Write(w, "ack", j)
    /\ UNCHANGED <<link, workerVars, results, historyVars>>

\* Bug: the counter is not decremented when the handler of the error throws.
BugTakeMalformedKeepsCount(w, j) ==
    /\ Deliver(w, j)
    /\ j \in Malformed
    /\ activeJobs[w] < MAX_CONCURRENT_JOBS
    /\ wire' = Write(w, "requeue", j)
    /\ activeJobs' = [activeJobs EXCEPT ![w] = @ + 1]
    /\ UNCHANGED <<link, working, channel, closing, results, historyVars>>

\* JSON.parse throws, and again in the handler of the error: consumeMessage
\* puts the job back.  It would reject it after maxAttempts deliveries, but
\* nobody sets the header that it counts by.
TakeMalformed(w, j) ==
    /\ Deliver(w, j)
    /\ j \in Malformed
    /\ activeJobs[w] < MAX_CONCURRENT_JOBS
    /\ wire' = Write(w, "requeue", j)
    /\ UNCHANGED <<link, workerVars, results, historyVars>>

\* At capacity: the nack goes to the main channel, which never delivered the
\* job, and consumeMessage acknowledges the job on its own channel.  While the
\* connection is being closed the main channel may be closing, so that the nack
\* throws and the job is put back, or null: then there is no nack at all.
TurnAway(w, j) ==
    /\ Deliver(w, j)
    /\ activeJobs[w] >= MAX_CONCURRENT_JOBS
    /\ \/ /\ channel' = [channel EXCEPT ![w] = "failing"] \/ (closing[w] /\ UNCHANGED channel)
          /\ wire' = Write(w, "ack", j)
          /\ turnedAway' = turnedAway \cup {j}
       \/ /\ closing[w]
          /\ wire' = Write(w, "requeue", j)
          /\ UNCHANGED <<channel, turnedAway>>
    /\ UNCHANGED <<link, working, activeJobs, closing, results, dropped, breaks>>

\* The job is processed: its result is published, unless the channel for it
\* was closed, and the job is acknowledged in either case.
Finish(w, j) ==
    /\ j \in working[w]
    /\ link[w] = "up"
    /\ working' = [working EXCEPT ![w] = @ \ {j}]
    /\ activeJobs' = [activeJobs EXCEPT ![w] = @ - 1]
    /\ wire' = Write(w, "ack", j)
    /\ \/ results' = results \cup {j} /\ UNCHANGED dropped
       \/ closing[w] /\ dropped' = dropped \cup {j} /\ UNCHANGED results
    /\ UNCHANGED <<place, link, channel, closing, turnedAway, breaks>>

BrokerReads(w, f) ==
    /\ Read(w, f)
    /\ UNCHANGED <<workerVars, results, historyVars>>

-----------------------------------------------------------------------------
(* Stops and breaks *)

\* SIGTERM: stop() waits for the active jobs; RabbitMQService, which listens
\* to the signal too, closes the connection at once.
Signal(w) ==
    /\ link[w] = "up"
    /\ ~closing[w]
    /\ breaks < MaxBreaks
    /\ breaks' = breaks + 1
    /\ closing' = [closing EXCEPT ![w] = TRUE]
    /\ UNCHANGED <<brokerVars, working, activeJobs, channel, results, turnedAway, dropped>>

\* The process is gone, and with it all that it had in memory.
Ended(w) ==
    /\ Disconnect(w, "down")
    /\ working' = [working EXCEPT ![w] = {}]
    /\ activeJobs' = [activeJobs EXCEPT ![w] = 0]
    /\ channel' = [channel EXCEPT ![w] = "none"]
    /\ closing' = [closing EXCEPT ![w] = FALSE]

\* The connection is closed: RabbitMQService exits the process.
Exit(w) ==
    /\ closing[w]
    /\ Ended(w)
    /\ UNCHANGED <<results, turnedAway, dropped, breaks>>

\* The connection of w breaks: what w is processing goes on in vain.
LoseConnection(w) ==
    /\ link[w] = "up"
    /\ breaks < MaxBreaks
    /\ breaks' = breaks + 1
    /\ Disconnect(w, "lost")
    /\ UNCHANGED <<workerVars, results, turnedAway, dropped>>

\* The broker closes the channel for the nack of a delivery it does not know.
\* Nobody listens to the errors of a channel, so that the event is thrown where
\* the client reads its socket: this ends the connection, or the process.
ChannelCloses(w) ==
    /\ channel[w] = "failing"
    /\ link[w] = "up"
    /\ \/ /\ Disconnect(w, "lost")
          /\ channel' = [channel EXCEPT ![w] = "none"]
          /\ UNCHANGED <<working, activeJobs, closing>>
       \/ Ended(w)
    /\ UNCHANGED <<results, historyVars>>

\* The process dies, or has lost its connection and dies of the next
\* acknowledgement, which throws where nobody catches.
Crash(w) ==
    /\ \/ link[w] = "lost" /\ UNCHANGED breaks
       \/ link[w] = "up" /\ breaks < MaxBreaks /\ breaks' = breaks + 1
    /\ Ended(w)
    /\ UNCHANGED <<results, turnedAway, dropped>>

Next ==
    \/ \E j \in Jobs : Post(j)
    \/ \E w \in Workers :
          \/ Start(w) \/ ChannelCloses(w) \/ Signal(w) \/ Exit(w) \/ LoseConnection(w) \/ Crash(w)
          \/ \E f \in Frames : BrokerReads(w, f)
          \/ \E j \in Jobs : Take(w, j) \/ TakeMalformed(w, j) \/ TurnAway(w, j) \/ Finish(w, j)

Spec == Init /\ [][Next]_vars

\* Nothing in the process replaces a lost connection, and an idle process that
\* has lost it lives on: only one with a job in hand dies of it.
Dying(w) == link[w] = "lost" /\ working[w] # {}

\* A process that ended is started again, processing ends, the broker works, and
\* what is acknowledged again and again is read before the connection ends.  A
\* job gets its turn: jobs that are put back return to the head of the queue,
\* but there are fewer of them than the Prefetch a worker is handed at once.
FairSpec ==
    /\ Spec
    /\ \A w \in Workers :
          /\ WF_vars(Start(w)) /\ WF_vars(Exit(w)) /\ WF_vars(Dying(w) /\ Crash(w))
          /\ WF_vars(ChannelCloses(w))
    /\ \A j \in Jobs :
          /\ WF_vars(\E w \in Workers : Finish(w, j))
          /\ WF_vars(\E w \in Workers : BrokerReads(w, [kind |-> "requeue", msg |-> j]))
          /\ SF_vars(\E w \in Workers : BrokerReads(w, [kind |-> "ack", msg |-> j]))
          /\ SF_vars(\E w \in Workers : Take(w, j) \/ TakeMalformed(w, j))

-----------------------------------------------------------------------------
(* Properties *)

\* The variables keep their shape.
TypeOK ==
    /\ BrokerTypeOK
    /\ working \in [Workers -> SUBSET (Jobs \ Malformed)]
    /\ activeJobs \in [Workers -> Nat]
    /\ channel \in [Workers -> {"none", "open", "failing"}]
    /\ closing \in [Workers -> BOOLEAN]
    /\ results \subseteq Jobs \ Malformed
    /\ turnedAway \subseteq Jobs
    /\ dropped \subseteq Jobs \ Malformed
    /\ breaks \in 0 .. MaxBreaks

\* activeJobs counts the jobs that are being processed, on every path out of
\* the consumer, and there are never more than allowed; what is being processed
\* over a live connection is unacknowledged.
ActiveJobsExact ==
    \A w \in Workers :
        /\ activeJobs[w] = Cardinality(working[w])
        /\ activeJobs[w] <= MAX_CONCURRENT_JOBS
        /\ link[w] = "up" =>
              /\ working[w] \subseteq Unacked(w)
              /\ \A j \in working[w], f \in wire[w] : f.msg # j

Posted(j) == place[j] # "none"

Tasks == INSTANCE TaskQueue WITH
    Tasks <- Jobs,
    status <- [j \in Jobs |->
        IF j \in results THEN "done"
        ELSE IF ~Posted(j) THEN "absent"
        ELSE IF Alive(j) THEN "queued"
        ELSE "lost"],
    excused <- turnedAway \cup dropped

\* The worker implements the promise of a task queue, but for the jobs it turns
\* away at capacity and those that end while the connection is being closed.
ImplementsTasks == Tasks!Spec

\* Every worker has lost its connection with nothing in hand.
Stranded == \A w \in Workers : link[w] = "lost" /\ ~Dying(w)

\* Every job that is not malformed is processed in the end, if it is not turned
\* away and does not end while the connection is being closed: neither a
\* malformed job that is put back again and again, nor a connection or process
\* that ends with a channel, breaks, or is stopped keeps the others from their
\* turn, unless all the workers sit without a connection from some moment on.
EveryJobSettled ==
    \A j \in Jobs \ Malformed :
        Posted(j) ~> j \in results \cup turnedAway \cup dropped \/ []Stranded

=============================================================================
