---------------------------- MODULE Marketplaces ----------------------------
(***************************************************************************)
(* Things that are created at somebody else's: listings at Amazon, eBay    *)
(* and Walmart, shipping labels at USPS, each by a POST without an         *)
(* idempotency key inside one or two retry loops; and the quantities that  *)
(* are sent to the marketplaces for a listing.                             *)
(*                                                                         *)
(* A job is a "sync" message of MarketplaceSyncWorker, which is delivered  *)
(* again when its handler throws, a "bulk" request to                      *)
(* MarketplaceController, or a "label" request to ShippingController.  A   *)
(* loop is what one delivery of a job does for one platform.               *)
(***************************************************************************)
EXTENDS Integers, FiniteSets

CONSTANTS Jobs,
          Orders,             \* what the jobs may ask for
          MAX_RETRIES,        \* of npm's retry: one more attempt than retries
          USPS_ATTEMPTS,      \* of executeWithRetry
          Updates,            \* the last of the quantities 1 .. Updates
          MaxDeliveries,      \* bound: deliveries of a message
          MaxLate,            \* bound: abandoned calls of one update
          MaxCrashes          \* bound: deaths of the worker

Kinds == {"sync", "bulk", "shipping"}
Markets == {"AMAZON", "EBAY", "WALMART"}
Supplies == {"label", "pickup", "box"}      \* what USPS is asked for
Targets == Markets \cup Supplies

ASSUMPTION MarketplacesAssumption ==
    /\ Orders \subseteq [kind : Kinds, targets : SUBSET Targets]
    /\ \A r \in Orders : IF r.kind = "shipping"
                          THEN \E s \in Supplies : r.targets = {s}
                          ELSE r.targets \subseteq Markets
    /\ MAX_RETRIES \in Nat /\ USPS_ATTEMPTS \in Nat \ {0}
    /\ Updates \in Nat /\ MaxDeliveries \in Nat \ {0}
    /\ MaxLate \in Nat /\ MaxCrashes \in Nat

Loops == Jobs \X Targets \X (1 .. MaxDeliveries)

VARIABLES
    request,            \* how a job comes in, and what it is to create
    message,            \* a job's place in the queue; "none" for HTTP requests
    deliveries,         \* how often a job was handed out
    loop,               \* the retry loops
    told,               \* what an HTTP caller knows of a target
    entries,            \* what exists at a target on behalf of a job
    lost,               \* history: entries whose creator saw an error, or died
    update,             \* inventory messages, see UpdateStates
    late,               \* calls of an update that are out though nobody waits
    quantity,           \* the marketplace's quantity: the update it has last seen
    raced,              \* history: updates in whose handling a newer one began
    crashes

stock == <<update, late, quantity, raced>>
marketplacesVars ==
    <<request, message, deliveries, loop, told, entries, lost, stock, crashes>>

\* "handling": its call is out; "set": carried out, the answer on its way.
UpdateStates == {"queued", "handling", "set", "acked"}

MarketplacesTypeOK ==
    /\ request \in [Jobs -> Orders]
    /\ message \in [Jobs -> {"none", "queued", "handling", "acked"}]
    /\ deliveries \in [Jobs -> 0 .. MaxDeliveries]
    /\ loop \in [Loops -> [state : {"off", "ready", "posted", "done", "failed", "dead"},
                           outer : 0 .. MAX_RETRIES, inner : Nat]]
    /\ told \in [Jobs \X Targets -> {"nothing", "ok", "failed"}]
    /\ entries \in [Jobs \X Targets -> Nat]
    /\ lost \in [Jobs \X Targets -> Nat]
    /\ update \in [1 .. Updates -> UpdateStates]
    /\ late \in [1 .. Updates -> 0 .. MaxLate]
    /\ quantity \in 0 .. Updates
    /\ raced \in SUBSET (1 .. Updates)
    /\ crashes \in 0 .. MaxCrashes

Off == [state |-> "off", outer |-> 0, inner |-> 0]

MarketplacesInit ==
    /\ request \in [Jobs -> Orders]
    /\ message = [j \in Jobs |-> IF request[j].kind = "sync" THEN "queued" ELSE "none"]
    /\ deliveries = [j \in Jobs |-> 0]
    /\ loop = [l \in Loops |-> Off]
    /\ told = [t \in Jobs \X Targets |-> "nothing"]
    /\ entries = [t \in Jobs \X Targets |-> 0]
    /\ lost = [t \in Jobs \X Targets |-> 0]
    /\ update = [u \in 1 .. Updates |-> "queued"]
    /\ late = [u \in 1 .. Updates |-> 0]
    /\ quantity = 0 /\ raced = {} /\ crashes = 0

-----------------------------------------------------------------------------
\* The retry loops.  `outer` and `inner` count the attempts that have failed.

Job(l) == l[1]
Target(l) == <<l[1], l[2]>>
Attempts(l) == UNCHANGED <<request, message, deliveries, stock, crashes>>

\* An HTTP caller hears of the end of a loop, unless a breaker has answered.
Answer(t, result) ==
    told' = [told EXCEPT ![t] =
        IF request[t[1]].kind # "sync" /\ @ = "nothing" THEN result ELSE @]

Ends(l, state, result) ==
    /\ loop' = [loop EXCEPT ![l] = [Off EXCEPT !.state = state]]
    /\ Answer(Target(l), result)

\* handleListingCreation() calls the service again; nobody else does.
Outer(j) == IF request[j].kind = "sync" THEN MAX_RETRIES ELSE 0

\* An attempt has failed: the next attempt of the service, of which it repeats
\* `inner`, or the next call of the service, or the end of both.
Retry(l, inner) ==
    LET r == loop[l] IN
    \/ /\ r.inner < inner
       /\ loop' = [loop EXCEPT ![l] = [r EXCEPT !.state = "ready", !.inner = @ + 1]]
       /\ UNCHANGED told
    \/ /\ r.inner >= inner /\ r.outer < Outer(Job(l))
       /\ loop' = [loop EXCEPT ![l] =
                        [state |-> "ready", outer |-> r.outer + 1, inner |-> 0]]
       /\ UNCHANGED told
    \/ /\ r.inner >= inner /\ r.outer >= Outer(Job(l))
       /\ Ends(l, "failed", "failed")

\* Nothing is created: a rate limiter, a breaker or the other side refuses.
Refused(l, inner) ==
    /\ loop[l].state = "ready"
    /\ Retry(l, inner)
    /\ UNCHANGED <<entries, lost>>

\* A POST that is carried out: it is answered, or the answer does not arrive,
\* or not before the breaker's or the HTTP client's timeout.
Created(l, inner) ==
    /\ loop[l].state = "ready"
    /\ entries' = [entries EXCEPT ![Target(l)] = @ + 1]
    /\ \/ /\ loop' = [loop EXCEPT ![l].state = "posted"]
          /\ UNCHANGED <<told, lost>>
       \/ /\ lost' = [lost EXCEPT ![Target(l)] = @ + 1]
          /\ Retry(l, inner)

\* What follows the answer fails, and with it the attempt.
Undone(l, inner) ==
    /\ lost' = [lost EXCEPT ![Target(l)] = @ + 1]
    /\ Retry(l, inner)
    /\ UNCHANGED entries

Completed(l) == Ends(l, "done", "ok") /\ UNCHANGED <<entries, lost>>

\* AmazonService repeats the whole of createListing().  createListings() of the
\* controller calls it without data: a TypeError before any request.
AmazonAttempt(l) ==
    /\ l[2] = "AMAZON"
    /\ \/ Refused(l, MAX_RETRIES)
       \/ request[Job(l)].kind # "bulk" /\ Created(l, MAX_RETRIES)
    /\ Attempts(l)

\* It then publishes a message for a verification nobody consumes; what fails
\* is repeated with the submission.
AmazonVerification(l) ==
    /\ l[2] = "AMAZON" /\ loop[l].state = "posted"
    /\ Completed(l) \/ Undone(l, MAX_RETRIES)
    /\ Attempts(l)

\* Bug: an answer that never came counts as an answer.
BugEbayAttemptTrusts(l) ==
    /\ l[2] = "EBAY" /\ loop[l].state = "ready"
    /\ \/ Refused(l, 0)
       \/ /\ loop' = [loop EXCEPT ![l].state = "posted"]
          /\ UNCHANGED <<told, entries, lost>>
    /\ Attempts(l)

\* EbayService does not repeat.  It has no createListing() for the controller.
EbayAttempt(l) ==
    /\ l[2] = "EBAY" /\ loop[l].state = "ready"
    /\ \/ Refused(l, 0)
       \/ request[Job(l)].kind # "bulk" /\ Created(l, 0)
    /\ Attempts(l)

EbayRecord(l) ==
    /\ l[2] = "EBAY" /\ loop[l].state = "posted"
    /\ Completed(l) \/ Undone(l, 0)
    /\ Attempts(l)

WalmartAttempt(l) ==
    /\ l[2] = "WALMART"
    /\ Refused(l, 0) \/ Created(l, 0)
    /\ Attempts(l)

\* queueInventorySync() publishes; in the API process the queue service is not
\* initialized and every publication fails.
WalmartInventory(l) ==
    /\ l[2] = "WALMART" /\ loop[l].state = "posted"
    /\ \/ request[Job(l)].kind # "bulk" /\ Completed(l)
       \/ Undone(l, 0)
    /\ Attempts(l)

\* Bug: one attempt more than allowed.
BugUspsAttemptMore(l) ==
    /\ l[2] \in Supplies
    /\ Refused(l, USPS_ATTEMPTS) \/ Created(l, USPS_ATTEMPTS)
    /\ Attempts(l)

\* executeWithRetry() repeats the request after any error.
UspsAttempt(l) ==
    /\ l[2] \in Supplies
    /\ Refused(l, USPS_ATTEMPTS - 1) \/ Created(l, USPS_ATTEMPTS - 1)
    /\ Attempts(l)

\* The answer of USPS is checked for what was asked, outside of the loop: an
\* answer without it fails the request.
Checked(l, supply) ==
    /\ l[2] = supply /\ loop[l].state = "posted"
    /\ \/ Completed(l)
       \/ /\ lost' = [lost EXCEPT ![Target(l)] = @ + 1]
          /\ Ends(l, "failed", "failed")
          /\ UNCHANGED entries
    /\ Attempts(l)

Label(l) == Checked(l, "label")
Pickup(l) == Checked(l, "pickup")
Box(l) == Checked(l, "box")

-----------------------------------------------------------------------------
\* Jobs.

Current(j) == {l \in Loops : l[1] = j /\ l[2] \in request[j].targets /\ l[3] = deliveries[j]}

\* One loop for each target.
Run(j) ==
    /\ deliveries' = [deliveries EXCEPT ![j] = @ + 1]
    /\ loop' = [l \in Loops |->
                    IF l[1] = j /\ l[2] \in request[j].targets /\ l[3] = deliveries[j] + 1
                    THEN [loop[l] EXCEPT !.state = "ready"] ELSE loop[l]]
    /\ UNCHANGED <<request, told, entries, lost, stock, crashes>>

\* createListings(): each target behind the breaker of its platform.
CreateListings(j) ==
    /\ request[j].kind = "bulk" /\ deliveries[j] = 0
    /\ Run(j)
    /\ UNCHANGED message

\* The breaker answers for a target whose loop has not ended, either at once
\* since it is open or after its timeout: then the loop goes on.
BulkGivesUp(j, p) ==
    /\ request[j].kind = "bulk" /\ deliveries[j] = 1 /\ p \in request[j].targets
    /\ told[<<j, p>>] = "nothing"
    /\ Answer(<<j, p>>, "failed")
    /\ \/ UNCHANGED loop
       \/ /\ loop[<<j, p, 1>>] = [Off EXCEPT !.state = "ready"]
          /\ loop' = [loop EXCEPT ![<<j, p, 1>>].state = "failed"]
    /\ UNCHANGED <<request, message, deliveries, entries, lost, stock, crashes>>

\* The routes of ShippingController, each with a validation before it.
Ship(j, supply) ==
    /\ request[j].kind = "shipping" /\ supply \in request[j].targets /\ deliveries[j] = 0
    /\ Run(j)
    /\ UNCHANGED message

GenerateShippingLabel(j) == Ship(j, "label")
SchedulePickup(j) == Ship(j, "pickup")
RequestBoxDelivery(j) == Ship(j, "box")

\* The broker hands a message out to handleListingCreation().
ListingCreation(j) ==
    /\ message[j] = "queued" /\ deliveries[j] < MaxDeliveries
    /\ message' = [message EXCEPT ![j] = "handling"]
    /\ Run(j)

\* Bug: a worker takes the message of a slow handler for abandoned.
BugHandledImpatient(j) ==
    /\ message[j] = "handling"
    /\ message' = [message EXCEPT ![j] = "queued"]
    /\ UNCHANGED <<request, deliveries, loop, told, entries, lost, stock, crashes>>

\* The handler of a message ends: Promise.all() has all results, or rejects at
\* the first failure, while the other loops go on.  The consumer acknowledges
\* the message or puts it back.
Handled(j) ==
    /\ message[j] = "handling"
    /\ \/ /\ \A l \in Current(j) : loop[l].state = "done"
          /\ message' = [message EXCEPT ![j] = "acked"]
       \/ /\ \E l \in Current(j) : loop[l].state = "failed"
          /\ message' = [message EXCEPT ![j] = "queued"]
    /\ UNCHANGED <<request, deliveries, loop, told, entries, lost, stock, crashes>>

\* The worker dies, or is shut down, which waits for no handler, and its loops
\* with it: those that had an answer leave an
\* entry nobody knows of.  What was not acknowledged is queued again; what is
\* on the wire arrives all the same.
Dies(l) == request[Job(l)].kind = "sync" /\ loop[l].state \in {"ready", "posted"}

Crash ==
    /\ crashes < MaxCrashes
    /\ crashes' = crashes + 1
    /\ loop' = [l \in Loops |->
                    IF Dies(l) THEN [Off EXCEPT !.state = "dead"] ELSE loop[l]]
    /\ lost' = [t \in Jobs \X Targets |-> lost[t] +
                    Cardinality({l \in Loops : /\ Target(l) = t /\ Dies(l)
                                               /\ loop[l].state = "posted"})]
    /\ message' = [j \in Jobs |->
                    IF message[j] = "handling" THEN "queued" ELSE message[j]]
    /\ update' = [u \in 1 .. Updates |->
                    IF update[u] # "acked" THEN "queued" ELSE "acked"]
    /\ late' \in {f \in [1 .. Updates -> 0 .. MaxLate] :
                    \A u \in 1 .. Updates :
                        \/ f[u] = late[u]
                        \/ update[u] = "handling" /\ f[u] = late[u] + 1}
    /\ UNCHANGED <<request, deliveries, told, entries, quantity, raced>>

-----------------------------------------------------------------------------
\* The quantities of one listing, in the order in which they were published.

Sync(u, from, to) ==
    /\ update[u] = from
    /\ update' = [update EXCEPT ![u] = to]
    /\ UNCHANGED <<request, message, deliveries, loop, told, entries, lost, crashes>>

\* Bug: a quantity that could not be sent is put at the end of the queue, that
\* is, after the newer ones.
BugTakeUpdate(u) ==
    /\ Sync(u, "queued", "handling")
    /\ raced' = raced \cup {v \in 1 .. u - 1 : update[v] \in {"handling", "set"}}
    /\ UNCHANGED <<late, quantity>>

\* The broker hands out the oldest message that is queued; a message that was
\* put back is at the head again.
TakeUpdate(u) ==
    /\ \A v \in 1 .. u - 1 : update[v] # "queued"
    /\ Sync(u, "queued", "handling")
    /\ raced' = raced \cup {v \in 1 .. u - 1 : update[v] \in {"handling", "set"}}
    /\ UNCHANGED <<late, quantity>>

\* handleInventorySync() calls one of the platforms through its own breaker and
\* the one of the service.
SetQuantity(u) ==
    /\ Sync(u, "handling", "set")
    /\ quantity' = u
    /\ UNCHANGED <<late, raced>>

\* The answer arrives in time and the message is acknowledged.
InventorySynced(u) ==
    /\ Sync(u, "set", "acked")
    /\ UNCHANGED <<late, quantity, raced>>

\* A breaker refuses, the call fails, or the worker's breaker gives up after 30
\* seconds, and the message is put back.  No breaker stops a call: one to eBay
\* waits for its turn and may go out after that.
InventoryFailed(u) ==
    /\ \/ Sync(u, "set", "queued") /\ UNCHANGED late
       \/ Sync(u, "handling", "queued") /\ UNCHANGED late
       \/ /\ Sync(u, "handling", "queued")
          /\ late[u] < MaxLate
          /\ late' = [late EXCEPT ![u] = @ + 1]
    /\ UNCHANGED <<quantity, raced>>

\* A call that was given up arrives, whatever became of its message since, or
\* ends.
LateCall(u) ==
    /\ late[u] > 0
    /\ late' = [late EXCEPT ![u] = @ - 1]
    /\ quantity' \in {u, quantity}
    /\ UNCHANGED <<request, message, deliveries, loop, told, entries, lost,
                   update, raced, crashes>>

-----------------------------------------------------------------------------
MarketplacesNext ==
    \/ \E l \in Loops : \/ AmazonAttempt(l) \/ AmazonVerification(l)
                        \/ EbayAttempt(l) \/ EbayRecord(l)
                        \/ WalmartAttempt(l) \/ WalmartInventory(l)
                        \/ UspsAttempt(l) \/ Label(l) \/ Pickup(l) \/ Box(l)
    \/ \E j \in Jobs : \/ CreateListings(j) \/ ListingCreation(j) \/ Handled(j)
                       \/ GenerateShippingLabel(j) \/ SchedulePickup(j)
                       \/ RequestBoxDelivery(j)
    \/ \E j \in Jobs, p \in Targets : BulkGivesUp(j, p)
    \/ Crash
    \/ \E u \in 1 .. Updates : \/ TakeUpdate(u) \/ SetQuantity(u)
                              \/ InventorySynced(u) \/ InventoryFailed(u)
                              \/ LateCall(u)

MarketplacesSpec == MarketplacesInit /\ [][MarketplacesNext]_marketplacesVars

-----------------------------------------------------------------------------
\* Properties.

\* What createEbayListing(), createListing() and generateLabel() report and
\* what handleListingCreation() acknowledges is there: success is never
\* reported for a target where nothing was created.
AnswersTrue ==
    \A j \in Jobs : \A p \in request[j].targets :
        told[<<j, p>>] = "ok" \/ message[j] = "acked" => entries[<<j, p>>] > 0

\* A target has two entries of one job, made by the retries around a request
\* that creates something, only if an attempt that had created one was taken
\* for failed, or Promise.all() of handleListingCreation() has rejected because
\* of another target, or the worker has died before the acknowledgement.
DuplicatesExplained ==
    \A j \in Jobs : \A p \in request[j].targets :
        entries[<<j, p>>] > 1 =>
            \/ lost[<<j, p>>] > 0
            \/ \E l \in Loops : Job(l) = j /\ l[2] # p /\ loop[l].state = "failed"
            \/ crashes > 0

\* The loops multiply: one delivery of handleListingCreation() makes at most
\* (MAX_RETRIES + 1) listings at eBay and Walmart and, through the retries of
\* AmazonService inside its own, the square of that at Amazon; a request makes
\* at most as many labels as executeWithRetry() has attempts.
PostsBounded ==
    \A j \in Jobs, p \in Targets :
        entries[<<j, p>>] <=
            IF p \in Supplies THEN USPS_ATTEMPTS
            ELSE deliveries[j] * (Outer(j) + 1)
                 * (IF p = "AMAZON" THEN MAX_RETRIES + 1 ELSE 1)

\* syncInventory() replaces a newer quantity by an older one only if the older
\* message was being handled when the newer one was handed out, or by a call of
\* the older one that its handler had given up and that is still out: a breaker
\* that answers after its timeout does not stop the call, and the message may
\* long have been sent again and acknowledged.
StockGoesBackExplained ==
    [][quantity' < quantity => \/ quantity' \in raced
                               \/ late[quantity'] > 0]_marketplacesVars

=============================================================================
