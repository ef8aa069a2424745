# Verification of the EchoList backend

This directory holds TLA+ models of the backend in `src/backend/src` (all paths
below are relative to it unless they say otherwise), the TLC configurations that
check them, and proofs that TLAPS checks. `PROJECT.json` maps every definition to
the lines it models and lists the runs, the mutants, the hazards and the theorems.

Contents: [the system](#1-the-system) ·
[what is modelled](#2-modules-and-code) ·
[assumptions](#3-what-the-models-assume) ·
[runs](#4-runs-bounds-and-fairness) ·
[proofs](#5-proofs) ·
[what the models show](#6-what-the-models-show-about-the-code) ·
[not modelled](#7-what-is-not-modelled) ·
[what could come next](#8-what-could-come-next)

## 1. The system

EchoList is a marketplace: an Express API, run as a Node cluster, and four worker
processes that take messages from RabbitMQ. State that survives a process is in
a database, in Redis, at Stripe, at the marketplaces, and in durable queues. What a
process knows besides (breakers, retry counters, connected sockets, revoked
tokens, `isInitialized`, `activeJobs`) is in memory only.

Three mechanisms occur in nearly every component and interact badly with each other:

- *retry loops*, nested up to three deep, around calls that are not all idempotent;
- *opossum breakers*, whose timeouts answer the caller while the work goes on;
- *state that is read before an `await` and written after it*: fields of a singleton,
  rows of the database, cached copies.

| Component | State it keeps | Operations | Talks to | What is hard | What makes it correct |
|---|---|---|---|---|---|
| Payments: `payment.controller`, `payment.service`, `escrow.service`, `stripe.service` | loops, attempts, three breakers (memory); intents (Stripe) | create, hold, capture, release, refund, escrow refund | Stripe | lost responses, nested retries, timeouts that abandon calls, crashes, concurrent captures and refunds of one intent | "ok" is true; money moves twice, or behind an "error", only for a known reason; every caller is answered |
| BuyShield: `buyshield.controller`, `verification.service`, `escrow.service` | none of its own: a protection is what the caller passes | create, verify, cancel, status and expiry | escrow operations, image analysis | verification, cancellation and expiry of one hold at once; escrow calls that act after they failed, holds that expire | the seller is paid only after proof, the buyer is refunded only by a cancellation, replies stay true |
| RabbitMQ connection: `rabbitmq.service`, `queue.config`, `messageProcessing.worker` | `isInitialized`, `reconnectAttempts`, channel and pool, timers | initialize, subscribe, reconnect, two shutdown handlers | RabbitMQ | events during `initialize()`, two timers at once, shutdown during setup, double closing | no connection is forgotten, the flag is true, attempts are limited, shutdown ends |
| Notification worker | `retryCount` map, sends under way | deliver, send, retry as a new copy | RabbitMQ, FCM, SES, sockets | the order of acknowledgement and copy, lost connections, restarts | nothing is lost or sent twice without a reason; what can be sent is sent in the end while a worker has a connection |
| Image worker | `activeJobs`, main channel | take, finish, turn away, stop | RabbitMQ, image analysis | capacity against prefetch, a nack that ends the connection, malformed jobs, SIGTERM against active jobs | the counter is exact, jobs are lost only at capacity or while closing, every job is settled while a worker has a connection |
| Sockets and moderation: `socket.service`, `messagingAI.service`, `message.controller` | map of connected users, models, `isModelHealthy` | connect, disconnect, send, load, check, shutdown | AI models | two sockets of one user, timeouts of a breaker, models that are loaded meanwhile | who is registered is connected; a message has one outcome, which nothing revises |
| Marketplaces and shipping: `ebay`, `amazon`, `walmart`, `usps.service`, their controllers, `marketplaceSync.worker` | loops; listings, labels and quantities at the services | create listings, sync stock, buy labels, pickups, boxes | eBay, Amazon, Walmart, USPS, RabbitMQ | POSTs repeated by one or two loops, a second step that fails, redelivery, a crash before the acknowledgement, calls that arrive after they were given up | no success without an entry; no second entry and no older quantity without a reason; a bound on entries |
| Listings, search, cache: `listing.service`, `search.service`, `redis.service` | rows, cached copies, a breaker with timers | create, update, search, cache | database, Redis, OpenSearch, image analysis | handlers of one listing that cross, copies made before the row, timers of earlier failures | copies and analyses follow the row; the breaker stays neither open nor closed for no reason |
| Transactions: `transaction.service`, `transaction.controller` | row, cached copy | create, process, complete, cancel | payments, Redis, RabbitMQ | a payment between two writes, a breaker that gives up, crossing handlers | the row tells whether a payment intent was made, and names it; the copy follows the row |
| Accounts: `jwt.service`, `auth.controller`, `password.service`, `user.controller`, `user.model` | revoked tokens, attempts (one process each); rows with a security log | refresh, revoke, limit, update, delete | database | revocation in one process of several, timers that forget a whole count, handlers that write what they read | a token is refreshed once per memory, but by requests that overlap; limits hold but for the timer; the log loses nothing alone but its oldest entries |
| Server, cluster: `server.ts`, `app.ts` | workers, ports, connections, shutdown state | boot, fork, re-fork, drain, exit | OS signals | two handlers of one signal, exit codes that decide about a re-fork, one port for all | missing workers, requests and responses that are cut off have a cause; a signal ends everything |
| Layers of rules: validators, error handling, models | none | validate, convert, store | — | limits that three layers state each for themselves | what one layer accepts the next ones accept, and what was checked is what is used |
| AI models, object storage, migrations, configuration, encryption, logging | — | library calls, constants | — | — | — |

The components meet at four places: the escrow operations (BuyShield calls what
Payments offers), the queue and its connections (all workers), the cache, and the
process (signals, crashes). The first two are modelled as interfaces of their own,
`PaymentLedger` and `Broker`/`BrokerLink`, so that each side is checked against
the interface and not against the other side's details. The cache is part of
Catalogue and Transactions, where a copy meets its row; a crash is an action of every
module whose memory it ends, and Cluster says when there is one.

`PROJECT.json` lists the hazards of the code at the lines where they bite, each with
the properties that cover it.

## 2. Modules and code

```
StripeIntents  what Stripe's intents go through          Opossum  a circuit breaker
PaymentLedger  what the payment services promise    <=   Payments  the services
   used by     BuyShield                                 PaymentsInv its invariant
TaskQueue      what a consumer promises             <=   Notifications, ImageWorker (on Broker)
BrokerLink     what Broker assumes of a connection  <=   RabbitConnection
Messaging, Transactions, Catalogue (all on Opossum), Marketplaces, Accounts, Cluster, Schemas
```

`A <= B`: B implements A, proved for every case and, but for Notifications, also
checked as a PROPERTY of B's run. `MC...` modules only name constants for TLC;
`...Proofs` modules hold the theorems: ApiProofs those of Messaging, Cluster and Accounts,
ListingProofs those of Catalogue and Marketplaces, RowProofs those of Transactions and
Schemas, the others those of the module in their name. Names that such modules have in
common carry the component's (`ClusterInit`, `ClusterTypeOK`, `ClusterSpec`). Operators
named `Bug...` are not part of a model: each stands before a definition and is that
definition with a plausible bug, so that a property can be seen to notice it.

### Payments

One request is one HTTP call of an operation that PaymentController or EscrowService
offers. `svc` and `round` are the loop of `PaymentService.retryOperation`
(`payment.service.ts:283`) or `releaseEscrowFunds` (`escrow.service.ts:112`),
`call[r][k]` is the `StripeService.retryOperation` (`stripe.service.ts:352`) that
round k started, `pending` the fires of opossum breakers that still run, and
`ledger`, `effects` Stripe's side. `Outer` and `Inner` say which breakers stand
around the loop and inside it: creations go through the controller's and the
service's, captures and refunds through the controller's, and the escrow breaker is
inside the loop of releases.

- `Arrive`, `Invalid`: the controller up to validation. `StartRound`, `Rejected`:
  the next round, or a breaker that refuses it. `Execute`, `Succeed`, `Fail`,
  `Lose`, `Retry`: one attempt at Stripe, its response, its loss, the back-off.
- `OuterTimeout`, `InnerTimeout`: a breaker gives up. Nothing is cancelled: the loop
  (outer), or the attempt (inner), goes on, and an inner timeout starts the next
  round beside it.
- `Crash`: all loops, timers and breakers are gone; an attempt on the wire becomes
  a stray that Stripe still executes, or does not.

`PaymentLedger` is the promise without any of this: a request is answered once, "ok"
only after money moved, and money moves only the way the operation says and only for
requests that were not told "ok".

### BuyShield

Calls of the four operations of BuyShieldController. The escrow operation of a call
is one of PaymentLedger (`Escrow == INSTANCE PaymentLedger`): it may act at any
time after it was asked, also after it failed. `Sent` is the set of the
protection's fields that callers pass on; nothing stores a protection, so what an
operation knows of it is what it gets. `Decide` is the decision of
`verifyTransaction` (`verification.service.ts:96`), `GetProtectionStatus` includes
`checkEscrowExpiration` (`escrow.service.ts:196`), whose refund nobody reaches: it wants a
status, and the controller (`buyshield.controller.ts:238-242`) passes none.

### Broker, BrokerLink, RabbitConnection

`Broker` is a durable queue with its consumers' connections: where each message is
(`place`), the frames a worker wrote that the broker has not read (`wire`), and the
connections (`link`). Publishing and acknowledging use different channels of one
connection, so frames are read in any order; what is unread is lost with the
connection, and what is unacknowledged is ready again.

`RabbitConnection` is one worker process with its RabbitMQService, from the first
`initialize()` to the end of the process. `init[c]` is where the c-th
call of `initialize()` stands (`Connected`, `ChannelOpens`, `Asserted`, `Pooled`
are its awaits), `field` what the service's fields refer to and `object` in which
state that is: they differ as soon as two calls overlap. `Lose` sets one or two
timers, for "close" and "error"; `TimerFires` calls `initialize()` again;
`Interrupt`, `Terminate`, `Closes`, `Reports` are the two shutdown handlers, each of
which closes pool, channel and connection in this order and dies when it closes
something twice. `BrokerLink` is what Broker assumes of it: one connection per
process, which is never repaired.

### Notifications

`Process`, `Send`, `Succeed`, `Fail` are `processNotification`
(`notificationSender.worker.ts:122`), the channel's side of the send, and
`handleNotificationError` (:227), each with what `consumeMessage` does around it. A
message is a pair of a notification and a copy: `publishMessage` gives every copy
an id of its own, and `retryCount` counts by it. What is no JSON or has an unknown type
(`Unsendable`) can only `Fail`, each time with a new copy. `LoseConnection` and `Restart`
break things; a worker that has lost its connection with something in hand is `Dying`: its
next acknowledgement throws where nobody catches.

### ImageWorker

`Take`, `TakeMalformed`, `TurnAway`, `Finish` are the consumer of
`imageProcessing.worker.ts:99-144` with `processImage` and the acknowledgement.
`Signal` and `Exit` are the two SIGTERM handlers of the process: the worker's
waits for active jobs, the one of RabbitMQService closes the connection and exits.
`ChannelCloses` is the broker's answer to the nack of `TurnAway`, which goes out on a channel
that never delivered the job: no channel has a listener for "error"
(`rabbitmq.service.ts:70`, `:281`), so the event is thrown inside amqplib, which gives up the
connection, or it ends the process. Which of the two is a choice of the model.

### Messaging

One API process. `connectedUsers` is the map of SocketService, `socket` the sockets
themselves: `Connect` overwrites the user's entry and `Disconnect` removes it, whichever
socket it names. A message goes by socket or HTTP (`Send`), each through a breaker
of its own; while the sender waits it is `waiting`, and `Result` and `TimeOut` decide
what it is told. The analysis goes on after a timeout, so `stage` still moves.
`BootLoads`, `MessageLoads` load the two models, `HealthCheck` is the interval of
`performHealthCheck`, which takes models for healthy that were never loaded.

### Marketplaces

A job is a queued listing job, a bulk request or a shipping request, and a loop is what
one delivery of it does for one platform. `AmazonAttempt`, `EbayAttempt`,
`WalmartAttempt`, `UspsAttempt` are one POST with its outcome: created, created and
the answer lost (`lost`), or refused; `Retry` says which of the two nested loops goes
on. `AmazonVerification`, `EbayRecord`, `WalmartInventory` are the second steps.
`ListingCreation` and `Handled` are the worker's delivery and its `Promise.all`,
`CreateListings` and `BulkGivesUp` the bulk route, `Ship` the shipping routes.
`TakeUpdate`, `SetQuantity`, `InventorySynced`, `InventoryFailed` are inventory messages,
whose handlers run beside each other. The worker's breaker gives a call up after 30 s
(`marketplaceSync.worker.ts:197`, `:250`) while eBay's own may take 60 s
(`ebay.service.ts:19`, `:48-57`, `:191`): such calls are counted in `late` and arrive at any
later time (`LateCall`), also after their message was delivered again and acknowledged.
`Crash` ends loops, leaves jobs to be delivered again, and may leave calls on the wire.

### Cluster

The primary and its workers with everything `app.ts` and `server.ts` do in each:
`Boots`, `Listens` (the port is given to listeners of one kind only, `Taken`),
`Initialized`, `InitializationFails`, `Throws`, `Connection`. A signal starts two
handlers: `Drain` of server.ts, which ends every socket, so that requests are cut off and
responses that were written still leave (`Drained`, `TimesOut`), and the one of app.ts, which
exits when the database is closed (`DatabaseClosed`). `Killed` is a worker that dies at any
time of a kill or of its memory. `Reap` is the primary's "exit" event, which forks again
unless the code was 0; `Orphaned` is a worker whose primary is gone.

### Accounts

`tokenBlacklist`, `attempts` and `timers` are one per process and die in `Restart`; the
rows with their security log are shared. A refreshed token has an `origin`: which token,
in which process, in which life of it. `RefreshAccessToken` checks the token and `Revoke`
blacklists it, with awaits of `jwt.service.ts:186-213` between them. `Attempt` is the decorator `RateLimited`, whose
timers (`AttemptExpires`) each empty the whole count. `UpdateUser`, `UpdatePreferences`,
`DeleteUser` read a row, and write it (`WriteLog`, `SaveLog`) after an await, with the
hooks of the model, which log too and keep the first `LOG_LIMIT` entries (`Capped`,
`user.model.ts:248`).

### Transactions

A row, its copy in Redis and the payment intent of a transaction. `CreateTransaction`, `Fire`,
`IntentCreated` / `Declined` / `TimeOut`, `Update`, `CacheTransaction`,
`PublishTransactionEvent` are the steps of `createTransaction`, which makes an intent, does
not confirm it (`stripe.service.ts:93-106`) and drops its client secret; the other
operations `Read` (the copy if there is one) and go on from `Update`, `CacheTransaction`.
What calls a method that does not exist throws there.

### Catalogue

Handlers of listings and searches over one Redis. A handler stands at `read`, `images`,
`sync`, `cache`: `CreateListing`, `UpdateListing`, `GetListingById`,
`ProcessListingImage` (concurrent), `SaveListing`, `SyncWithMarketplaces`, and
`CacheListingData` for each of its two keys. `images` and `ai` of a row are the images it
shows and those its analysis is of; `priced` are those that its price and categories were
suggested from. `SavedRow` is the spread of `listing.service.ts:124-127`: the new analysis
replaces the old one field by field. An image may fail to be analysed or to be read back from
the cache (:163), and a search to read the cache (`search.service.ts:244`). A search goes through its opossum breaker
(`Fire`, `ExecuteSearch`, `Reset`), then through `set()` of RedisService (`Set`,
`Exec`). `UpdateCircuitBreaker`, `ClientError`, `Ready`, `HealthCheckFails`,
`TimerFires` are the breaker that RedisService builds itself.

### Schemas

No protocol, but three layers of rules for the same data. A form is the data of one
request at the limits; `Validate` (`Accepted`, after `Converted`: escaping and rounding),
`Handle` (`Taken`, `Handled`) and `Store` (`Stored`) are validator, service and model of
listings, updates, transactions, messages and registrations, each translated from its own
file, and of changes of a profile, of preferences, of a transaction (`"step"`) and of a
message's status (`"receipt"`), whose handlers fail before they store anything. `SendBack`
sends a stored update once more.

## 3. What the models assume

*The services, not the application.* `app.ts` mounts no router but `/health`,
SocketService's `io` is attached to no server, some imports name exports that their
library does not have, and several methods are called that no class defines. The models
start at the controllers' and services' methods and take every library the way the code
uses it. External parts (Stripe, opossum, RabbitMQ, amqplib, Node) are marked `external`
in the map.

*Payments.* Payment ids are unique, as the controller makes them. A hold counts as
authorised: the client secret is dropped by the code. The breakers' error window is
abstracted: any failure may open a closed breaker. The 5 s and 10 s timers fire in any
order. Partial captures are not distinguished. A refused argument (a missing id, or
metadata that makes a TypeError) is a failed attempt that is not retried. Retries of
the Stripe SDK are inside one attempt. Stripe may execute or refuse the refund of a
hold. A second hold whose first response was lost leaves the first one behind, with an
id nobody knows; it is counted in `effects` and has no place in `ledger`.

*BuyShield.* Old holds come from earlier runs and are known to their buyers.
`expiresAt` is whatever the client echoes, which is why `expired` is per hold and
`Known` what callers can name. A photo below 0.7 fails inside the analysis. Of the
escrow operations only PaymentLedger is used, so each verdict holds for every
implementation of that promise.

*Broker.* What ended is started again: Compose (`docker-compose.yml`, `restart:
unless-stopped`) and ECS (`.github/workflows/backend-cd.yml`) restart a process that exited,
and only that. Message TTL and queue length limits drop nothing here. Frames are cut off at
a disconnect even when the process closes in good order, which allows more than
really happens. No queue is bound to `dlx.notifications` or to the image worker's
results: what goes there reaches nobody. Copies reuse a bounded set of ids: a reused id
starts with a fresh count, as a random one would.

*Workers.* The notification worker never calls `initialize()` itself: the process that
starts it does, once. The rate limiters and breakers of the notification channels are
part of "the attempt fails". Retries of image jobs go to an exchange that does not
exist and are left out. Malformed jobs are fewer than `Prefetch`. Frames that were written
before the broker closes a channel may still be lost with the connection, but not each time.

*RabbitConnection.* One pool channel stands for all of the pool. The connection emits
"close", and "error" before it unless the broker was told to close it. A channel that waits
for the confirmation of its closing when the connection is lost waits for ever. A
second closing of a thing throws, and the process then exits with an error, from the
handler that catches it or as an unhandled rejection. A refused declaration counts as a
lost connection. The end of the process is final: a restart is a new behaviour, and
Broker's restart. The heartbeat only logs.

*Messaging.* The HTTP path ends after the analysis in `publishMessage`, which throws
because the API never initializes RabbitMQService. `Result` takes any verdict: the scores
are the models'. `shutdown()` of SocketService has no caller and is modelled nonetheless.

*Marketplaces.* The sync worker's `start()` throws, for a `setupDeadLetterQueue` that
does not exist; its handlers are modelled as they would run. `handleListingUpdate` sends
placeholders and is left out. Requests that fail before anything is sent (eBay has no
`createListing`, Amazon gets its arguments in the wrong places) fail always. Walmart's
breaker is of a library whose `run` never reports a success: every call ends as a timeout.
Requeued messages come back at most `MaxDeliveries` times here.

*Cluster.* Node gives one address and port to one kind of listeners. A worker's
`process.exit` in a handler ends it at once; exit codes are as Node reports them, null for a
signal without a handler.

*Accounts.* No token and no user can be created through the API (`jwt.sign` throws for
claims that are given twice; a hook calls a function that is not exported), and
`auth.middleware` does not compile: the token service is modelled as its unit tests use
it, users exist. Timers of attempts fire in any order.

*Transactions.* `TransactionModel.create` is taken as in the unit tests: it resolves. That
the real schema refuses every row is the subject of Schemas. An id is known to others once
its creation was answered. The two awaits of `getTransaction` are one step.

*Catalogue.* What `listing.service.ts` announces and does not define, and what Redis
and S3 services lack, is modelled from the calls and the unit tests. The sync route, which
passes an id where a listing is expected, is left out. `exec()` resolves although its
commands failed. Keys of two searches differ.

*Schemas.* A text is its length and how many of its characters escaping lengthens;
numbers are in thousandths. Middlewares of the validators are as written, though
`validation.middleware` imports a module that does not exist: its cache and its timeout
change nothing, since Joi answers at once.

## 4. Runs, bounds and fairness

| Run | Question | Bounds |
|---|---|---|
| `payments_alone` | one request of any operation against retries, timeouts, lost responses and a crash | the real 3 rounds of 3 attempts, 1 crash, one old intent that is held or captured, worth 2 so that partial refunds exist |
| `buyshield_services` | create, verify, cancel and expire at once, callers that pass the ids the controller asks for | 3 calls on one old hold and those that are created, Stripe acts at most twice per call |
| `notifications_breaks` | one notification that can be sent and one that cannot, two workers, lost connections and restarts | 2 live copies of each, prefetch 1, the real 3 retries, 2 sends, 2 breaks |
| `image_breaks` | three jobs, one malformed, two workers | capacity 1 below prefetch 2, so that jobs are turned away and channels closed, as often as it happens; 1 lost connection, crash or stop from outside |
| `rabbit_life` | one process from start to exit | 4 connections, 2 of the real 3 attempts |
| `messaging_chat` | sockets, two ways to send, models that load or fail | 2 users with 2 sockets and 1, 2 messages to the one with 2 |
| `marketplaces_jobs` | one job of any kind for any platforms, and two updates of one quantity | 1 retry (2 attempts) per loop, 3 attempts at USPS, 2 deliveries, 1 crash, 1 call of each update out after it was given up; AMAZON alone, or EBAY and WALMART |
| `cluster_life` | boot, failures and both kinds of signal | 2 workers, 3 forks, SIGTERM (handled) and SIGQUIT (not handled), any deaths; the connections of the first worker |
| `accounts_memory` | tokens, attempts and profiles | 2 processes, 1 user, 2 attempts, 4 requests, 1 restart, a log of 2 entries for the real 100; symmetry of processes |
| `transactions_rows` | handlers of one or several transactions | 3 requests, 1 older row, 1 crash, 1 expired copy; symmetry of requests |
| `catalogue_requests` | two handlers or searches over a cache that fails | 2 images, 2 requests, threshold 2, 4 events; symmetry of images |
| `schemas_forms` | every form at both sides of every limit | an update is sent up to 3 times |

*Why this is enough.* The retry counts of `payments_alone` are those of the code; its
hazards are between a request and its own leftovers, and what two requests do to
one intent the theorems cover, for any number of them. In BuyShield three calls cover every
pair of operations after a creation. Two copies of a notification are alive at
once when the broker has read the copy and not the acknowledgement, each with a worker of
its own; no break may leave both copies of the one that cannot be sent alive, since it would
have no id for the next. Two breaks strand both workers. Capacity 1 with prefetch 2 makes every path of the image worker happen.
`maxAttempts + 1` connections are all a process can open before it shuts down (proved), and
the fourth is for a timer that fires during the shutdown. Two sockets of one user are what
it takes to remove a newer entry, and two messages meet in the breakers and the models. Two
attempts per loop tell a first from a repeated one, and a bound that multiplies from one
that adds; two updates cross, and one late
call per update is what brings the older quantity back. Two entries of a log make an update,
which logs twice, push out whatever is older. A third fork is the one that replaces a worker during the
shutdown. Hazards of rows and copies are between two handlers of one row, and the third
transaction request completes or cancels what they made. Two processes, each with and
without a restart, are every way to meet a memory that does not know. Two failures reach
the threshold, and two more are those whose timers come too early. A form is checked alone,
so bounds there are the limits of the code themselves. What the runs show for these numbers
the theorems show for all, where there is one.

`MaxMoves`, `MaxSends`, `MaxBreaks`, `MaxCrashes`, `MaxExpiries`, `MaxLate`, `Serving`,
`MaxEvents`, `MaxRequests`, `MaxRestarts`, `MaxForks`, `MaxDeliveries`, `MaxSent`,
`Updates`, `Copies` and `Conns` are bounds of the models, guards that stop a counter, and
are named as such where they are declared.

*Deadlock* is not checked: all requests may be answered, all messages handled, the process
may have ended. That nothing is stuck before is what the liveness properties say.

*Fairness.* `TimedSpec` (Payments): the process's own loops and timers run; Stripe owes
nothing, so that `EveryRequestAnswered` holds even if Stripe never responds; it rests on
the breakers' timeouts alone.
`BuyShield!FairSpec`: the analysis breaker times out and an escrow operation fails when
nothing else happens, which is what `EveryRequestAnswered` established.
`Notifications!FairSpec`: a process that ended is started again, and one that has lost its
connection ends if it has something in hand; an idle one is never made to end, because
nothing in the code or around it does. The broker reads and hands out what it has (strong
fairness: a message may be with a worker that breaks, again and again), and a channel
delivers in the end what can be sent; what cannot circulates for ever. Hence the last
disjunct of `EveryNotificationSent`: all workers may sit without a connection for good.
`ImageWorker!FairSpec`: the same, processing ends, and an acknowledgement that is written
again and again is read some time (strong fairness: the connection may end before).
`RabbitConnection!FairSpec`: the broker confirms what it is asked to close, and the last
report ends; nothing forces connections to succeed or timers to fire.
`MessagingFairSpec`: the breakers' timers fire; analysis and loading owe nothing.
`ClusterFairSpec`: the database pool of the primary closes, or fails to, and a worker
notices that the channel to its primary is closed. The other modules state no liveness: their
requests end with the libraries they call.

Every property of a run has a mutant in `PROJECT.json`: a definition of the code with
a plausible bug with which TLC finds that property violated.

## 5. Proofs

All theorems hold for every value of the constants that satisfies the named assumptions
of their module (`PaymentsAssumption`, `BuyShieldAssumption`, ...): sizes are natural
numbers, limits positive where the code's are, sets of ids disjoint, `None` is no value.
None of them assumes fairness.

**PaymentsProofs.** `TypeCorrect`, `OkIsTrue`, `DuplicatesAreExplained`,
`ErrorsAreExplained`, `CreationIsIdempotent`, `OkIsQuiet`, `ImplementsTheLedger`. None of the
properties is inductive. `IInv` (in PaymentsInv, which `MCPayments` extends) adds, per
request: where the loop can stand given its pending fires (`Control`); that a request
which no escrow timeout overlapped has at most one attempt under way (`Sequential`),
so that each execution but one was lost (`Accounted`); that an answer which nothing cut
short leaves nothing under way (`Settled`); that callers name only intents they
know (`Targeted`), so that an intent under creation is touched by its creator only
(`OwnIntent`); and that what was executed shows in the intent (`Shown`). Releases are
the exception throughout: their rounds may overlap after a timeout. There the duplicates
are excluded by Stripe, which captures a held intent once.

**BuyShieldProofs.** Type correctness and `PaidOnlyAfterProof`, `ReturnedForCause`,
`RepliesTrue`. The invariant says which escrow operation a call may have asked for and why
(`Asked`), that its effect shows in the hold (`Shown`), and that a hold was moved
on behalf of some call (`LedgerOK`). The proof uses of the escrow operations only the
actions of PaymentLedger.

**NotificationsProofs.** Type correctness, `LossExplained`, `DuplicatesExplained` and
`ImplementsTasks`. The invariant ties frames to places: a worker acknowledges only what it
holds and is done with (`WireAt`), a count above zero belongs to an id that is done with
(`CountOK`, why the retry limit drops nothing), and what was posted is sent, cut, or has a
copy which no acknowledgement on its way can remove (`Safe`, `Kept`). For the duplicates it
counts what may still reach the receiver: sends that happened, sends under way (`Begun`) and
copies that wait (`Queued`) are together at most one more than the troubles (`PaidFor`).
A break turns the copies a worker holds into waiting ones, and counts each as a trouble.

**ImageWorkerProofs.** Type correctness, `ActiveJobsExact` and `ImplementsTasks`. A worker
answers the broker once about a job, and only when it holds the job and no longer
processes it (`WireAt`); what is processed over a live connection is held (`HeldOK`), so a job
that is delivered is not counted yet; what it acknowledges is settled, and what left the
queue is (`SettledOK`), so the excuse comes before the loss. A channel that takes the
connection with it gives back what the worker held, as any end of a connection does
(`DisconnectInv`).

**RabbitProofs.** `RabbitTypeCorrect`, `StraysAreExplained`, `InitializedIsUsable`,
`AttemptsAreLimited`, `LinkIsImplemented`. The invariant has three independent parts.
`LinkInv` with `StartInv`: start() awaits its own initialization exactly as long as that runs,
and a connection is nothing before `connect()` resolves; as connections never re-open
(`ConnectionSteps`), the worker's link only goes down, up, lost, down. `CountInv`: as
long as the service is not initialized, connections plus timers stay within the
attempts plus one, because a timer turns into at most one connection. `TidyInv`: until two
initializations meet, the fields belong to the one that runs, or to the last one, and
what a handler closes is what the field refers to. Here `overlapped` is a history
variable, and the guard of `initialize()` is what the proof cannot use: it is read
before the awaits and the flag set after them.

**ApiProofs: Messaging.** Type correctness, `RegistryTrue`, `UnscoredExplained`,
`OutcomeIsFinal`. The invariant says that a user with two open sockets is one of those who
had two (`TwoOpen`), that models are called healthy without having been loaded only by the
health check (`HealthOK`), and where an analysis stands given what its message knows
(`Tracked`).

**ApiProofs: Cluster.** Type correctness, `WorkersExplained`, `CutExplained`. Both
properties speak of workers that are gone, and a worker that is gone was once one of four
other things: `WorkerInv` says that it is forked once and ends once, that it drains for a cause
which stays, that the database is closed only in a worker that drains after a signal, and
that what is on its way to it the primary was sent. What is cut off is either a request, when
the draining begins and has its cause, or what is still open when the worker ends, and then its
code tells (`ExitStep`). Counting is the other half: a fork and an
exit that is noticed move one worker between the two sets whose sizes `WorkersExplained` adds
(`ReapStep`), and every other step leaves both sets as they are (`QuietStep`, `ExitStep`).

**ApiProofs: Accounts.** Type correctness, `RefreshOnce`, `AttemptsExplained`,
`LogLossExplained`, and `DeletedStays`, an action property: no handler writes back the
`active` it has read. The invariant has a part for each. `TokenInv`: a refresh
that is done is in the memory of its worker as long as that lives, so one that begins after
it sees it: those of one worker and life have both passed the check before either was done.
`CountInv`: as long as no timer has emptied a count, it has all attempts with a timer; the
limit then bounds the timers, too. `LogInv`: of two running handlers of one user both are
known to be concurrent, and the entry of one that finished alone is in the log *and in every
copy that a running handler holds*, or pushed out of it by entries that are not older (`Keeps`).
Without the copies the invariant would not be inductive: it is they that are written.

**ListingProofs: Catalogue.** Type correctness, `BreakerTimed`, `SearchLostExplained`,
`AnalysisOfImages`, `ListingCacheExplained`. Three parts that share only the number of
requests.
`RInv`: failures and timers stay within what happened (`Counters`), and a search has its
answer before its place in the cache (`Tracked`). `LInv`: where a handler stands tells what it
has done (`Staged`); an update names a listing whose creation is over (`Linked`); and of the handlers of a listing that were
neither crossed nor stopped, at most one is between the row and its copies, and it has what
the copies lack (`Copies`). `DInv`: rows and copies are `Derived` from the images they show,
and so are the rows that a handler has read and is about to save, whatever the others do.

**ListingProofs: Marketplaces.** Type correctness, `AnswersTrue`, `DuplicatesExplained`,
`PostsBounded`, `StockGoesBackExplained`. The bound rests on `EntryInv`: a loop only
moves forward through its attempts (`Past`), an attempt creates at most one entry, so the entries
of a target are at most the attempts made for it (`Made`), a subset of deliveries x outer x
inner attempts, whose size is the bound (`FS_Product`). For the duplicates, as long as nothing
was lost and nobody died, the loop that has created an entry knows of it, and a message is
delivered again only after one of its loops has failed (`JobInv`). A loop creates once at
most without losing its answer, so the second entry has a second delivery, whose first had a
loop that failed, and not the one that had created. Of quantities `StockInv` says more
than the property: whatever is older than one that was handed out is acknowledged or raced,
or still out as a call that was given up.
All steps of one loop are instances of one schema (`Turn`), for which the invariant is
proved once.

**RowProofs: Transactions.** Type correctness, `IntentMatchesRow`, `StaleExplained`, and
`SettledStays`: no creation overwrites what a later handler made of its row. The invariant
follows a creation through its steps, payment and row together (`MoneyInv`); no row, and no
copy that a cancellation can read, is without an intent to refund first (`RefundInv`); and
all rests on
this: a transaction is named by others only after its creation was answered, so that until
then nobody else touches its row, and its copy belongs to the handler that wrote last
(`CopyInv`).

**RowProofs: Schemas.** Type correctness, `LayersAgree`, `CheckedIsUsed`, `SentBackAccepted`,
for every form of the nine types and not only those at the limits. The invariant says at each
stage that the rules before it have held, or have failed; the theorems are then facts about
the rules: `HandlersAgree` and `ModelsAgree` compare layer with layer, `TakenIsChecked` what is
used with what was checked, `PlainUpdates` what escaping does. They rest on one lemma per
type that says what `Converted` and `Taken` make of it, and on the arithmetic of rounding
(`RoundedCents`). That a form stays a form (`TakenForm`) makes them apply to one that is sent
back any number of times.

*Proved, not in a run*: `OkMeansDone`, `OneIntentPerCreate`, `QuietAfterOk` of Payments,
`LossExplained` and `ImplementsTasks` of Notifications,
`InitializedMeansUsable`, `AttemptsLimited`, `SettledStays`, and every `TypeOK` of these
modules.

*Only model-checked*: the liveness properties (`EveryRequestAnswered`, `EveryCallReplied`,
`EveryNotificationSent`, `EveryJobSettled`, `ShutdownEnds`, `EveryMessageSettled`,
`ClusterEnds`), which are out of the prover's reach. Every other property of a run is
proved.

## 6. What the models show about the code

Each of these is a behaviour of a model, met while translating the code or in a
counterexample to a first, stronger version of a property; the property in the run says under
which condition the code does it.

Money:

- A hold (`stripe.service.ts:148`) and a refund (:222) are repeated without an
  idempotency key: `DuplicatesExplained` is a bound and not "at most once".
- `stripe.service.ts:380` retries connection, rate-limit and lock errors only: a
  creation that meets status 500 is attempted once, while
  `tests/integration/payment.test.ts:241-244` expects retries.
- `buyshield.controller.ts:77` passes the transaction id only as `id`, so
  `validatePaymentData` refuses every hold that comes through the controller; and the
  controller passes no status either (:238-242), so that `checkEscrowExpiration`, "automatic
  refund" (`escrow.service.ts:192`), never refunds: the caller hears "expired" and the money
  stays held. `ReturnedForCause` says that only a cancellation returns it.
- Nobody stores or checks the status that the protection's model makes final: a
  sale that was paid can be refunded by a cancellation. `verification.service.ts:142`:
  a valid photo between 0.7 and 0.9 is approved without a release.
- No transaction is ever charged: `createTransaction` makes a payment intent, which the service
  reports as PENDING (`payment.service.ts:82-89`), and drops the client secret that somebody
  would need to confirm it. PAYMENT_PENDING and COMPLETED stand for an intent that was created
  (`IntentMatchesRow`). One whose process dies, or whose second write of the row fails, leaves
  its intent behind a row that does not name it. Completions of local pickups and
  cancellations always fail, for methods that do not exist.

Queues and connections:

- The limit of notification retries never applies, because every copy has an id of its own.
- A notification that is no JSON, or whose type is unknown, circulates for ever
  (`notificationSender.worker.ts:124`, `:147-148`): each copy fails and is published again.
- An image job that comes at capacity is not requeued but acknowledged. The nack goes
  to a channel which did not deliver it, the broker closes that channel, and because nobody
  listens to its errors the connection, or the process, goes with it: every sixth job at once
  costs the worker its connection.
- After a lost connection the timers call `initialize()`, which returns at once;
  nothing resets `isInitialized`. A worker that has lost its connection with something in hand
  dies of the next acknowledgement and is started again; one that was idle sits there until
  somebody restarts it, and so may all of them (`Stranded` in `EveryNotificationSent` and
  `EveryJobSettled`). One whose first setup fails may be initialized later, by a timer, but
  never subscribes: `start()` has thrown.
- SIGTERM of the message worker after its initialization always exits with an error:
  two handlers close the same channels. Only SIGINT is graceful, unless the
  connection is lost in the middle (`ShutdownEnds`).
- RabbitMQService's SIGTERM handler exits the image worker while `stop()` waits for
  its jobs (`imageProcessing.worker.ts:153`).

Messages, listings, accounts:

- The late "disconnect" of an old socket removes the entry of the new one
  (`socket.service.ts:250`). A blocked message is delivered all the same, and
  "delivered" is logged though nobody heard. After a failed load one health check is enough
  for every message to be approved unseen, and the models are not loaded again.
- A message that is sent by HTTP always ends in an error: publishing throws.
- Two loops around one POST make up to four listings per delivery at two attempts each; a
  bulk request reports no success for any platform. Inventory handlers that cross leave the
  older quantity, and so does a call to eBay that goes on after the worker's breaker has given
  it up: it may arrive after its message was delivered again and acknowledged, and after a
  newer quantity was set. USPS retries a purchase whose answer was lost, but not one whose answer
  was not valid, which is thrown outside the loop.
- Each update of a listing replaces the analysis of the earlier images by that of the new
  ones, field by field, while the price and the categories stay those that the images of the
  creation suggested (`AnalysisOfImages`). Updates that cross leave copies that differ from the
  row for the hour of the TTL. A creation that synchronizes always leaves such a copy: it
  returns and caches the object from before the synchronization, while
  `tests/unit/services/listing.test.ts:109-127` (beside `src/`) expects SYNCED
  `marketplaceSyncs` in what it returns (`ListingCacheExplained`). A search that
  OpenSearch answered fails when its cache write does. Timers of earlier failures close the
  Redis breaker early, failures of commands never open it, and each "ready" adds a health
  check.
- A refresh token can be used once per worker and once more after a restart; two requests that
  refresh it at once in one worker both succeed, because the check (`jwt.service.ts:105`) and
  the revocation (:213) have awaits between them. Logout revokes a key that no verification
  looks up. The first attempt's timer forgets the younger attempts
  too. Handlers of one user that cross lose entries of the security log, and a hundred entries,
  two for each update of a profile, push out the older ones; preferences that are
  updated reset the notifications to defaults. `isActive` is checked nowhere.

Processes and rules:

- Once `app.ts` has initialized in a worker, its `listen` meets the port of `server.ts`:
  the worker shuts down with code 0 and is not forked again, or the primary dies or serves
  alone. `gracefulShutdown` of server.ts ends the sockets of requests in flight (:102-112),
  and app.ts cuts off responses, too. SIGQUIT of the primary does nothing, a signal before
  the handlers exist leads to a re-fork, and one that is forwarded misses a worker that is
  forked later.
- `escape()` turns "/" into an entity, and Joi then refuses every https image: no listing with
  such pictures can be created. No transaction and no registration passes its model. A
  status can never be updated. A price that rounds to a million, "?" as the only symbol of a
  password, and a text that escaping lengthens pass one layer and fail at the next.
- No change of a profile, of preferences, of a transaction or of a message's status that its
  validator accepts is made: the handlers read a parameter that the route does not have
  (`user.controller.ts:112`, `user.routes.ts:108`; `transaction.controller.ts:116`,
  `transaction.routes.ts:103`), or do not exist (`message.routes.ts:115`). The schema for
  profiles, "partial updates allowed" (`user.validator.ts:64`), requires every field of the
  base but the phone number; and the model's own check of a transaction's status compares
  the new status with itself (`transaction.model.ts:227`), so that it saves none.
- Buyer and seller are compared before the handler replaces the buyer by the user. A message's
  sender, transaction and metadata are checked (`message.validator.ts:82`, `:95`, `:104`) and
  replaced or dropped (`message.controller.ts:87`, `:109-111`), as its offer and attachments
  are.

## 7. What is not modelled

Listed with its reason in `PROJECT.json`.

- Image recognition and price analysis are calls of TensorFlow, and object storage single
  calls of S3: their outcomes are choices in BuyShield, ImageWorker, Catalogue.
- Migrations and configuration are run once or are constants. Encryption and logging change
  no state that a property could relate.
- Of the modelled components, reads that change nothing (`getUser`, listings of
  transactions and messages), formatting, metrics and logging are left out everywhere, and
  what cannot run: `auth.middleware.ts` and `rateLimit.middleware.ts`, which do not compile,
  tracking of parcels, whose validator refuses everything, the sync route of listings, and
  the validators of authentication, BuyShield, shipping and marketplaces, of which one throws
  when it is built and the others are passed to Express in a form it does not call.

## 8. What could come next

- The composition of Cluster with Accounts: restarts of Accounts are the exits of Cluster.
- A larger instance of Marketplaces, two jobs for one platform, when the retry counts of the
  code (three per loop) are within reach; the theorems already cover it.
- Payments' ledger under the rows of Transactions: `payment` there is one outcome, where
  PaymentLedger has effects.
