---------------------------- MODULE Transactions ----------------------------
(***************************************************************************)
(* The handlers of TransactionController and TransactionService: a row of  *)
(* the database, a copy of it in Redis that getTransaction prefers, and a  *)
(* payment begun between two writes of the row, behind an opossum breaker. *)
(* A payment is an intent that waits for the buyer's confirmation; its     *)
(* secret, which a confirmation needs, is dropped with the result, so that *)
(* nothing is ever charged.  The row records the intent, which             *)
(* cancelTransaction would refund; neither processRefund nor releaseEscrow *)
(* nor initializeBuyShieldProtection exists, so what calls them fails.     *)
(***************************************************************************)
EXTENDS Naturals, Opossum

CONSTANTS Requests,       \* HTTP requests; one that creates names its row
          Old,            \* rows that are there before any request
          None,
          MaxCrashes,     \* bound: crashes of the process
          MaxExpiries     \* bound: cache entries that reach CACHE_TTL

ASSUME TransactionsAssumption ==
    /\ Requests \cap Old = {}
    /\ None \notin Requests \cup Old
    /\ MaxCrashes \in Nat
    /\ MaxExpiries \in Nat

VARIABLES
    row,        \* the collection of transactions
    cache,      \* Redis: transaction:<id>
    op, tx,     \* the handler of a request and the transaction it names
    pc,         \* where the handler stands
    copy,       \* the document findByIdAndUpdate returned to it
    answer,     \* what the caller has been told
    payment,    \* per creation: the call of PaymentService
    breaker,    \* TransactionService.circuitBreaker
    cut,        \* history: handlers stopped between row and cache
    crossed,    \* history: transactions updated beside a handler about to cache
    crashes, expiries

transactionsVars == <<row, cache, op, tx, pc, copy, answer, payment, breaker,
                      cut, crossed, crashes, expiries>>

Statuses == {"INITIATED", "PAYMENT_PENDING", "COMPLETED", "CANCELLED"}
Row == [status : Statuses, isLocalPickup : BOOLEAN, intent : BOOLEAN]
Ids == Requests \cup Old
Ops == {"create", "processLocal", "complete", "cancel"}

ASSUME NoneIsNoValue == None \notin Ops /\ None \notin Row

TransactionsTypeOK ==
    /\ row \in [Ids -> Row \cup {None}]
    /\ cache \in [Ids -> Row \cup {None}]
    /\ op \in [Requests -> Ops \cup {None}]
    /\ tx \in [Requests -> Ids \cup {None}]
    /\ pc \in [Requests -> {"idle", "fire", "paying", "update", "read", "cache",
                            "publish", "done", "failed", "dead"}]
    /\ copy \in [Requests -> Row \cup {None}]
    /\ answer \in [Requests -> {"none", "tooMany", "ok", "error"}]
    /\ payment \in [Requests -> {"none", "running", "created", "declined"}]
    /\ breaker \in BreakerState
    /\ cut \subseteq Requests
    /\ crossed \subseteq Ids
    /\ crashes \in 0 .. MaxCrashes
    /\ expiries \in 0 .. MaxExpiries

TransactionsInit ==
    /\ row \in [Ids -> Row \cup {None}]
    /\ \A t \in Ids : row[t] = None <=> t \in Requests
    /\ cache = [t \in Ids |-> None]
    /\ op = [r \in Requests |-> None]
    /\ tx = [r \in Requests |-> None]
    /\ pc = [r \in Requests |-> "idle"]
    /\ copy = [r \in Requests |-> None]
    /\ answer = [r \in Requests |-> "none"]
    /\ payment = [r \in Requests |-> "none"]
    /\ breaker = "closed"
    /\ cut = {} /\ crossed = {}
    /\ crashes = 0 /\ expiries = 0

At(r, p) == pc[r] = p
Goto(r, p) == pc' = [pc EXCEPT ![r] = p]

\* The first answer is the one the caller gets: after a 429 the second one
\* throws, and next(error) cannot answer either.
Tell(r, a) ==
    answer' = [answer EXCEPT ![r] = IF @ = "none" THEN a ELSE @]

\* The handler's catch block rethrows.
Fail(r) == Goto(r, "failed") /\ Tell(r, "error")

historyVars == <<cut, crossed, crashes, expiries>>

(***************************************************************************)
(* createTransaction.  The limiter of the controller answers a request     *)
(* over the limit, but nothing stops the handler: it waits for a promise   *)
(* that resolves either way.                                               *)
(***************************************************************************)
CreateTransaction(r, local) ==
    /\ At(r, "idle")
    /\ op' = [op EXCEPT ![r] = "create"]
    /\ tx' = [tx EXCEPT ![r] = r]
    /\ \E over \in BOOLEAN :
        \/ /\ row' = [row EXCEPT ![r] = [status |-> "INITIATED",
                                         isLocalPickup |-> local, intent |-> FALSE]]
           /\ Goto(r, "fire")
           /\ answer' = [answer EXCEPT ![r] = IF over THEN "tooMany" ELSE "none"]
        \/ /\ Goto(r, "failed")     \* an invalid amount, or create() rejects
           /\ answer' = [answer EXCEPT ![r] = IF over THEN "tooMany" ELSE "error"]
           /\ UNCHANGED row
    /\ UNCHANGED <<cache, copy, payment, breaker, historyVars>>

\* circuitBreaker.fire().  The payment of a local pickup reads
\* paymentData.metadata, which is not passed: it is declined at once.
Fire(r) ==
    /\ At(r, "fire")
    /\ \/ /\ Admits(breaker) /\ ~row[r].isLocalPickup
          /\ breaker' = OnFire(breaker)
          /\ payment' = [payment EXCEPT ![r] = "running"]
          /\ Goto(r, "paying")
          /\ UNCHANGED answer
       \/ /\ Admits(breaker) /\ row[r].isLocalPickup
          /\ breaker' \in OnFailure(OnFire(breaker))
          /\ payment' = [payment EXCEPT ![r] = "declined"]
          /\ Fail(r)
       \/ ~Admits(breaker) /\ Fail(r) /\ UNCHANGED <<breaker, payment>>
    /\ UNCHANGED <<row, cache, op, tx, copy, historyVars>>

\* The payment is PENDING, its intent created: in time, or after the breaker or a
\* crash has ended the handler that waited for it.
IntentCreated(r) ==
    /\ payment[r] = "running"
    /\ payment' = [payment EXCEPT ![r] = "created"]
    /\ IF At(r, "paying")
         THEN breaker' = OnSuccess(breaker) /\ Goto(r, "update")
         ELSE UNCHANGED <<breaker, pc>>
    /\ UNCHANGED <<row, cache, op, tx, copy, answer, historyVars>>

\* Bug: the result is not awaited, so a payment that is declined goes on too.
BugDeclined(r) ==
    /\ payment[r] = "running"
    /\ payment' = [payment EXCEPT ![r] = "declined"]
    /\ IF At(r, "paying")
         THEN breaker' \in OnFailure(breaker) /\ Goto(r, "update")
         ELSE UNCHANGED <<breaker, pc>>
    /\ UNCHANGED <<row, cache, op, tx, copy, answer, historyVars>>

Declined(r) ==
    /\ payment[r] = "running"
    /\ payment' = [payment EXCEPT ![r] = "declined"]
    /\ IF At(r, "paying")
         THEN breaker' \in OnFailure(breaker) /\ Fail(r)
         ELSE UNCHANGED <<breaker, pc, answer>>
    /\ UNCHANGED <<row, cache, op, tx, copy, historyVars>>

\* After 10 seconds the breaker rejects and the payment goes on without it.
TimeOut(r) ==
    /\ At(r, "paying")
    /\ breaker' \in OnFailure(breaker)
    /\ Fail(r)
    /\ UNCHANGED <<row, cache, op, tx, copy, payment, historyVars>>

ResetTimer ==
    /\ breaker = "open"
    /\ breaker' = "halfOpen"
    /\ UNCHANGED <<row, cache, op, tx, pc, copy, answer, payment, historyVars>>

(***************************************************************************)
(* processLocalTransaction, completeTransaction and cancelTransaction of a *)
(* transaction whose id the caller knows: an old one, or one whose         *)
(* creation has been answered.                                             *)
(***************************************************************************)
Known == Old \cup {r \in Requests : op[r] = "create" /\ answer[r] = "ok"}

Begin(r, o, t) ==
    /\ At(r, "idle")
    /\ t \in Known
    /\ op' = [op EXCEPT ![r] = o]
    /\ tx' = [tx EXCEPT ![r] = t]
    /\ Goto(r, "read")
    /\ UNCHANGED <<row, cache, copy, answer, payment, breaker, historyVars>>

\* getTransaction: the cached copy when there is one.
Found(t) == IF cache[t] # None THEN cache[t] ELSE row[t]

\* Which handlers get past their calls of services: those of the refund and the
\* release fail at the call, and processLocalTransaction always does.
Proceeds(o, t) ==
    \/ o = "complete" /\ ~Found(t).isLocalPickup
    \/ o = "cancel" /\ ~Found(t).intent

Read(r) ==
    /\ At(r, "read")
    /\ \/ Proceeds(op[r], tx[r]) /\ Goto(r, "update") /\ UNCHANGED answer
       \/ Fail(r)      \* or the cache, the database or the call rejects
    /\ UNCHANGED <<row, cache, op, tx, copy, payment, breaker, historyVars>>

\* findByIdAndUpdate: no condition on the status, and no hook of the model.
Updated(r) ==
    CASE op[r] = "create" ->
           [row[r] EXCEPT !.status = "PAYMENT_PENDING", !.intent = TRUE]
      [] op[r] = "complete" -> [row[tx[r]] EXCEPT !.status = "COMPLETED"]
      [] OTHER -> [row[tx[r]] EXCEPT !.status = "CANCELLED"]

\* Bug: the handler goes on with the document it had read.
BugUpdate(r) ==
    /\ At(r, "update")
    /\ \/ /\ row' = [row EXCEPT ![tx[r]] = Updated(r)]
          /\ copy' = [copy EXCEPT ![r] = row[tx[r]]]
          /\ crossed' = crossed \cup {tx[q] : q \in {q \in Requests \ {r} :
                                          At(q, "cache") /\ tx[q] = tx[r]}}
          /\ Goto(r, "cache")
          /\ UNCHANGED answer
       \/ Fail(r) /\ UNCHANGED <<row, copy, crossed>>
    /\ UNCHANGED <<cache, op, tx, payment, breaker, cut, crashes, expiries>>

Update(r) ==
    /\ At(r, "update")
    /\ \/ /\ row' = [row EXCEPT ![tx[r]] = Updated(r)]
          /\ copy' = [copy EXCEPT ![r] = Updated(r)]
          /\ crossed' = crossed \cup {tx[q] : q \in {q \in Requests \ {r} :
                                          At(q, "cache") /\ tx[q] = tx[r]}}
          /\ Goto(r, "cache")
          /\ UNCHANGED answer
       \/ Fail(r) /\ UNCHANGED <<row, copy, crossed>>
    /\ UNCHANGED <<cache, op, tx, payment, breaker, cut, crashes, expiries>>

\* cacheTransaction: an error of it fails the handler, the row stays written.
CacheTransaction(r) ==
    /\ At(r, "cache")
    /\ \/ /\ cache' = [cache EXCEPT ![tx[r]] = copy[r]]
          /\ Goto(r, "publish")
          /\ UNCHANGED <<answer, cut>>
       \/ Fail(r) /\ cut' = cut \cup {r} /\ UNCHANGED cache
    /\ UNCHANGED <<row, op, tx, copy, payment, breaker, crossed, crashes, expiries>>

\* publishTransactionEvent swallows its errors; the handler answers.
PublishTransactionEvent(r) ==
    /\ At(r, "publish")
    /\ Goto(r, "done")
    /\ Tell(r, "ok")
    /\ UNCHANGED <<row, cache, op, tx, copy, payment, breaker, historyVars>>

\* CACHE_TTL, 1 hour, has passed.
Expire(t) ==
    /\ cache[t] # None
    /\ expiries < MaxExpiries
    /\ expiries' = expiries + 1
    /\ cache' = [cache EXCEPT ![t] = None]
    /\ UNCHANGED <<row, op, tx, pc, copy, answer, payment, breaker,
                   cut, crossed, crashes>>

\* The process dies with its handlers; an intent may still be created.
Busy == {r \in Requests : pc[r] \notin {"idle", "done", "failed", "dead"}}

Crash ==
    /\ crashes < MaxCrashes
    /\ crashes' = crashes + 1
    /\ pc' = [r \in Requests |-> IF r \in Busy THEN "dead" ELSE pc[r]]
    /\ cut' = cut \cup {r \in Requests : At(r, "cache")}
    /\ breaker' = "closed"
    /\ UNCHANGED <<row, cache, op, tx, copy, answer, payment, crossed, expiries>>

TransactionsNext ==
    \/ \E r \in Requests :
        \/ \E local \in BOOLEAN : CreateTransaction(r, local)
        \/ Fire(r) \/ IntentCreated(r) \/ Declined(r) \/ TimeOut(r)
        \/ \E o \in Ops \ {"create"}, t \in Ids : Begin(r, o, t)
        \/ Read(r) \/ Update(r) \/ CacheTransaction(r)
        \/ PublishTransactionEvent(r)
    \/ ResetTimer
    \/ \E t \in Ids : Expire(t)
    \/ Crash

TransactionsSpec == TransactionsInit /\ [][TransactionsNext]_transactionsVars

-----------------------------------------------------------------------------
(* Properties. *)

\* A row says more than INITIATED only if its payment intent was created, and it
\* names that intent: that is all that PAYMENT_PENDING and COMPLETED stand for.
\* An intent behind a row that says INITIATED and does not name it is that of a
\* creation that has not updated the row yet or was cut short: nobody is left to
\* find it.  And no transaction that was created is ever cancelled, whatever copy
\* of it the handler reads, since it would first have to be refunded.
\* (createTransaction: row, payment, row again; cancelTransaction.)
IntentMatchesRow ==
    \A t \in Requests : row[t] # None =>
        /\ row[t].status # "INITIATED" => payment[t] = "created" /\ row[t].intent
        /\ payment[t] = "created" /\ row[t].status = "INITIATED" =>
            /\ answer[t] # "ok"
            /\ At(t, "update") \/ At(t, "failed") \/ At(t, "dead")
        /\ row[t].status # "CANCELLED"

\* For the hour of its TTL the cached copy is what getTransaction finds.  It
\* differs from the row only between the two writes of a handler, after a
\* handler was stopped there, or after another handler's update fell there.
StaleExplained ==
    \A t \in Ids : cache[t] \notin {None, row[t]} =>
        \/ \E r \in Requests : tx[r] = t /\ (At(r, "cache") \/ r \in cut)
        \/ t \in crossed

\* Nothing takes a transaction back: no creation overwrites what a later
\* handler made of its row, although no update looks at the status.
SettledStays ==
    [][\A t \in Ids : row[t] # None =>
        /\ row'[t] # None
        /\ row[t].status \in {"COMPLETED", "CANCELLED"} =>
             row'[t].status \in {"COMPLETED", "CANCELLED"}]_transactionsVars

=============================================================================
