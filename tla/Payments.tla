------------------------------ MODULE Payments ------------------------------
(***************************************************************************)
(* Payments, escrow holds, captures and refunds: PaymentController,        *)
(* PaymentService, EscrowService and StripeService, with Stripe itself as  *)
(* an external process that may execute a request and lose the response.   *)
(*                                                                         *)
(* Three nested mechanisms decide how often Stripe is asked:               *)
(*   - StripeService.retryOperation: up to MaxAttempts attempts of one     *)
(*     Stripe call, only after retryable errors;                           *)
(*   - PaymentService.retryOperation and EscrowService.releaseEscrowFunds: *)
(*     up to MaxRetries rounds of such a call, after any error;            *)
(*   - opossum breakers of the controller, the payment service and the     *)
(*     escrow service: they refuse a fire while open, and their timeouts   *)
(*     answer the caller while the work they abandoned goes on.            *)
(***************************************************************************)
EXTENDS Naturals, Opossum, StripeIntents

CONSTANTS Requests,     \* calls of the services, one HTTP request each
          Old,          \* intents that Stripe holds from earlier runs
          Offered,      \* the operations the callers ask for
          MaxRetries,   \* PaymentService.maxRetries, EscrowService.MAX_RETRIES
          MaxAttempts,  \* StripeService.MAX_RETRY_ATTEMPTS
          Amount,       \* what one intent is worth
          MaxCrashes    \* bound: process crashes in one behaviour

ASSUME PaymentsAssumption ==
    /\ MaxRetries \in Nat \ {0}
    /\ MaxAttempts \in Nat \ {0}
    /\ Amount \in Nat \ {0}
    /\ MaxCrashes \in Nat
    /\ Offered \subseteq Ops
    /\ Requests \cap Old = {}

VARIABLES
    op,        \* the operation each request asks for
    target,    \* the intent it names (its own one, for the two creations)
    part,      \* the amount it asks to refund, 0 for "all of it"
    answer,    \* what its caller has been told
    svc,       \* where the service's own loop stands
    round,     \* the rounds the service has started
    pending,   \* the breakers with a fire of this request still pending
    call,      \* per round, the StripeService call
    breaker,   \* the state of each circuit breaker
    ledger,    \* Stripe: the intents
    effects,   \* Stripe: how often it acted on behalf of each request
    lost,      \* history: executions whose response never arrived
    abandoned, \* history: a breaker timed out, or the process crashed
    crashes    \* how often the process crashed

callerVars == <<op, target, part>>
serviceVars == <<svc, round, pending, breaker>>
stripeVars == <<ledger, effects>>
historyVars == <<lost, abandoned, crashes>>
vars == <<callerVars, answer, serviceVars, call, stripeVars, historyVars>>

Breakers == {"controller", "payment", "escrow"}
Depth == [controller |-> 1, payment |-> 2, escrow |-> 3]

\* Operators named Bug... are not part of the model: each is the definition
\* after it with a plausible bug, there to see that a property would notice.

\* Bug: captures and refunds call the service without the controller's breaker.
BugOuterUnguarded(o) == IF o \in Creations THEN {"controller", "payment"} ELSE {}

\* The breakers around the service's loop ...
Outer(o) ==
    CASE o \in Creations -> {"controller", "payment"}
      [] o \in {"capture", "refund"} -> {"controller"}
      [] OTHER -> {}

\* Bug: refunds get a breaker, and its timeout, inside their retry loop.
BugInnerRefund(o) ==
    IF o \in {"hold", "release", "refund", "escrowRefund"} THEN {"escrow"} ELSE {}

\* ... and the one around each StripeService call.
Inner(o) == IF o \in {"hold", "release", "escrowRefund"} THEN {"escrow"} ELSE {}

\* The rounds the service makes before it gives up.
Rounds(o) == IF o \in {"capture", "refund", "release"} THEN MaxRetries ELSE 1

Errors == {"connection", "busy", "api", "card"}

\* Connection errors, and rate limits and lock timeouts ("busy").
IsRetryable(e) == e \in {"connection", "busy"}

Intents == Requests \cup Old
Rnds == 1 .. MaxRetries
Unsent == [st |-> "unsent", attempt |-> 0, err |-> "none"]

CallStates ==
    [st : {"unsent", "sent", "executed", "backoff", "ok", "error", "stray"},
     attempt : 0 .. MaxAttempts,
     err : Errors \cup {"none"}]

Init ==
    /\ op = [r \in Requests |-> "none"]
    /\ target = [r \in Requests |-> r]
    /\ part = [r \in Requests |-> 0]
    /\ answer = [r \in Requests |-> "none"]
    /\ svc = [r \in Requests |-> "idle"]
    /\ round = [r \in Requests |-> 0]
    /\ pending = [r \in Requests |-> {}]
    /\ call = [r \in Requests |-> [k \in Rnds |-> Unsent]]
    /\ breaker = [b \in Breakers |-> "closed"]
    /\ ledger \in {l \in [Intents -> [state : {"none", "held", "captured"}, refunded : {0}]] :
                      \A i \in Intents : l[i].state = "none" <=> i \in Requests}
    /\ effects = [r \in Requests |-> 0]
    /\ lost = [r \in Requests |-> 0]
    /\ abandoned = [r \in Requests |-> FALSE]
    /\ crashes = 0

-----------------------------------------------------------------------------
(* Callers *)

\* The intents a caller can name: the old ones, and those it was answered with.
Known == Old \cup {q \in Requests : op[q] \in Creations /\ answer[q] = "ok"}

\* A request arrives; the controller awaits its validation.
Arrive(r) ==
    /\ svc[r] = "idle"
    /\ \E o \in Offered :
          /\ op' = [op EXCEPT ![r] = o]
          /\ \E i \in IF o \in Creations THEN {r} ELSE Known :
                target' = [target EXCEPT ![r] = i]
          /\ \E a \in IF o = "refund" THEN 0 .. Amount ELSE {0} :
                part' = [part EXCEPT ![r] = a]
    /\ answer' = [answer EXCEPT ![r] = "waiting"]
    /\ svc' = [svc EXCEPT ![r] = "entering"]
    /\ UNCHANGED <<round, pending, breaker, call, stripeVars, historyVars>>

\* Bug: a response is sent again by whatever settles later.
BugToldTwice(r, a) == [answer EXCEPT ![r] = a]

Told(r, a) == [answer EXCEPT ![r] = IF @ = "waiting" THEN a ELSE @]

\* validatePaymentCreate or validatePaymentCapture throws: no service is called.
Invalid(r) ==
    /\ svc[r] = "entering"
    /\ op[r] \in Creations \cup {"capture"}
    /\ svc' = [svc EXCEPT ![r] = "ended"]
    /\ answer' = Told(r, "error")
    /\ UNCHANGED <<callerVars, round, pending, breaker, call, stripeVars, historyVars>>

-----------------------------------------------------------------------------
(* The services' loops and their breakers *)

\* The error leaves the service: it rejects every fire in "through".
FailRequest(r, base, through) ==
    /\ svc' = [svc EXCEPT ![r] = "ended"]
    /\ pending' = [pending EXCEPT ![r] = {}]
    /\ breaker' \in AfterFailures(base, through)
    /\ answer' = Told(r, "error")

\* Round k failed: pause for the next one, or rethrow after the last.
FailRound(r, k, base, through) ==
    \/ /\ k < Rounds(op[r])
       /\ svc' = [svc EXCEPT ![r] = "pausing"]
       /\ pending' = [pending EXCEPT ![r] = through \ Inner(op[r])]
       /\ breaker' \in AfterFailures(base, through \cap Inner(op[r]))
       /\ UNCHANGED answer
    \/ /\ k >= Rounds(op[r])
       /\ FailRequest(r, base, through)

\* Bug: reading the response throws (metadata.transactionId of a response
\* without metadata), so the success is rethrown as an error.
BugSucceedThrows(r) == FailRequest(r, breaker, pending[r])

SucceedRequest(r) ==
    /\ svc' = [svc EXCEPT ![r] = "ended"]
    /\ pending' = [pending EXCEPT ![r] = {}]
    /\ breaker' = AfterSuccesses(breaker, pending[r])
    /\ answer' = Told(r, "ok")

\* The breakers that the next round of r has to pass.
Ahead(r) == Inner(op[r]) \cup (IF round[r] = 0 THEN Outer(op[r]) ELSE {})

\* Round starts: every breaker on the way admits, the first attempt is sent.
StartRound(r) ==
    /\ svc[r] \in {"entering", "pausing"}
    /\ \A b \in Ahead(r) : Admits(breaker[b])
    /\ svc' = [svc EXCEPT ![r] = "calling"]
    /\ round' = [round EXCEPT ![r] = @ + 1]
    /\ pending' = [pending EXCEPT ![r] = @ \cup Ahead(r)]
    /\ breaker' = AfterFires(breaker, Ahead(r))
    /\ call' = [call EXCEPT ![r][round[r] + 1] =
                   [st |-> "sent", attempt |-> 1, err |-> "none"]]
    /\ UNCHANGED <<callerVars, answer, stripeVars, historyVars>>

\* The first breaker on the way that does not admit rejects the fire: the
\* error passes the breakers before it, and counts as a round if it is inner.
Rejected(r) ==
    /\ svc[r] \in {"entering", "pausing"}
    /\ \E b \in Ahead(r) :
          LET before == {c \in Ahead(r) : Depth[c] < Depth[b]}
              base == AfterFires(breaker, before)
              through == pending[r] \cup before
          IN  /\ ~Admits(breaker[b])
              /\ \A c \in before : Admits(breaker[c])
              /\ IF b \in Inner(op[r])
                 THEN /\ round' = [round EXCEPT ![r] = @ + 1]
                      /\ FailRound(r, round[r] + 1, base, through)
                 ELSE /\ UNCHANGED round
                      /\ FailRequest(r, base, through)
    /\ UNCHANGED <<callerVars, call, stripeVars, historyVars>>

\* An outer breaker's timer fires: the caller gets the timeout error, through
\* the breakers around it; the service's loop and its Stripe call go on.
OuterTimeout(r, b) ==
    /\ b \in pending[r] \ Inner(op[r])
    /\ LET through == {c \in pending[r] : Depth[c] <= Depth[b]}
       IN  /\ pending' = [pending EXCEPT ![r] = @ \ through]
           /\ breaker' \in AfterFailures(breaker, through)
    /\ answer' = Told(r, "error")
    /\ abandoned' = [abandoned EXCEPT ![r] = TRUE]
    /\ UNCHANGED <<callerVars, svc, round, call, stripeVars, lost, crashes>>

\* The escrow breaker's timer fires: the round fails while its Stripe call,
\* which nobody waits for any more, goes on.
InnerTimeout(r) ==
    /\ pending[r] \cap Inner(op[r]) # {}
    /\ FailRound(r, round[r], breaker, pending[r])
    /\ abandoned' = [abandoned EXCEPT ![r] = TRUE]
    /\ UNCHANGED <<callerVars, round, call, stripeVars, lost, crashes>>

\* resetTimeout after it opened, a breaker becomes half open.
HalfOpen(b) ==
    /\ breaker[b] = "open"
    /\ breaker' = [breaker EXCEPT ![b] = "halfOpen"]
    /\ UNCHANGED <<callerVars, answer, svc, round, pending, call, stripeVars, historyVars>>

-----------------------------------------------------------------------------
(* Stripe *)

Due(r) == IF part[r] = 0 THEN Amount - ledger[target[r]].refunded ELSE part[r]

\* What Stripe accepts.
Executable(r) ==
    LET i == ledger[target[r]]
    IN  \/ op[r] \in Creations
        \/ op[r] \in Captures /\ i.state = "held"
        \/ op[r] \in Refunds /\ i.state = "held" /\ part[r] = 0
        \/ op[r] \in Refunds /\ i.state = "captured" /\ i.refunded + Due(r) <= Amount

\* A request that carries the idempotency key of one already executed is
\* answered with its result: only createPaymentIntent carries one.
Replayed(r) == op[r] = "create" /\ effects[r] > 0

Executed(r) ==
    LET i == ledger[target[r]]
    IN  CASE op[r] = "hold" -> [state |-> "held", refunded |-> 0]
          [] op[r] \in {"create"} \cup Captures -> [state |-> "captured", refunded |-> 0]
          [] op[r] \in Refunds /\ i.state = "held" -> [state |-> "returned", refunded |-> Amount]
          [] OTHER -> [state |-> IF i.refunded + Due(r) = Amount THEN "returned" ELSE "captured",
                       refunded |-> i.refunded + Due(r)]

Perform(r) ==
    IF Replayed(r)
    THEN UNCHANGED stripeVars
    ELSE /\ ledger' = [ledger EXCEPT ![target[r]] = Executed(r)]
         /\ effects' = [effects EXCEPT ![r] = @ + 1]

\* Stripe executes the attempt; the response is on its way back.
Execute(r, k) ==
    /\ call[r][k].st = "sent"
    /\ Executable(r)
    /\ Perform(r)
    /\ call' = [call EXCEPT ![r][k].st = "executed"]
    /\ UNCHANGED <<callerVars, answer, serviceVars, historyVars>>

\* The attempt of a process that crashed still reaches Stripe, or does not.
ExecuteStray(r, k) ==
    /\ call[r][k].st = "stray"
    /\ call' = [call EXCEPT ![r][k].st = "error"]
    /\ \/ Executable(r) /\ Perform(r)
       \/ UNCHANGED stripeVars
    /\ UNCHANGED <<callerVars, answer, serviceVars, historyVars>>

-----------------------------------------------------------------------------
(* StripeService.retryOperation *)

\* The service waits for round k of r, which no timeout has overtaken.
Awaited(r, k) == svc[r] = "calling" /\ round[r] = k

\* The response arrives: the round, and with it the request, succeeds.
Succeed(r, k) ==
    /\ call[r][k].st = "executed"
    /\ call' = [call EXCEPT ![r][k].st = "ok"]
    /\ IF Awaited(r, k)
       THEN SucceedRequest(r)
       ELSE UNCHANGED <<svc, pending, breaker, answer>>
    /\ UNCHANGED <<callerVars, round, stripeVars, historyVars>>

\* The attempt fails with error e: back off, or rethrow when the error is not
\* retryable or the attempts are used up.
FailAttempt(r, k, e) ==
    IF IsRetryable(e) /\ call[r][k].attempt < MaxAttempts
    THEN /\ call' = [call EXCEPT ![r][k] = [st |-> "backoff", attempt |-> @.attempt, err |-> e]]
         /\ UNCHANGED <<svc, pending, breaker, answer>>
    ELSE /\ call' = [call EXCEPT ![r][k] = [st |-> "error", attempt |-> @.attempt, err |-> e]]
         /\ IF Awaited(r, k)
            THEN FailRound(r, k, breaker, pending[r])
            ELSE UNCHANGED <<svc, pending, breaker, answer>>

\* Stripe did not execute the attempt.
Fail(r, k) ==
    /\ call[r][k].st = "sent"
    /\ \E e \in Errors : FailAttempt(r, k, e)
    /\ UNCHANGED <<callerVars, round, stripeVars, historyVars>>

\* Stripe executed the attempt, but the response is lost or is a server error.
Lose(r, k) ==
    /\ call[r][k].st = "executed"
    /\ \E e \in {"connection", "api"} : FailAttempt(r, k, e)
    /\ lost' = [lost EXCEPT ![r] = @ + 1]
    /\ UNCHANGED <<callerVars, round, stripeVars, abandoned, crashes>>

\* The delay is over: the next attempt is sent.
Retry(r, k) ==
    /\ call[r][k].st = "backoff"
    /\ call' = [call EXCEPT ![r][k] = [st |-> "sent", attempt |-> @.attempt + 1, err |-> @.err]]
    /\ UNCHANGED <<callerVars, answer, serviceVars, stripeVars, historyVars>>

-----------------------------------------------------------------------------
\* The process dies and is started again: loops, timers and breakers are in
\* memory only.  Connections break; an attempt on the wire becomes a stray.
Crash ==
    /\ crashes < MaxCrashes
    /\ crashes' = crashes + 1
    /\ answer' = [r \in Requests |-> IF answer[r] = "waiting" THEN "error" ELSE answer[r]]
    /\ svc' = [r \in Requests |-> IF svc[r] = "idle" THEN "idle" ELSE "ended"]
    /\ pending' = [r \in Requests |-> {}]
    /\ breaker' = [b \in Breakers |-> "closed"]
    /\ call' = [r \in Requests |-> [k \in Rnds |->
          CASE call[r][k].st = "sent" -> [call[r][k] EXCEPT !.st = "stray"]
            [] call[r][k].st \in {"backoff", "executed"} -> [call[r][k] EXCEPT !.st = "error"]
            [] OTHER -> call[r][k]]]
    /\ abandoned' = [r \in Requests |-> abandoned[r] \/ svc[r] \in {"calling", "pausing"}]
    /\ UNCHANGED <<callerVars, round, stripeVars, lost>>

Next ==
    \/ \E r \in Requests :
          \/ Arrive(r) \/ Invalid(r) \/ StartRound(r) \/ Rejected(r) \/ InnerTimeout(r)
          \/ \E b \in Breakers : OuterTimeout(r, b)
          \/ \E k \in Rnds : Execute(r, k) \/ ExecuteStray(r, k) \/ Succeed(r, k)
                                \/ Fail(r, k) \/ Lose(r, k) \/ Retry(r, k)
    \/ \E b \in Breakers : HalfOpen(b)
    \/ Crash

Spec == Init /\ [][Next]_vars

\* What runs by itself in the process: delays end and timers fire.  Stripe
\* owes nothing here.
Timers ==
    /\ \A r \in Requests :
          /\ WF_vars(StartRound(r) \/ Rejected(r))
          /\ WF_vars(InnerTimeout(r))
          /\ \A b \in Breakers : WF_vars(OuterTimeout(r, b))
          /\ \A k \in Rnds : WF_vars(Retry(r, k))

TimedSpec == Spec /\ Timers

-----------------------------------------------------------------------------
(* Properties *)

\* The variables keep their shape: at most MaxRetries rounds of at most
\* MaxAttempts attempts each, and an intent never refunds more than it holds.
TypeOK ==
    /\ op \in [Requests -> Ops \cup {"none"}]
    /\ target \in [Requests -> Intents]
    /\ part \in [Requests -> 0 .. Amount]
    /\ answer \in [Requests -> {"none", "waiting", "ok", "error"}]
    /\ svc \in [Requests -> {"idle", "entering", "calling", "pausing", "ended"}]
    /\ round \in [Requests -> 0 .. MaxRetries]
    /\ pending \in [Requests -> SUBSET Breakers]
    /\ call \in [Requests -> [Rnds -> CallStates]]
    /\ breaker \in [Breakers -> BreakerState]
    /\ ledger \in [Intents -> IntentStates(Amount)]
    /\ effects \in [Requests -> Nat]
    /\ lost \in [Requests -> Nat]
    /\ abandoned \in [Requests -> BOOLEAN]
    /\ crashes \in 0 .. MaxCrashes

\* A caller that is told "ok" is told the truth, whatever was retried, timed
\* out or raced in between: Stripe acted for this very request, and the intent
\* shows it (PaymentService and EscrowService return only what a Stripe call
\* resolved with).
OkMeansDone ==
    \A r \in Requests :
        answer[r] = "ok" =>
            /\ effects[r] > 0
            /\ op[r] \in Captures => ledger[target[r]].state \in {"captured", "returned"}
            /\ op[r] \in Refunds => ledger[target[r]].refunded > 0

\* The two nested retry loops repeat a hold, a capture or a refund at Stripe
\* only after a response was lost: every execution beyond the first has a lost
\* response to blame, however many rounds, timeouts and crashes there were.
DuplicatesExplained ==
    \A r \in Requests : effects[r] <= 1 + lost[r]

\* A caller that is told "error" although Stripe acted has been cut off: a
\* response was lost, a breaker timed out on it, or the process crashed.
ErrorExplained ==
    \A r \in Requests :
        answer[r] = "error" /\ effects[r] > 0 => lost[r] > 0 \/ abandoned[r]

\* The key payment_<id> makes every retry of one creation the same intent, lost
\* responses included: the buyer is never charged by two intents.
OneIntentPerCreate ==
    \A r \in Requests : op[r] = "create" => effects[r] <= 1

\* Once a request was answered "ok", nothing that its retries left behind (an
\* attempt on the wire, a pending delay) moves money on its behalf any more.
QuietAfterOk ==
    [][\A r \in Requests : answer[r] = "ok" => effects'[r] = effects[r]]_vars

\* The services implement the abstract ledger.
Ledger == INSTANCE PaymentLedger
ImplementsLedger == Ledger!Spec

\* Every request is answered even when Stripe never responds: on every path
\* some breaker's timeout stands between the caller and Stripe.
EveryRequestAnswered ==
    \A r \in Requests : answer[r] = "waiting" ~> answer[r] \in {"ok", "error"}

=============================================================================
