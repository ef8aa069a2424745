--------------------------- MODULE PaymentsProofs ---------------------------
(* Proofs about Payments, for every value of its constants. *)
EXTENDS PaymentsInv, TLAPS

\* The state the process starts in satisfies the inductive invariant.
LEMMA InitInv == Init => IInv
  <1> SUFFICES ASSUME Init PROVE IInv
    OBVIOUS
  <1>1. MaxRetries \in Nat /\ MaxAttempts \in Nat /\ Amount \in Nat \ {0} /\ MaxCrashes \in Nat
    BY PaymentsAssumption
  <1>2. TypeOK
    BY <1>1, SMTT(60) DEF Init, TypeOK, Unsent, CallStates, Errors, BreakerState, Breakers, Intents, IntentStates,
           Ops, Creations, Captures, Refunds, Rnds
  <1>3. LedgerOK
    BY <1>1 DEF Init, LedgerOK
  <1>4. ASSUME NEW r \in Requests PROVE Sound(r)
    BY <1>1, <1>4, SMTT(60) DEF Init, Sound, Control, Sequential, Accounted, Settled, Targeted, Shown, Unsent, Serial, Rnds,
           Captures, Refunds, Creations, Failed, Busy, Over
  <1>5. ASSUME NEW r \in Requests PROVE OwnIntent(r)
    BY <1>5 DEF Init, OwnIntent, Intents
  <1> QED
    BY <1>2, <1>3, <1>4, <1>5 DEF IInv

-----------------------------------------------------------------------------
(* Updates of one call *)

CallTypes == [Requests -> [Rnds -> CallStates]]

\* Only the call of round k of r changes, to c.
Only(r, k, c) ==
    /\ call' \in CallTypes
    /\ call'[r][k] = c
    /\ \A q \in Requests, j \in Rnds : q # r \/ j # k => call'[q][j] = call[q][j]
    /\ \A q \in Requests : q # r => call'[q] = call[q]

\* Writing a whole call record changes that call and no other.
LEMMA SetCall ==
  ASSUME TypeOK, NEW r \in Requests, NEW k \in Rnds, NEW c \in CallStates,
         call' = [call EXCEPT ![r][k] = c]
  PROVE  Only(r, k, c)
  BY DEF TypeOK, Only, CallTypes

\* Writing the state of a call keeps its attempt and its error.
LEMMA SetState ==
  ASSUME TypeOK, NEW r \in Requests, NEW k \in Rnds,
         NEW s \in {"unsent", "sent", "executed", "backoff", "ok", "error", "stray"},
         call' = [call EXCEPT ![r][k].st = s]
  PROVE  Only(r, k, [st |-> s, attempt |-> call[r][k].attempt, err |-> call[r][k].err])
  <1> DEFINE c == [st |-> s, attempt |-> call[r][k].attempt, err |-> call[r][k].err]
  <1>1. call[r][k] \in CallStates
    BY DEF TypeOK
  <1>2. [call[r][k] EXCEPT !.st = s] = c /\ c \in CallStates
    BY <1>1, PaymentsAssumption DEF CallStates
  <1>3. call'[r][k] = c
    <2>1. call'[r][k] = [call[r][k] EXCEPT !.st = s]
      BY DEF TypeOK
    <2> QED
      BY <2>1, <1>2
  <1>4. /\ \A q \in Requests, j \in Rnds : q # r \/ j # k => call'[q][j] = call[q][j]
        /\ \A q \in Requests : q # r => call'[q] = call[q]
    BY DEF TypeOK
  <1>5. call' \in CallTypes
    <2>1. [call[r][k] EXCEPT !.st = s] \in CallStates
      BY <1>2
    <2> QED
      BY <2>1 DEF TypeOK, CallTypes
  <1> QED
    BY <1>3, <1>4, <1>5 DEF Only

\* A failed attempt (StripeService.retryOperation) keeps its attempt counter.
LEMMA SetFailure ==
  ASSUME TypeOK, NEW r \in Requests, NEW k \in Rnds, NEW s \in {"backoff", "error"}, NEW e \in Errors,
         call' = [call EXCEPT ![r][k] = [st |-> s, attempt |-> @.attempt, err |-> e]]
  PROVE  Only(r, k, [st |-> s, attempt |-> call[r][k].attempt, err |-> e])
  <1>1. [st |-> s, attempt |-> call[r][k].attempt, err |-> e] \in CallStates
    BY DEF TypeOK, CallStates
  <1> QED
    BY <1>1, SetCall

\* The next attempt of retryOperation is one more, within MaxAttempts.
LEMMA SetRetry ==
  ASSUME TypeOK, NEW r \in Requests, NEW k \in Rnds, call[r][k].attempt < MaxAttempts,
         call' = [call EXCEPT ![r][k] = [st |-> "sent", attempt |-> @.attempt + 1, err |-> @.err]]
  PROVE  Only(r, k, [st |-> "sent", attempt |-> call[r][k].attempt + 1, err |-> call[r][k].err])
  <1>1. [st |-> "sent", attempt |-> call[r][k].attempt + 1, err |-> call[r][k].err] \in CallStates
    BY PaymentsAssumption DEF TypeOK, CallStates
  <1> QED
    BY <1>1, SetCall

-----------------------------------------------------------------------------
(* What a step may do to the other requests *)

Same(q) ==
    /\ op'[q] = op[q] /\ target'[q] = target[q] /\ part'[q] = part[q]
    /\ answer'[q] = answer[q] /\ svc'[q] = svc[q] /\ round'[q] = round[q]
    /\ pending'[q] = pending[q] /\ call'[q] = call[q]
    /\ effects'[q] = effects[q] /\ lost'[q] = lost[q] /\ abandoned'[q] = abandoned[q]

\* An intent that a caller knows stays known.
StillKnown ==
    \A i \in Requests : op[i] \in Creations /\ answer[i] = "ok" =>
        op'[i] = op[i] /\ answer'[i] = "ok"

\* What the ledger shows of q.
LedgerShows(q) ==
    /\ op[q] \in Captures /\ effects[q] > 0 =>
          ledger[target[q]].state \in {"captured", "returned"}
    /\ op[q] \in Refunds /\ effects[q] > 0 => ledger[target[q]].refunded > 0

\* A step of another request keeps what the invariant says of q, as long as
\* known intents stay known and the intent still shows what Stripe did for q.
LEMMA Frame ==
  ASSUME IInv, NEW q \in Requests, Same(q), StillKnown, LedgerShows(q)'
  PROVE  Sound(q)'
  <1>1. Sound(q)
    BY DEF IInv
  <1>2. Control(q)'
    BY <1>1 DEF Sound, Control, Same, Rounds, Inner
  <1>3. Sequential(q)' /\ Accounted(q)' /\ Settled(q)'
    BY <1>1 DEF Sound, Sequential, Accounted, Settled, Serial, Same
  <1>4. Targeted(q)'
    BY <1>1 DEF Sound, Targeted, Same, StillKnown, IInv, TypeOK, Intents
  <1>5. Shown(q)'
    BY <1>1 DEF Sound, Shown, Same, LedgerShows
  <1> QED
    BY <1>1, <1>2, <1>3, <1>4, <1>5 DEF Sound, Same

\* What the invariant says about Stripe, request by request.
LEMMA ShowsNow == ASSUME IInv, NEW q \in Requests PROVE LedgerShows(q) /\ OwnIntent(q)
  BY DEF IInv, Sound, Shown, LedgerShows

\* A step of r that leaves Stripe alone.
LEMMA Others ==
  ASSUME IInv, NEW r \in Requests, UNCHANGED <<ledger, effects>>, StillKnown,
         op'[r] = op[r] \/ (op[r] = "none" /\ effects[r] = 0),
         \A q \in Requests \ {r} : Same(q), Sound(r)', TypeOK'
  PROVE  IInv'
  <1>1. LedgerOK'
    BY DEF IInv, LedgerOK
  <1>2. ASSUME NEW q \in Requests \ {r} PROVE Sound(q)' /\ OwnIntent(q)'
    <2>1. Same(q)
      BY <1>2
    <2>2. LedgerShows(q)' /\ OwnIntent(q)'
      BY <2>1, ShowsNow DEF LedgerShows, OwnIntent, Same
    <2> QED
      BY <2>1, <2>2, Frame
  <1>3. OwnIntent(r)'
    BY ShowsNow DEF OwnIntent, StillKnown, Creations
  <1> QED
    BY <1>1, <1>2, <1>3 DEF IInv

-----------------------------------------------------------------------------
(* The breakers, and the ways a request or a round ends *)

BreakerTypes == [Breakers -> BreakerState]

\* Whatever fires succeed or fail, the breakers stay in the states of opossum.
LEMMA BreakersType ==
  ASSUME NEW base \in BreakerTypes, NEW S
  PROVE  /\ AfterFailures(base, S) \subseteq BreakerTypes
         /\ AfterSuccesses(base, S) \in BreakerTypes
         /\ AfterFires(base, S) \in BreakerTypes
  BY DEF AfterFailures, AfterSuccesses, AfterFires, OnSuccess, OnFire, BreakerTypes, BreakerState

\* What changes outside the call when the loop of r ends or pauses: the loop
\* is at s, the fires of p stay pending, a waiting caller is told a.
Moves(r, s, p, a) ==
    /\ svc' \in [Requests -> {"idle", "entering", "calling", "pausing", "ended"}]
    /\ pending' \in [Requests -> SUBSET Breakers]
    /\ breaker' \in BreakerTypes
    /\ answer' \in [Requests -> {"none", "waiting", "ok", "error"}]
    /\ svc'[r] = s /\ pending'[r] = p
    /\ answer'[r] = IF answer[r] = "waiting" THEN a ELSE answer[r]
    /\ \A q \in Requests \ {r} :
          svc'[q] = svc[q] /\ pending'[q] = pending[q] /\ answer'[q] = answer[q]

\* An error that leaves the service ends the request and answers "error".
LEMMA FailRequestMoves ==
  ASSUME TypeOK, NEW r \in Requests, NEW base \in BreakerTypes, NEW through,
         FailRequest(r, base, through)
  PROVE  Moves(r, "ended", {}, "error")
  BY BreakersType DEF FailRequest, Moves, TypeOK, Told

\* A success ends the request and answers "ok".
LEMMA SucceedRequestMoves ==
  ASSUME TypeOK, NEW r \in Requests, SucceedRequest(r)
  PROVE  Moves(r, "ended", {}, "ok")
  <1>1. AfterSuccesses(breaker, pending[r]) \in BreakerTypes
    BY BreakersType DEF TypeOK, BreakerTypes
  <1> QED
    BY <1>1 DEF SucceedRequest, Moves, TypeOK, Told

\* A failed round (PaymentService.retryOperation, releaseEscrowFunds) pauses
\* before the last round and ends the request after it.
LEMMA FailRoundMoves ==
  ASSUME TypeOK, NEW r \in Requests, NEW k \in Nat, NEW base \in BreakerTypes,
         NEW through \in SUBSET Breakers, FailRound(r, k, base, through)
  PROVE  \/ k < Rounds(op[r]) /\ Moves(r, "pausing", through \ Inner(op[r]), answer[r])
         \/ k >= Rounds(op[r]) /\ Moves(r, "ended", {}, "error")
  <1>1. CASE k < Rounds(op[r])
    <2>1. /\ svc' = [svc EXCEPT ![r] = "pausing"]
          /\ pending' = [pending EXCEPT ![r] = through \ Inner(op[r])]
          /\ breaker' \in AfterFailures(base, through \cap Inner(op[r]))
          /\ answer' = answer
      BY <1>1, PaymentsAssumption DEF FailRound, Rounds
    <2> QED
      BY <1>1, <2>1, BreakersType DEF Moves, TypeOK
  <1>2. CASE ~(k < Rounds(op[r]))
    <2>1. FailRequest(r, base, through)
      BY <1>2 DEF FailRound
    <2>2. k >= Rounds(op[r])
      BY <1>2, PaymentsAssumption DEF Rounds
    <2> QED
      BY <2>1, <2>2, FailRequestMoves
  <1> QED
    BY <1>1, <1>2

-----------------------------------------------------------------------------
(* Callers *)

\* A request that arrives at a controller keeps the invariant: it names only
\* intents that are known.
LEMMA ArriveInv == ASSUME IInv, NEW r \in Requests, Arrive(r) PROVE IInv'
  <1>1. PICK o \in Offered :
          /\ op' = [op EXCEPT ![r] = o]
          /\ \E i \in IF o \in Creations THEN {r} ELSE Known : target' = [target EXCEPT ![r] = i]
          /\ \E a \in IF o = "refund" THEN 0 .. Amount ELSE {0} : part' = [part EXCEPT ![r] = a]
    BY DEF Arrive
  <1>2. PICK i \in IF o \in Creations THEN {r} ELSE Known : target' = [target EXCEPT ![r] = i]
    BY <1>1
  <1>3. PICK a \in IF o = "refund" THEN 0 .. Amount ELSE {0} : part' = [part EXCEPT ![r] = a]
    BY <1>1
  <1>4. Sound(r) /\ TypeOK /\ svc[r] = "idle" /\ op[r] = "none" /\ answer[r] = "none" /\ round[r] = 0
        /\ effects[r] = 0
    BY DEF IInv, Sound, Control, Arrive
  <1>5. TypeOK'
    <2>1. i \in Intents
      BY DEF Known, Intents, Creations
    <2>2. a \in 0 .. Amount
      BY PaymentsAssumption
    <2> QED
      BY <1>1, <1>2, <1>3, <1>4, <2>1, <2>2, PaymentsAssumption DEF Arrive, TypeOK, stripeVars, historyVars
  <1>6. /\ op'[r] = o /\ target'[r] = i /\ answer'[r] = "waiting" /\ svc'[r] = "entering"
        /\ o \in Ops
        /\ o # "refund" => part'[r] = 0
    BY <1>1, <1>2, <1>3, <1>4, PaymentsAssumption DEF Arrive, TypeOK
  <1>7. StillKnown /\ \A q \in Requests \ {r} : Same(q)
    BY <1>1, <1>2, <1>3, <1>4 DEF StillKnown, Same, Arrive, TypeOK, stripeVars, historyVars
  <1>8. UNCHANGED <<round, pending, call, ledger, effects, lost, abandoned>>
    BY DEF Arrive, stripeVars, historyVars
  <1>9. Sound(r)'
    <2>1. /\ \A k \in Rnds : call'[r][k] = Unsent
          /\ effects'[r] = 0 /\ lost'[r] \in Nat /\ round'[r] = 0 /\ pending'[r] = {}
      BY <1>4, <1>8 DEF Sound, Control, TypeOK, Rnds
    <2>2. Control(r)'
      BY <1>6, <2>1 DEF Control, Ops, Creations, Captures, Refunds, Unsent
    <2>3. Sequential(r)' /\ Accounted(r)' /\ Settled(r)'
      BY <1>6, <2>1 DEF Sequential, Accounted, Settled, Unsent, Failed, Busy, Over
    <2>4. Targeted(r)'
      <3>1. CASE o \in Creations
        BY <1>6, <3>1 DEF Targeted, Creations
      <3>2. CASE o \notin Creations
        <4>1. i \in Old \/ (i \in Requests \ {r} /\ op[i] \in Creations /\ answer[i] = "ok")
          BY <3>2, <1>4 DEF Known, Creations
        <4> QED
          BY <1>6, <1>7, <3>2, <4>1 DEF Targeted, Creations, Captures, Refunds, Ops, Same
      <3> QED
        BY <3>1, <3>2
    <2>5. Shown(r)'
      BY <1>6, <2>1 DEF Shown, Unsent
    <2> QED
      BY <1>6, <2>1, <2>2, <2>3, <2>4, <2>5 DEF Sound
  <1> QED
    BY <1>4, <1>5, <1>7, <1>8, <1>9, Others

\* A request that its validation rejects keeps the invariant.
LEMMA InvalidInv == ASSUME IInv, NEW r \in Requests, Invalid(r) PROVE IInv'
  <1>1. Sound(r) /\ TypeOK /\ svc[r] = "entering"
    BY DEF IInv, Invalid
  <1>2. /\ svc'[r] = "ended" /\ answer'[r] \in {"ok", "error"}
        /\ answer'[r] = IF answer[r] = "waiting" THEN "error" ELSE answer[r]
    BY <1>1 DEF Invalid, Told, TypeOK, Sound, Control
  <1>3. TypeOK'
    BY <1>1 DEF Invalid, TypeOK, Told, callerVars, stripeVars, historyVars
  <1>4. StillKnown /\ \A q \in Requests \ {r} : Same(q)
    BY <1>1 DEF StillKnown, Same, Invalid, Told, TypeOK, callerVars, stripeVars, historyVars
  <1>5. UNCHANGED <<op, target, part, round, pending, call, ledger, effects, lost, abandoned>>
    BY DEF Invalid, callerVars, stripeVars, historyVars
  <1>6. Sound(r)'
    <2>1. Control(r)'
      BY <1>1, <1>2, <1>5 DEF Sound, Control, Rounds, Inner
    <2>2. Sequential(r)' /\ Accounted(r)' /\ Settled(r)'
      <3>1. \A k \in Rnds : call[r][k] = Unsent
        BY <1>1 DEF Sound, Control, TypeOK, Rnds
      <3>2. Sequential(r)'
        BY <3>1, <1>5 DEF Sequential, Unsent, Failed
      <3>3. Accounted(r)'
        BY <3>1, <1>1, <1>2, <1>5 DEF Sound, Accounted, Serial, Unsent, Busy
      <3>4. Settled(r)'
        BY <3>1, <1>2, <1>5 DEF Settled, Unsent, Over
      <3> QED
        BY <3>2, <3>3, <3>4
    <2>3. Targeted(r)' /\ Shown(r)'
      BY <1>1, <1>2, <1>4, <1>5 DEF Sound, Targeted, Shown, StillKnown, TypeOK, Intents, Sound, Accounted
    <2>4. answer'[r] = "error" /\ effects'[r] > 0 => lost'[r] > 0 \/ abandoned'[r]
      BY <1>1, <1>5 DEF Sound, Accounted, Serial, TypeOK
    <2> QED
      BY <1>1, <1>5, <2>1, <2>2, <2>3, <2>4 DEF Sound
  <1> QED
    BY <1>3, <1>4, <1>5, <1>6, Others

-----------------------------------------------------------------------------
(* Rounds *)

\* A round that starts keeps the invariant: every execution so far was lost, or
\* an escrow timeout left the last round on the wire.
LEMMA StartRoundInv == ASSUME IInv, NEW r \in Requests, StartRound(r) PROVE IInv'
  <1> DEFINE k == round[r] + 1
  <1>1. Sound(r) /\ TypeOK /\ svc[r] \in {"entering", "pausing"} /\ op[r] # "none"
    BY DEF IInv, Sound, Control, StartRound
  <1>2. k \in Rnds /\ k \in Nat \ {0} /\ k <= Rounds(op[r])
    BY <1>1, PaymentsAssumption DEF Sound, Control, TypeOK, Rounds, Rnds
  <1>3. Only(r, k, [st |-> "sent", attempt |-> 1, err |-> "none"])
    <2>1. [st |-> "sent", attempt |-> 1, err |-> "none"] \in CallStates
      BY PaymentsAssumption DEF CallStates
    <2> QED
      BY <1>1, <1>2, <2>1, SetCall DEF StartRound
  <1>4. UNCHANGED <<op, target, part, answer, ledger, effects, lost, abandoned, crashes>>
    BY DEF StartRound, callerVars, stripeVars, historyVars
  <1>5. /\ svc'[r] = "calling" /\ round'[r] = k
        /\ \A q \in Requests \ {r} : svc'[q] = svc[q] /\ round'[q] = round[q] /\ pending'[q] = pending[q]
    BY <1>1 DEF StartRound, TypeOK
  <1>6. TypeOK'
    <2>1. Ahead(r) \in SUBSET Breakers
      BY DEF Ahead, Inner, Outer, Breakers
    <2>2. pending' \in [Requests -> SUBSET Breakers] /\ breaker' \in [Breakers -> BreakerState]
      BY <1>1, <2>1, BreakersType DEF StartRound, TypeOK, BreakerTypes
    <2>3. svc' \in [Requests -> {"idle", "entering", "calling", "pausing", "ended"}]
          /\ round' \in [Requests -> 0 .. MaxRetries]
      BY <1>1, <1>2, PaymentsAssumption DEF StartRound, TypeOK, Rnds
    <2> QED
      BY <1>1, <1>3, <1>4, <2>2, <2>3 DEF TypeOK, Only, CallTypes
  <1>7. StillKnown /\ \A q \in Requests \ {r} : Same(q)
    BY <1>3, <1>4, <1>5 DEF StillKnown, Same, Only
  <1>8. Sound(r)'
    <2>1. \A j \in Rnds : call'[r][j] = IF j = k THEN [st |-> "sent", attempt |-> 1, err |-> "none"]
                                               ELSE call[r][j]
      BY <1>2, <1>3 DEF Only
    <2>2. Control(r)'
      <3>1. ASSUME NEW j \in Rnds, j > k PROVE call'[r][j] = Unsent
        <4>1. j > round[r] /\ j # k
          BY <1>1, <3>1, PaymentsAssumption DEF Rnds, TypeOK
        <4> QED
          BY <1>1, <2>1, <4>1 DEF Sound, Control
      <3>2. \A j \in Rnds : call'[r][j].st = "backoff" => call'[r][j].attempt < MaxAttempts
        BY <1>1, <2>1 DEF Sound, Control
      <3> QED
        BY <1>1, <1>2, <1>4, <1>5, <3>1, <3>2 DEF Sound, Control
    <2>3. Sequential(r)' /\ Accounted(r)' /\ Settled(r)'
      <3>1. Sequential(r)'
        BY <1>1, <1>4, <1>5, <2>1 DEF Sound, Sequential, Serial
      <3>2. Accounted(r)'
        BY <1>1, <1>4, <1>5, <2>1 DEF Sound, Accounted, Serial
      <3>3. Settled(r)'
        BY <1>1, <1>4 DEF Sound, Settled, Serial
      <3> QED
        BY <3>1, <3>2, <3>3
    <2>4. Targeted(r)' /\ Shown(r)'
      BY <1>1, <1>4, <2>1 DEF Sound, Targeted, Shown
    <2> QED
      BY <1>1, <1>4, <2>2, <2>3, <2>4 DEF Sound
  <1> QED
    BY <1>4, <1>6, <1>7, <1>8, Others

\* A fire that an open breaker rejects keeps the invariant.
LEMMA RejectedInv == ASSUME IInv, NEW r \in Requests, Rejected(r) PROVE IInv'
  <1>1. Sound(r) /\ TypeOK /\ svc[r] \in {"entering", "pausing"} /\ op[r] # "none"
    BY DEF IInv, Sound, Control, Rejected
  <1>2. UNCHANGED <<op, target, part, call, ledger, effects, lost, abandoned, crashes>>
    BY DEF Rejected, callerVars, stripeVars, historyVars
  <1>3. round[r] + 1 <= Rounds(op[r]) /\ Rounds(op[r]) \in 1 .. MaxRetries /\ round[r] \in Nat
    BY <1>1, PaymentsAssumption DEF Sound, Control, TypeOK, Rounds
  <1>4. PICK b \in Ahead(r) :
          LET before == {c \in Ahead(r) : Depth[c] < Depth[b]}
              base == AfterFires(breaker, before)
              through == pending[r] \cup before
          IN  IF b \in Inner(op[r])
              THEN /\ round' = [round EXCEPT ![r] = @ + 1]
                   /\ FailRound(r, round[r] + 1, base, through)
              ELSE /\ UNCHANGED round
                   /\ FailRequest(r, base, through)
    BY DEF Rejected
  <1> DEFINE before == {c \in Ahead(r) : Depth[c] < Depth[b]}
             base == AfterFires(breaker, before)
             through == pending[r] \cup before
  <1>4a. \/ b \in Inner(op[r]) /\ round' = [round EXCEPT ![r] = @ + 1] /\ FailRound(r, round[r] + 1, base, through)
         \/ b \notin Inner(op[r]) /\ UNCHANGED round /\ FailRequest(r, base, through)
    BY <1>4
  <1>5. base \in BreakerTypes /\ through \in SUBSET Breakers
    BY <1>1, BreakersType DEF TypeOK, BreakerTypes, Ahead, Inner, Outer, Breakers
  <1> HIDE DEF before, base, through
  <1>6. \E s \in {"pausing", "ended"}, p \in SUBSET Breakers, a \in {answer[r], "error"} :
          /\ Moves(r, s, p, a)
          /\ s = "ended" => p = {} /\ a = "error"
          /\ s = "pausing" => a = answer[r] /\ p \cap Inner(op[r]) = {} /\ round'[r] < Rounds(op[r])
          /\ round' \in [Requests -> 0 .. MaxRetries] /\ round'[r] >= round[r]
          /\ \A q \in Requests \ {r} : round'[q] = round[q]
    <2>1. CASE b \in Inner(op[r])
      <3>1. round' = [round EXCEPT ![r] = @ + 1] /\ FailRound(r, round[r] + 1, base, through)
        BY <1>4a, <2>1
      <3>2. round' \in [Requests -> 0 .. MaxRetries] /\ round'[r] = round[r] + 1
            /\ \A q \in Requests \ {r} : round'[q] = round[q]
        BY <1>1, <1>3, <3>1, PaymentsAssumption DEF TypeOK
      <3>3. \/ round[r] + 1 < Rounds(op[r]) /\ Moves(r, "pausing", through \ Inner(op[r]), answer[r])
            \/ Moves(r, "ended", {}, "error")
        <4>1. round[r] + 1 \in Nat
          BY <1>3
        <4> QED
          BY <1>1, <1>5, <3>1, <4>1, FailRoundMoves, Zenon
      <3>4. CASE round[r] + 1 < Rounds(op[r]) /\ Moves(r, "pausing", through \ Inner(op[r]), answer[r])
        BY <1>3, <1>5, <3>2, <3>4
      <3>5. CASE Moves(r, "ended", {}, "error")
        BY <1>3, <3>2, <3>5
      <3> QED
        BY <3>3, <3>4, <3>5
    <2>2. CASE b \notin Inner(op[r])
      <3>1. UNCHANGED round /\ FailRequest(r, base, through)
        BY <1>4a, <2>2
      <3>2. Moves(r, "ended", {}, "error")
        BY <1>1, <1>5, <3>1, FailRequestMoves
      <3>3. round' \in [Requests -> 0 .. MaxRetries] /\ round'[r] >= round[r]
            /\ \A q \in Requests \ {r} : round'[q] = round[q]
        BY <1>1, <1>3, <3>1 DEF TypeOK
      <3>4. {} \in SUBSET Breakers
        OBVIOUS
      <3> QED
        BY <3>2, <3>3, <3>4
    <2> QED
      BY <2>1, <2>2
  <1>7. PICK s \in {"pausing", "ended"}, p \in SUBSET Breakers, a \in {answer[r], "error"} :
          /\ Moves(r, s, p, a)
          /\ s = "ended" => p = {} /\ a = "error"
          /\ s = "pausing" => a = answer[r] /\ p \cap Inner(op[r]) = {} /\ round'[r] < Rounds(op[r])
          /\ round' \in [Requests -> 0 .. MaxRetries] /\ round'[r] >= round[r]
          /\ \A q \in Requests \ {r} : round'[q] = round[q]
    BY <1>6
  <1>8. TypeOK'
    BY <1>1, <1>2, <1>7 DEF TypeOK, Moves, BreakerTypes
  <1>9. StillKnown /\ \A q \in Requests \ {r} : Same(q)
    BY <1>1, <1>2, <1>7 DEF StillKnown, Same, Moves, TypeOK
  <1>10. Sound(r)'
    <2>1. answer[r] # "none" /\ answer'[r] # "none" /\ (answer[r] = "ok" <=> answer'[r] = "ok")
      BY <1>1, <1>7 DEF Sound, Control, Moves
    <2>2. Control(r)'
      <3>1. \A j \in Rnds : j > round'[r] => call'[r][j] = Unsent
        BY <1>1, <1>2, <1>3, <1>7 DEF Sound, Control, Rnds
      <3> QED
        BY <1>1, <1>2, <1>7, <2>1, <3>1 DEF Sound, Control, Moves
    <2>3. \A j \in Rnds : Serial(r) => call'[r][j].st \in Failed
      BY <1>1, <1>2 DEF Sound, Sequential
    <2>4. Sequential(r)' /\ Accounted(r)'
      BY <1>1, <1>2, <1>7, <2>3 DEF Sound, Sequential, Accounted, Serial, Moves
    <2>5. Settled(r)'
      BY <1>1, <1>2, <1>7, <2>1, <2>3 DEF Sound, Settled, Serial, Moves, Failed, Over
    <2>6. Targeted(r)' /\ Shown(r)'
      BY <1>1, <1>2, <1>9, <2>1 DEF Sound, Targeted, Shown, StillKnown, TypeOK, Intents
    <2>7. answer'[r] = "error" /\ effects'[r] > 0 => lost'[r] > 0 \/ abandoned'[r]
      BY <1>1, <1>2 DEF Sound, Accounted, Serial, TypeOK
    <2> QED
      BY <1>1, <1>2, <2>2, <2>4, <2>5, <2>6, <2>7 DEF Sound
  <1> QED
    BY <1>2, <1>8, <1>9, <1>10, Others

\* The timeout of a breaker around the loop keeps the invariant.
LEMMA OuterTimeoutInv ==
  ASSUME IInv, NEW r \in Requests, NEW b \in Breakers, OuterTimeout(r, b) PROVE IInv'
  <1>1. Sound(r) /\ TypeOK
    BY DEF IInv
  <1>2. UNCHANGED <<op, target, part, svc, round, call, ledger, effects, lost, crashes>>
    BY DEF OuterTimeout, callerVars, stripeVars
  <1>3. /\ pending'[r] \subseteq pending[r] /\ abandoned'[r] /\ svc[r] \notin {"idle", "entering"}
        /\ answer'[r] = IF answer[r] = "waiting" THEN "error" ELSE answer[r]
    BY <1>1 DEF OuterTimeout, TypeOK, Told, Sound, Control
  <1>4. TypeOK'
    <2>1. breaker' \in BreakerTypes
      BY <1>1, BreakersType DEF OuterTimeout, TypeOK, BreakerTypes
    <2> QED
      BY <1>1, <1>2, <2>1 DEF OuterTimeout, TypeOK, Told, BreakerTypes
  <1>5. StillKnown /\ \A q \in Requests \ {r} : Same(q)
    BY <1>1, <1>2 DEF OuterTimeout, StillKnown, Same, TypeOK, Told
  <1>6. Sound(r)'
    <2>1. Control(r)'
      BY <1>1, <1>2, <1>3 DEF Sound, Control
    <2>2. Sequential(r)' /\ Accounted(r)' /\ Settled(r)'
      BY <1>1, <1>2, <1>3 DEF Sound, Sequential, Accounted, Settled, Serial
    <2>3. Targeted(r)' /\ Shown(r)'
      BY <1>1, <1>2, <1>3, <1>5 DEF Sound, Targeted, Shown, StillKnown, TypeOK, Intents
    <2> QED
      BY <1>1, <1>2, <1>3, <2>1, <2>2, <2>3 DEF Sound
  <1> QED
    BY <1>2, <1>4, <1>5, <1>6, Others

\* The timeout of the escrow breaker, which leaves its Stripe call behind, keeps
\* the invariant.
LEMMA InnerTimeoutInv == ASSUME IInv, NEW r \in Requests, InnerTimeout(r) PROVE IInv'
  <1>1. Sound(r) /\ TypeOK /\ svc[r] = "calling" /\ op[r] # "none" /\ round[r] \in Nat \ {0}
    BY DEF IInv, Sound, Control, InnerTimeout, TypeOK
  <1>2. UNCHANGED <<op, target, part, round, call, ledger, effects, lost, crashes>>
    BY DEF InnerTimeout, callerVars, stripeVars
  <1>3. abandoned'[r] /\ abandoned' \in [Requests -> BOOLEAN]
        /\ \A q \in Requests \ {r} : abandoned'[q] = abandoned[q]
    BY <1>1 DEF InnerTimeout, TypeOK
  <1>4. \/ round[r] < Rounds(op[r]) /\ Moves(r, "pausing", pending[r] \ Inner(op[r]), answer[r])
        \/ round[r] >= Rounds(op[r]) /\ Moves(r, "ended", {}, "error")
    BY <1>1, FailRoundMoves DEF InnerTimeout, TypeOK, BreakerTypes
  <1>5. op[r] # "release" => Moves(r, "ended", {}, "error")
    <2>1. op[r] # "release" => Rounds(op[r]) = 1
      BY <1>1 DEF InnerTimeout, Inner, Rounds
    <2> QED
      BY <1>1, <1>4, <2>1
  <1>6. TypeOK'
    BY <1>1, <1>2, <1>3, <1>4 DEF TypeOK, Moves, BreakerTypes
  <1>7. StillKnown /\ \A q \in Requests \ {r} : Same(q)
    BY <1>1, <1>2, <1>3, <1>4 DEF StillKnown, Same, Moves, TypeOK
  <1>8. answer[r] # "none" /\ answer'[r] # "none" /\ (answer[r] = "ok" <=> answer'[r] = "ok")
    BY <1>1, <1>4 DEF Sound, Control, Moves
  <1>9. Sound(r)'
    <2>1. Control(r)'
      BY <1>1, <1>2, <1>4, <1>8 DEF Sound, Control, Moves
    <2>2. Sequential(r)' /\ Accounted(r)' /\ Settled(r)'
      BY <1>1, <1>2, <1>3, <1>5, <1>8 DEF Sound, Sequential, Accounted, Settled, Serial, Moves
    <2>3. Targeted(r)' /\ Shown(r)'
      BY <1>1, <1>2, <1>7, <1>8 DEF Sound, Targeted, Shown, StillKnown, TypeOK, Intents
    <2> QED
      BY <1>1, <1>2, <1>3, <2>1, <2>2, <2>3 DEF Sound
  <1> QED
    BY <1>2, <1>6, <1>7, <1>9, Others

\* The reset timer of a breaker keeps the invariant.
LEMMA HalfOpenInv == ASSUME IInv, NEW b \in Breakers, HalfOpen(b) PROVE IInv'
  <1>1. TypeOK /\ UNCHANGED <<op, target, part, answer, svc, round, pending, call, ledger, effects, lost, abandoned, crashes>>
    BY DEF IInv, HalfOpen, callerVars, stripeVars, historyVars
  <1>2. TypeOK'
    BY <1>1 DEF TypeOK, HalfOpen, BreakerState
  <1>3. LedgerOK'
    BY <1>1 DEF IInv, LedgerOK
  <1>4. ASSUME NEW q \in Requests PROVE Sound(q)' /\ OwnIntent(q)'
    <2>1. Same(q) /\ StillKnown
      BY <1>1 DEF Same, StillKnown
    <2>2. LedgerShows(q)' /\ OwnIntent(q)'
      BY <1>1, ShowsNow DEF LedgerShows, OwnIntent
    <2> QED
      BY <2>1, <2>2, Frame
  <1> QED
    BY <1>2, <1>3, <1>4 DEF IInv

-----------------------------------------------------------------------------
(* Stripe *)

\* Only started rounds have a call, and a serial request has one under way in
\* its last round only.
LEMMA Started ==
  ASSUME IInv, NEW r \in Requests, NEW k \in Rnds, call[r][k].st # "unsent"
  PROVE  /\ op[r] # "none" /\ svc[r] \notin {"idle", "entering"} /\ answer[r] # "none"
         /\ k \in Nat /\ round[r] \in Nat /\ k <= round[r]
         /\ Serial(r) /\ call[r][k].st # "error" => k = round[r]
         /\ effects[r] \in Nat /\ lost[r] \in Nat
  <1>1. Sound(r) /\ TypeOK
    BY DEF IInv
  <1>2. k \in Nat /\ k > 0 /\ round[r] \in Nat /\ effects[r] \in Nat /\ lost[r] \in Nat
    BY <1>1, PaymentsAssumption DEF TypeOK, Rnds
  <1>3. ~(k > round[r])
    <2>1. k > round[r] => call[r][k] = Unsent
      BY <1>1 DEF Sound, Control
    <2> QED
      BY <2>1 DEF Unsent
  <1>4. svc[r] \notin {"idle", "entering"}
    BY <1>1, <1>2, <1>3 DEF Sound, Control
  <1>5. op[r] # "none" /\ answer[r] # "none"
    BY <1>1, <1>4 DEF Sound, Control
  <1>6. Serial(r) /\ call[r][k].st # "error" => k = round[r]
    BY <1>1 DEF Sound, Sequential, Failed
  <1> QED
    BY <1>2, <1>3, <1>4, <1>5, <1>6

\* The intent that Stripe writes: well formed, and it shows what was done.
LEMMA ExecutedIntent ==
  ASSUME IInv, NEW r \in Requests, op[r] # "none", Executable(r)
  PROVE  /\ Executed(r) \in IntentStates(Amount)
         /\ Executed(r).state \in {"none", "held"} => Executed(r).refunded = 0
         /\ Executed(r).state = "captured" => Executed(r).refunded < Amount
         /\ op[r] # "hold" => Executed(r).state \in {"captured", "returned"}
         /\ op[r] \in Refunds => Executed(r).refunded > 0
         /\ op[r] \in Refunds => ledger[target[r]].state \in {"held", "captured"}
         /\ op[r] \in Captures => ledger[target[r]].state = "held"
  <1> DEFINE i == ledger[target[r]]
  <1>1. /\ target[r] \in Intents /\ i \in IntentStates(Amount) /\ part[r] \in 0 .. Amount
        /\ op[r] \in Ops /\ Amount \in Nat \ {0}
    BY PaymentsAssumption DEF IInv, TypeOK, IntentStates
  <1>2. /\ i.state \in {"none", "held"} => i.refunded = 0
        /\ i.state = "captured" => i.refunded < Amount
    BY <1>1 DEF IInv, LedgerOK
  <1>3. i.refunded \in 0 .. Amount
    BY <1>1 DEF IntentStates
  <1>4. CASE op[r] \in Creations \cup Captures
    BY <1>1, <1>4 DEF Executed, Executable, Creations, Captures, Refunds, IntentStates
  <1>5. CASE op[r] \in Refunds /\ i.state = "held"
    <2>1. Executed(r) = [state |-> "returned", refunded |-> Amount]
      BY <1>5 DEF Executed, Refunds, Captures
    <2> QED
      BY <1>1, <1>5, <2>1 DEF Refunds, Captures, IntentStates
  <1>6. CASE op[r] \in Refunds /\ i.state # "held"
    <2> DEFINE d == Due(r)
    <2>1. i.state = "captured" /\ i.refunded + d <= Amount
      BY <1>6 DEF Executable, Refunds, Creations, Captures
    <2>2. d \in Nat /\ d > 0
      BY <1>1, <1>2, <1>3, <2>1 DEF Due
    <2>3. Executed(r) = [state |-> IF i.refunded + d = Amount THEN "returned" ELSE "captured",
                         refunded |-> i.refunded + d]
      BY <1>6 DEF Executed, Refunds, Captures
    <2> HIDE DEF d
    <2> DEFINE n == i.refunded + d
    <2>4. n \in 0 .. Amount /\ n > 0 /\ (n # Amount => n < Amount)
      BY <1>1, <1>3, <2>1, <2>2
    <2>5. Executed(r) = [state |-> IF n = Amount THEN "returned" ELSE "captured", refunded |-> n]
      BY <2>3
    <2> HIDE DEF n
    <2>6. /\ Executed(r) \in IntentStates(Amount)
          /\ Executed(r).state \in {"captured", "returned"}
          /\ Executed(r).refunded = n
          /\ Executed(r).state = "captured" => n < Amount
      BY <2>4, <2>5 DEF IntentStates
    <2> QED
      BY <1>6, <2>1, <2>4, <2>6 DEF Refunds, Captures
  <1> QED
    BY <1>1, <1>4, <1>5, <1>6 DEF Ops, Creations, Captures, Refunds

\* A creation that Stripe may still execute has not been answered "ok", so
\* that no caller names its intent yet.
LEMMA UnknownYet ==
  ASSUME IInv, NEW r \in Requests, NEW k \in Rnds, call[r][k].st \in {"sent", "stray"},
         op[r] \in Creations
  PROVE  /\ answer[r] # "ok"
         /\ target[r] = r
         /\ \A q \in Requests \ {r} : target[q] # r
  <1>1. Sound(r) /\ \A q \in Requests : Sound(q)
    BY DEF IInv
  <1>2. answer[r] # "ok"
    BY <1>1 DEF Sound, Settled, Serial, Creations, Over
  <1>3. ASSUME NEW q \in Requests \ {r} PROVE target[q] # r
    BY <1>1, <1>2, PaymentsAssumption DEF Sound, Targeted
  <1> QED
    BY <1>1, <1>2, <1>3 DEF Sound, Targeted

\* What Stripe executes for r keeps the intents well formed and takes nothing
\* back from what they show of the other requests.
LEMMA PerformKeeps ==
  ASSUME IInv, NEW r \in Requests, NEW k \in Rnds, call[r][k].st \in {"sent", "stray"},
         Executable(r), Perform(r), UNCHANGED <<op, target, answer>>
  PROVE  /\ ledger' \in [Intents -> IntentStates(Amount)] /\ effects' \in [Requests -> Nat]
         /\ LedgerOK'
         /\ \A q \in Requests : LedgerShows(q)' /\ OwnIntent(q)'
         /\ \A q \in Requests \ {r} : effects'[q] = effects[q]
         /\ effects'[r] > 0 /\ effects'[r] \in {effects[r], effects[r] + 1}
         /\ op[r] \in Captures => effects'[r] = 1
         /\ op[r] = "create" => effects'[r] = 1
  <1>1. Sound(r) /\ TypeOK /\ op[r] # "none" /\ LedgerOK
    BY Started DEF IInv
  <1>2. /\ ledger \in [Intents -> IntentStates(Amount)] /\ effects \in [Requests -> Nat]
        /\ target[r] \in Intents
    BY <1>1 DEF TypeOK, IntentStates
  <1>3. CASE Replayed(r)
    BY <1>1, <1>2, <1>3, ShowsNow DEF Perform, Replayed, stripeVars, LedgerOK, LedgerShows, OwnIntent, Captures, Sound
  <1>4. CASE ~Replayed(r)
    <2>1. /\ ledger' = [ledger EXCEPT ![target[r]] = Executed(r)]
          /\ effects' = [effects EXCEPT ![r] = @ + 1]
      BY <1>4 DEF Perform
    <2>2. ledger' \in [Intents -> IntentStates(Amount)] /\ LedgerOK'
      <3>1. Executed(r) \in IntentStates(Amount)
            /\ (Executed(r).state \in {"none", "held"} => Executed(r).refunded = 0)
            /\ (Executed(r).state = "captured" => Executed(r).refunded < Amount)
        BY <1>1, ExecutedIntent
      <3> QED
        BY <1>1, <1>2, <2>1, <3>1 DEF LedgerOK
    <2>3. effects'[r] = effects[r] + 1 /\ effects' \in [Requests -> Nat]
          /\ \A q \in Requests \ {r} : effects'[q] = effects[q]
      BY <1>2, <2>1
    <2>4. op[r] \in Captures => effects[r] = 0
      BY <1>1, <1>2, ExecutedIntent DEF Sound, Shown
    <2>5. op[r] = "create" => effects[r] = 0
      BY <1>2, <1>4 DEF Replayed
    <2>6. ASSUME NEW q \in Requests PROVE LedgerShows(q)'
      <3>1. CASE q = r
        BY <1>1, <1>2, <2>1, <3>1, ExecutedIntent DEF LedgerShows, Captures, Refunds
      <3>2. CASE q # r /\ target[q] # target[r]
        BY <1>2, <2>1, <2>3, <3>2, ShowsNow DEF LedgerShows
      <3>3. CASE q # r /\ target[q] = target[r]
        <4>1. op[r] \notin Creations
          BY <3>3, UnknownYet
        <4>2. op[r] \in Captures \cup Refunds
          BY <1>1, <4>1 DEF TypeOK, Ops, Creations, Captures, Refunds
        <4>3. CASE op[r] \in Captures
          \* the intent was held: nobody had captured or refunded it
          <5>1. ledger[target[r]].state = "held" /\ ledger[target[r]].refunded = 0
            BY <1>1, <1>2, <4>3, ExecutedIntent DEF LedgerOK
          <5>2. op[q] \in Captures \cup Refunds => effects[q] = 0
            BY <3>3, <5>1, <1>2, ShowsNow DEF LedgerShows
          <5> QED
            BY <2>3, <3>3, <5>2 DEF LedgerShows
        <4>4. CASE op[r] \in Refunds
          <5>1. /\ Executed(r).state \in {"captured", "returned"}
                /\ Executed(r).refunded > 0
            BY <1>1, <4>4, ExecutedIntent DEF Refunds
          <5> QED
            BY <1>2, <2>1, <3>3, <5>1 DEF LedgerShows
        <4> QED
          BY <4>2, <4>3, <4>4
      <3> QED
        BY <3>1, <3>2, <3>3
    <2>7. ASSUME NEW q \in Requests PROVE OwnIntent(q)'
      <3>1. OwnIntent(q) /\ Sound(q) /\ q \in Intents
        BY ShowsNow DEF IInv, Intents
      <3>2. CASE q = r
        <4>1. op[r] = "hold" => target[r] = r /\ Executed(r).state = "held"
          <5>1. op[r] = "hold" => target[r] = r
            BY <1>1 DEF Sound, Targeted, Creations
          <5>2. op[r] = "hold" => Executed(r).state = "held"
            BY DEF Executed, Captures, Refunds
          <5> QED
            BY <5>1, <5>2
        <4> QED
          BY <1>1, <1>2, <2>1, <2>3, <3>1, <3>2, <4>1 DEF OwnIntent
      <3>3. CASE q # r /\ target[r] # q
        BY <1>2, <2>1, <2>3, <3>1, <3>3 DEF OwnIntent
      <3>4. CASE q # r /\ target[r] = q
        <4>1. op[q] \in Creations /\ answer[q] = "ok"
          BY <1>1, <3>4, PaymentsAssumption DEF Sound, Targeted
        <4>2. effects[q] > 0
          BY <3>1, <4>1 DEF Sound, Shown
        <4> QED
          BY <1>2, <2>3, <3>4, <4>1, <4>2 DEF OwnIntent, Creations
      <3> QED
        BY <3>2, <3>3, <3>4
    <2> QED
      BY <1>2, <2>2, <2>3, <2>4, <2>5, <2>6, <2>7
  <1> QED
    BY <1>3, <1>4

\* An attempt that Stripe executes keeps the invariant.
LEMMA ExecuteInv ==
  ASSUME IInv, NEW r \in Requests, NEW k \in Rnds, Execute(r, k) PROVE IInv'
  <1> DEFINE c == [st |-> "executed", attempt |-> call[r][k].attempt, err |-> call[r][k].err]
  <1>1. Sound(r) /\ TypeOK /\ call[r][k].st = "sent"
    BY DEF IInv, Execute
  <1>2. UNCHANGED <<op, target, part, answer, svc, round, pending, breaker, lost, abandoned, crashes>>
    BY DEF Execute, callerVars, serviceVars, historyVars
  <1>3. Only(r, k, c)
    BY <1>1, SetState DEF Execute
  <1>4. /\ ledger' \in [Intents -> IntentStates(Amount)] /\ effects' \in [Requests -> Nat]
        /\ LedgerOK'
        /\ \A q \in Requests : LedgerShows(q)' /\ OwnIntent(q)'
        /\ \A q \in Requests \ {r} : effects'[q] = effects[q]
        /\ effects'[r] > 0 /\ effects'[r] \in {effects[r], effects[r] + 1}
        /\ op[r] \in Captures => effects'[r] = 1
        /\ op[r] = "create" => effects'[r] = 1
    BY <1>1, <1>2, PerformKeeps DEF Execute
  <1>5. TypeOK'
    BY <1>1, <1>2, <1>3, <1>4 DEF TypeOK, Only, CallTypes, IntentStates
  <1>6. StillKnown /\ \A q \in Requests \ {r} : Same(q)
    BY <1>2, <1>3, <1>4 DEF StillKnown, Same, Only
  <1>7. Sound(r)'
    <2>1. \A j \in Rnds : call'[r][j] = IF j = k THEN c ELSE call[r][j]
      BY <1>1, <1>3 DEF Only
    <2>2. k <= round[r] /\ (Serial(r) => k = round[r]) /\ effects[r] \in Nat /\ lost[r] \in Nat
          /\ round[r] \in Nat
      BY <1>1, Started
    <2>3. Control(r)'
      <3>1. \A j \in Rnds : j > round[r] => j # k
        BY <2>2, PaymentsAssumption DEF Rnds
      <3>2. \A j \in Rnds : j > round[r] => call'[r][j] = Unsent
        BY <1>1, <2>1, <3>1 DEF Sound, Control
      <3>3. \A j \in Rnds : call'[r][j].st = "backoff" => call'[r][j].attempt < MaxAttempts
        BY <1>1, <2>1 DEF Sound, Control
      <3>4. svc[r] \notin {"idle", "entering"} /\ answer[r] # "none"
        BY <1>1, Started
      <3> QED
        BY <1>1, <1>2, <3>2, <3>3, <3>4 DEF Sound, Control
    <2>4. Sequential(r)'
      BY <1>1, <1>2, <2>1, <2>2 DEF Sound, Sequential, Serial, Failed
    <2>5. Accounted(r)'
      <3>1. Serial(r) => effects[r] <= lost[r] /\ svc[r] \notin {"entering", "pausing"}
        BY <1>1 DEF Sound, Accounted, Sequential, Busy, Failed
      <3>2. Serial(r) => \A j \in Rnds : call'[r][j].st \notin Busy
        BY <1>1, <2>1, <2>2 DEF Sound, Sequential, Failed, Busy
      <3>3. Serial(r) => effects'[r] <= lost[r] + 1
        BY <1>4, <2>2, <3>1
      <3> QED
        BY <1>2, <3>1, <3>2, <3>3 DEF Accounted, Serial
    <2>6. Settled(r)'
      BY <1>1, <1>2 DEF Sound, Settled, Serial, Over
    <2>7. Targeted(r)'
      BY <1>1, <1>2 DEF Sound, Targeted
    <2>8. Shown(r)'
      BY <1>4 DEF Shown, LedgerShows
    <2>9. effects'[r] <= 1 + lost'[r]
      <3>1. CASE Serial(r)
        BY <1>2, <2>5, <3>1, <2>2, <1>4 DEF Accounted, Serial
      <3>2. CASE ~Serial(r)
        BY <1>2, <1>4, <2>2, <3>2 DEF Serial, Captures
      <3> QED
        BY <3>1, <3>2
    <2>10. answer'[r] = "error" => abandoned'[r]
      BY <1>1, <1>2 DEF Sound, Settled, Over
    <2> QED
      BY <1>2, <1>4, <2>3, <2>4, <2>5, <2>6, <2>7, <2>8, <2>9, <2>10 DEF Sound
  <1>8. ASSUME NEW q \in Requests \ {r} PROVE Sound(q)'
    BY <1>4, <1>6, Frame
  <1> QED
    BY <1>4, <1>5, <1>7, <1>8 DEF IInv

\* The attempt of a dead process, executed or not, keeps the invariant.
LEMMA ExecuteStrayInv ==
  ASSUME IInv, NEW r \in Requests, NEW k \in Rnds, ExecuteStray(r, k) PROVE IInv'
  <1> DEFINE c == [st |-> "error", attempt |-> call[r][k].attempt, err |-> call[r][k].err]
  <1>1. Sound(r) /\ TypeOK /\ call[r][k].st = "stray"
    BY DEF IInv, ExecuteStray
  <1>2. UNCHANGED <<op, target, part, answer, svc, round, pending, breaker, lost, abandoned, crashes>>
    BY DEF ExecuteStray, callerVars, serviceVars, historyVars
  <1>3. Only(r, k, c)
    BY <1>1, SetState DEF ExecuteStray
  <1>4. /\ ledger' \in [Intents -> IntentStates(Amount)] /\ effects' \in [Requests -> Nat]
        /\ LedgerOK'
        /\ \A q \in Requests : LedgerShows(q)' /\ OwnIntent(q)'
        /\ \A q \in Requests \ {r} : effects'[q] = effects[q]
        /\ effects'[r] \in {effects[r], effects[r] + 1}
        /\ effects'[r] > 0 \/ effects'[r] = effects[r]
        /\ op[r] \in Captures => effects'[r] = 1 \/ effects'[r] = effects[r]
        /\ op[r] = "create" => effects'[r] = 1 \/ effects'[r] = effects[r]
    <2>1. CASE Executable(r) /\ Perform(r)
      BY <1>1, <1>2, <2>1, PerformKeeps
    <2>2. CASE UNCHANGED stripeVars
      BY <1>1, <1>2, <2>2, ShowsNow DEF stripeVars, IInv, TypeOK, IntentStates, LedgerOK, LedgerShows, OwnIntent
    <2> QED
      BY <2>1, <2>2 DEF ExecuteStray
  <1>5. TypeOK'
    BY <1>1, <1>2, <1>3, <1>4 DEF TypeOK, Only, CallTypes, IntentStates
  <1>6. StillKnown /\ \A q \in Requests \ {r} : Same(q)
    BY <1>2, <1>3, <1>4 DEF StillKnown, Same, Only
  <1>7. Sound(r)'
    <2>1. \A j \in Rnds : call'[r][j] = IF j = k THEN c ELSE call[r][j]
      BY <1>1, <1>3 DEF Only
    <2>2. /\ k <= round[r] /\ (Serial(r) => k = round[r]) /\ effects[r] \in Nat /\ lost[r] \in Nat
          /\ round[r] \in Nat /\ svc[r] \notin {"idle", "entering"} /\ answer[r] # "none"
      BY <1>1, Started
    <2>3. Control(r)'
      <3>1. \A j \in Rnds : j > round[r] => j # k
        BY <2>2, PaymentsAssumption DEF Rnds
      <3>2. \A j \in Rnds : j > round[r] => call'[r][j] = Unsent
        BY <1>1, <2>1, <3>1 DEF Sound, Control
      <3>3. \A j \in Rnds : call'[r][j].st = "backoff" => call'[r][j].attempt < MaxAttempts
        BY <1>1, <2>1 DEF Sound, Control
      <3> QED
        BY <1>1, <1>2, <2>2, <3>2, <3>3 DEF Sound, Control
    <2>4. Sequential(r)'
      BY <1>1, <1>2, <2>1, <2>2 DEF Sound, Sequential, Serial, Failed
    <2>5. Accounted(r)'
      <3>1. Serial(r) => effects[r] <= lost[r] /\ svc[r] \notin {"entering", "pausing"}
        BY <1>1 DEF Sound, Accounted, Sequential, Busy, Failed
      <3>2. Serial(r) => \A j \in Rnds : call'[r][j].st \notin Busy
        BY <1>1, <2>1, <2>2 DEF Sound, Sequential, Failed, Busy
      <3>3. Serial(r) => effects'[r] <= lost[r] + 1
        BY <1>4, <2>2, <3>1
      <3> QED
        BY <1>2, <3>1, <3>2, <3>3 DEF Accounted, Serial
    <2>6. Settled(r)'
      BY <1>1, <1>2 DEF Sound, Settled, Serial, Over
    <2>7. Targeted(r)'
      BY <1>1, <1>2 DEF Sound, Targeted
    <2>8. Shown(r)'
      <3>1. \A j \in Rnds : call'[r][j].st \in {"executed", "ok"} => effects[r] > 0
        BY <1>1, <2>1 DEF Sound, Shown
      <3>2. effects[r] > 0 => effects'[r] > 0
        BY <1>4
      <3> QED
        BY <1>1, <1>2, <1>4, <3>1, <3>2 DEF Sound, Shown, LedgerShows
    <2>9. effects'[r] <= 1 + lost'[r]
      <3>1. CASE Serial(r)
        BY <1>2, <2>5, <3>1, <2>2, <1>4 DEF Accounted, Serial
      <3>2. CASE ~Serial(r)
        BY <1>1, <1>2, <1>4, <2>2, <3>2 DEF Serial, Captures, Sound
      <3> QED
        BY <3>1, <3>2
    <2>10. answer'[r] = "error" => abandoned'[r]
      BY <1>1, <1>2 DEF Sound, Settled, Over
    <2>11. op'[r] = "create" => effects'[r] <= 1
      BY <1>1, <1>2, <1>4 DEF Sound
    <2> QED
      BY <2>3, <2>4, <2>5, <2>6, <2>7, <2>8, <2>9, <2>10, <2>11 DEF Sound
  <1>8. ASSUME NEW q \in Requests \ {r} PROVE Sound(q)'
    BY <1>4, <1>6, Frame
  <1> QED
    BY <1>4, <1>5, <1>7, <1>8 DEF IInv

-----------------------------------------------------------------------------
(* Responses *)

\* The next attempt of retryOperation keeps the invariant.
LEMMA RetryInv == ASSUME IInv, NEW r \in Requests, NEW k \in Rnds, Retry(r, k) PROVE IInv'
  <1> DEFINE c == [st |-> "sent", attempt |-> call[r][k].attempt + 1, err |-> call[r][k].err]
  <1>1. Sound(r) /\ TypeOK /\ call[r][k].st = "backoff"
    BY DEF IInv, Retry
  <1>2. UNCHANGED <<op, target, part, answer, svc, round, pending, breaker, ledger, effects, lost, abandoned, crashes>>
    BY DEF Retry, callerVars, serviceVars, stripeVars, historyVars
  <1>3. Only(r, k, c)
    BY <1>1, SetRetry DEF Retry, Sound, Control
  <1>4. TypeOK'
    BY <1>1, <1>2, <1>3 DEF TypeOK, Only, CallTypes
  <1>5. StillKnown /\ \A q \in Requests \ {r} : Same(q)
    BY <1>2, <1>3 DEF StillKnown, Same, Only
  <1>6. Sound(r)'
    <2>1. \A j \in Rnds : call'[r][j] = IF j = k THEN c ELSE call[r][j]
      BY <1>1, <1>3 DEF Only
    <2>2. /\ k <= round[r] /\ (Serial(r) => k = round[r]) /\ round[r] \in Nat
      BY <1>1, Started
    <2>3. Control(r)'
      <3>1. \A j \in Rnds : j > round[r] => j # k
        BY <2>2, PaymentsAssumption DEF Rnds
      <3>2. \A j \in Rnds : j > round[r] => call'[r][j] = Unsent
        BY <1>1, <2>1, <3>1 DEF Sound, Control
      <3>3. \A j \in Rnds : call'[r][j].st = "backoff" => call'[r][j].attempt < MaxAttempts
        BY <1>1, <2>1 DEF Sound, Control
      <3> QED
        BY <1>1, <1>2, <3>2, <3>3 DEF Sound, Control
    <2>4. Sequential(r)' /\ Accounted(r)' /\ Settled(r)'
      <3>1. Sequential(r)'
        BY <1>1, <1>2, <2>1, <2>2 DEF Sound, Sequential, Serial, Failed
      <3>2. Accounted(r)'
        BY <1>1, <1>2, <2>1 DEF Sound, Accounted, Serial, Busy
      <3>3. Settled(r)'
        BY <1>1, <1>2, <2>1 DEF Sound, Settled, Serial, Over
      <3> QED
        BY <3>1, <3>2, <3>3
    <2>5. Targeted(r)' /\ Shown(r)'
      BY <1>1, <1>2, <2>1 DEF Sound, Targeted, Shown
    <2> QED
      BY <1>1, <1>2, <2>3, <2>4, <2>5 DEF Sound
  <1> QED
    BY <1>2, <1>4, <1>5, <1>6, Others

\* A response that arrives keeps the invariant, also when its round was given up.
LEMMA SucceedInv == ASSUME IInv, NEW r \in Requests, NEW k \in Rnds, Succeed(r, k) PROVE IInv'
  <1> DEFINE c == [st |-> "ok", attempt |-> call[r][k].attempt, err |-> call[r][k].err]
  <1>1. Sound(r) /\ TypeOK /\ call[r][k].st = "executed"
    BY DEF IInv, Succeed
  <1>2. UNCHANGED <<op, target, part, round, ledger, effects, lost, abandoned, crashes>>
    BY DEF Succeed, callerVars, stripeVars, historyVars
  <1>3. Only(r, k, c)
    BY <1>1, SetState DEF Succeed
  <1>4. \/ Awaited(r, k) /\ Moves(r, "ended", {}, "ok")
        \/ UNCHANGED <<svc, pending, breaker, answer>>
    BY <1>1, SucceedRequestMoves DEF Succeed
  <1>5. TypeOK'
    BY <1>1, <1>2, <1>3, <1>4 DEF TypeOK, Only, CallTypes, Moves, BreakerTypes
  <1>6. /\ k <= round[r] /\ (Serial(r) => k = round[r]) /\ round[r] \in Nat
        /\ op[r] # "none" /\ svc[r] \notin {"idle", "entering"} /\ answer[r] # "none"
    BY <1>1, Started
  <1>7. StillKnown /\ \A q \in Requests \ {r} : Same(q)
    BY <1>1, <1>2, <1>3, <1>4 DEF StillKnown, Same, Only, Moves, TypeOK
  <1>8. Sound(r)'
    <2>1. \A j \in Rnds : call'[r][j] = IF j = k THEN c ELSE call[r][j]
      BY <1>1, <1>3 DEF Only
    <2>2. Control(r)'
      <3>1. \A j \in Rnds : j > round[r] => j # k
        BY <1>6, PaymentsAssumption DEF Rnds
      <3>2. \A j \in Rnds : j > round[r] => call'[r][j] = Unsent
        BY <1>1, <2>1, <3>1 DEF Sound, Control
      <3>3. \A j \in Rnds : call'[r][j].st = "backoff" => call'[r][j].attempt < MaxAttempts
        BY <1>1, <2>1 DEF Sound, Control
      <3> QED
        BY <1>1, <1>2, <1>4, <1>6, <3>2, <3>3 DEF Sound, Control, Moves
    <2>3. Sequential(r)'
      BY <1>1, <1>2, <1>4, <1>6, <2>1 DEF Sound, Sequential, Serial, Failed, Moves
    <2>4. Accounted(r)'
      BY <1>1, <1>2, <1>4, <2>1 DEF Sound, Accounted, Serial, Busy, Moves
    <2>5. Settled(r)'
      <3>1. CASE Awaited(r, k) /\ Moves(r, "ended", {}, "ok")
        <4>1. Serial(r) => \A j \in Rnds : call'[r][j].st \in Over
          BY <1>1, <1>6, <2>1 DEF Sound, Sequential, Failed, Over
        <4>2. ~abandoned[r] => Serial(r)
          BY DEF Serial
        <4> QED
          BY <1>2, <3>1, <4>1, <4>2 DEF Settled, Moves, Serial
      <3>2. CASE UNCHANGED <<svc, pending, breaker, answer>>
        BY <1>1, <1>2, <3>2 DEF Sound, Settled, Serial, Over
      <3> QED
        BY <1>4, <3>1, <3>2
    <2>6. Targeted(r)'
      BY <1>1, <1>2, <1>7 DEF Sound, Targeted, StillKnown, TypeOK, Intents
    <2>7. effects'[r] > 0
      BY <1>1, <1>2 DEF Sound, Shown
    <2>8. Shown(r)'
      BY <1>1, <1>2, <2>7 DEF Sound, Shown
    <2>9. answer'[r] = "error" => answer[r] = "error"
      BY <1>1, <1>4 DEF Moves
    <2> QED
      BY <1>1, <1>2, <2>2, <2>3, <2>4, <2>5, <2>6, <2>8, <2>9 DEF Sound
  <1> QED
    BY <1>2, <1>5, <1>7, <1>8, Others

\* A failed attempt: either the delay before the next one begins, or the round
\* fails, or nobody waits for the round any more.
LEMMA FailAttemptInv ==
  ASSUME IInv, NEW r \in Requests, NEW k \in Rnds, NEW e \in Errors, FailAttempt(r, k, e),
         call[r][k].st \in {"sent", "executed"},
         UNCHANGED <<op, target, part, round, ledger, effects, abandoned, crashes>>,
         lost' \in [Requests -> Nat], lost'[r] \in {lost[r], lost[r] + 1},
         call[r][k].st = "executed" => lost'[r] = lost[r] + 1,
         \A q \in Requests \ {r} : lost'[q] = lost[q]
  PROVE  IInv'
  <1>1. Sound(r) /\ TypeOK
    BY DEF IInv
  <1>2. /\ k <= round[r] /\ (Serial(r) => k = round[r]) /\ round[r] \in Nat
        /\ op[r] # "none" /\ svc[r] \notin {"idle", "entering"} /\ answer[r] # "none"
        /\ effects[r] \in Nat /\ lost[r] \in Nat /\ k \in Nat
    BY <1>1, Started
  <1>3. PICK s \in {"backoff", "error"} :
          /\ Only(r, k, [st |-> s, attempt |-> call[r][k].attempt, err |-> e])
          /\ s = "backoff" => call[r][k].attempt < MaxAttempts
          /\ \/ UNCHANGED <<svc, pending, breaker, answer>> /\ (s = "error" => ~Awaited(r, k))
             \/ s = "error" /\ Awaited(r, k) /\ FailRound(r, k, breaker, pending[r])
    <2>1. CASE IsRetryable(e) /\ call[r][k].attempt < MaxAttempts
      BY <1>1, <2>1, SetFailure DEF FailAttempt
    <2>2. CASE ~(IsRetryable(e) /\ call[r][k].attempt < MaxAttempts)
      BY <1>1, <2>2, SetFailure DEF FailAttempt
    <2> QED
      BY <2>1, <2>2
  <1> DEFINE c == [st |-> s, attempt |-> call[r][k].attempt, err |-> e]
  <1>4. \/ UNCHANGED <<svc, pending, breaker, answer>> /\ (s = "error" => ~Awaited(r, k))
        \/ s = "error" /\ Awaited(r, k) /\ k < Rounds(op[r])
              /\ Moves(r, "pausing", pending[r] \ Inner(op[r]), answer[r])
        \/ s = "error" /\ Awaited(r, k) /\ Moves(r, "ended", {}, "error")
    BY <1>1, <1>2, <1>3, FailRoundMoves DEF TypeOK, BreakerTypes
  <1>5. TypeOK'
    <2>1. /\ svc' \in [Requests -> {"idle", "entering", "calling", "pausing", "ended"}]
          /\ pending' \in [Requests -> SUBSET Breakers]
          /\ breaker' \in BreakerTypes
          /\ answer' \in [Requests -> {"none", "waiting", "ok", "error"}]
      BY <1>1, <1>4 DEF Moves, TypeOK, BreakerTypes
    <2> QED
      BY <1>1, <1>3, <2>1 DEF TypeOK, Only, CallTypes, BreakerTypes
  <1>6. StillKnown /\ \A q \in Requests \ {r} : Same(q)
    BY <1>1, <1>3, <1>4 DEF StillKnown, Same, Only, Moves, TypeOK
  <1>7. answer'[r] # "none" /\ (answer[r] = "ok" <=> answer'[r] = "ok")
    BY <1>2, <1>4 DEF Moves
  <1>8. Sound(r)'
    <2>1. \A j \in Rnds : call'[r][j] = IF j = k THEN c ELSE call[r][j]
      BY <1>1, <1>3 DEF Only
    <2>2. Control(r)'
      <3>1. \A j \in Rnds : j > round[r] => j # k
        BY <1>2, PaymentsAssumption DEF Rnds
      <3>2. \A j \in Rnds : j > round[r] => call'[r][j] = Unsent
        BY <1>1, <2>1, <3>1 DEF Sound, Control
      <3>3. \A j \in Rnds : call'[r][j].st = "backoff" => call'[r][j].attempt < MaxAttempts
        BY <1>1, <1>3, <2>1 DEF Sound, Control
      <3>4. CASE UNCHANGED <<svc, pending, breaker, answer>>
        BY <1>1, <1>2, <3>2, <3>3, <3>4 DEF Sound, Control
      <3>5. CASE Awaited(r, k) /\ k < Rounds(op[r])
                   /\ Moves(r, "pausing", pending[r] \ Inner(op[r]), answer[r])
        BY <1>1, <1>2, <1>7, <3>2, <3>3, <3>5 DEF Sound, Control, Moves, Awaited
      <3>6. CASE Moves(r, "ended", {}, "error")
        BY <1>1, <1>2, <1>7, <3>2, <3>3, <3>6 DEF Sound, Control, Moves
      <3> QED
        BY <1>4, <3>4, <3>5, <3>6
    <2>3. Serial(r) => \A j \in Rnds : j # k => call'[r][j].st \in Failed
      BY <1>1, <1>2, <2>1 DEF Sound, Sequential
    <2>4. Serial(r) => effects[r] <= lost'[r] /\ svc[r] \notin {"entering", "pausing"}
      <3>1. Serial(r) => effects[r] <= lost[r] + 1
        BY <1>1 DEF Sound, Accounted
      <3>2. Serial(r) /\ call[r][k].st = "sent" => effects[r] <= lost[r]
        BY <1>1 DEF Sound, Accounted, Busy
      <3>3. Serial(r) => svc[r] \notin {"entering", "pausing"}
        BY <1>1 DEF Sound, Sequential, Failed
      <3> QED
        BY <1>2, <3>1, <3>2, <3>3
    <2>5. Sequential(r)'
      <3>1. Serial(r) => \A j \in Rnds : j # round[r] => call'[r][j].st \in Failed
        BY <1>2, <2>3
      <3>2. s = "error" => (Serial(r) => \A j \in Rnds : call'[r][j].st \in Failed)
        BY <2>1, <2>3 DEF Failed
      <3>3. svc'[r] \in {"entering", "pausing"} => s = "error" \/ svc[r] \in {"entering", "pausing"}
        BY <1>4 DEF Moves
      <3> QED
        BY <2>4, <3>1, <3>2, <3>3 DEF Sequential, Serial
    <2>6. Accounted(r)'
      BY <1>2, <2>4 DEF Accounted, Serial
    <2>7. Settled(r)'
      <3>1. ~(answer[r] = "ok" /\ Serial(r)) /\ ~(answer[r] = "error" /\ ~abandoned[r])
        BY <1>1 DEF Sound, Settled, Over
      <3>2. CASE answer'[r] = answer[r]
        BY <3>1, <3>2 DEF Settled, Serial
      <3>3. CASE s = "error" /\ Moves(r, "ended", {}, "error")
        <4>1. Serial(r) => \A j \in Rnds : call'[r][j].st \in Over
          BY <2>1, <2>3, <3>3 DEF Failed, Over
        <4> QED
          BY <3>3, <4>1 DEF Settled, Serial, Moves
      <3> QED
        BY <1>4, <3>2, <3>3 DEF Moves
    <2>8. Targeted(r)'
      BY <1>1, <1>6, <1>7 DEF Sound, Targeted, StillKnown, TypeOK, Intents
    <2>9. Shown(r)'
      BY <1>1, <1>7, <2>1 DEF Sound, Shown
    <2>10. effects'[r] <= 1 + lost'[r]
      BY <1>1, <1>2 DEF Sound
    <2>11. answer'[r] = "error" /\ effects'[r] > 0 => lost'[r] > 0 \/ abandoned'[r]
      <3>1. ~abandoned[r] => effects[r] <= lost'[r]
        BY <2>4 DEF Serial
      <3> QED
        BY <1>2, <3>1
    <2> QED
      BY <1>1, <2>2, <2>5, <2>6, <2>7, <2>8, <2>9, <2>10, <2>11 DEF Sound
  <1> QED
    BY <1>5, <1>6, <1>8, Others

\* An attempt that Stripe did not execute keeps the invariant.
LEMMA FailInv == ASSUME IInv, NEW r \in Requests, NEW k \in Rnds, Fail(r, k) PROVE IInv'
  <1>1. PICK e \in Errors : FailAttempt(r, k, e)
    BY DEF Fail
  <1>2. call[r][k].st = "sent" /\ UNCHANGED <<op, target, part, round, ledger, effects, lost, abandoned, crashes>>
    BY DEF Fail, callerVars, stripeVars, historyVars
  <1> QED
    BY <1>1, <1>2, FailAttemptInv DEF IInv, TypeOK

\* An execution whose response is lost keeps the invariant: it is counted as lost.
LEMMA LoseInv == ASSUME IInv, NEW r \in Requests, NEW k \in Rnds, Lose(r, k) PROVE IInv'
  <1>1. PICK e \in Errors : FailAttempt(r, k, e)
    BY DEF Lose, Errors
  <1>2. call[r][k].st = "executed" /\ UNCHANGED <<op, target, part, round, ledger, effects, abandoned, crashes>>
    BY DEF Lose, callerVars, stripeVars
  <1>3. /\ lost' \in [Requests -> Nat] /\ lost'[r] = lost[r] + 1
        /\ \A q \in Requests \ {r} : lost'[q] = lost[q]
    BY DEF Lose, IInv, TypeOK
  <1> QED
    BY <1>1, <1>2, <1>3, FailAttemptInv

-----------------------------------------------------------------------------
(* Crashes *)

\* A crash and restart of the process keeps the invariant.
LEMMA CrashInv == ASSUME IInv, Crash PROVE IInv'
  <1>1. TypeOK /\ LedgerOK /\ UNCHANGED <<op, target, part, round, ledger, effects, lost>>
    BY DEF IInv, Crash, callerVars, stripeVars
  <1>2. \A r \in Requests, k \in Rnds :
          /\ call'[r][k] = CASE call[r][k].st = "sent" -> [call[r][k] EXCEPT !.st = "stray"]
                              [] call[r][k].st \in {"backoff", "executed"} -> [call[r][k] EXCEPT !.st = "error"]
                              [] OTHER -> call[r][k]
    BY DEF Crash
  <1>3. \A r \in Requests, k \in Rnds :
          /\ call'[r][k] \in CallStates
          /\ call[r][k].st = "sent" => call'[r][k].st = "stray"
          /\ call[r][k].st \in {"backoff", "executed"} => call'[r][k].st = "error"
          /\ call[r][k].st \notin {"sent", "backoff", "executed"} => call'[r][k] = call[r][k]
    <2> TAKE r \in Requests, k \in Rnds
    <2>1. call[r][k] \in CallStates
      BY <1>1 DEF TypeOK
    <2>2. CASE call[r][k].st = "sent"
      <3>1. call'[r][k] = [call[r][k] EXCEPT !.st = "stray"]
        BY <1>2, <2>2
      <3>2. [call[r][k] EXCEPT !.st = "stray"] \in CallStates /\ [call[r][k] EXCEPT !.st = "stray"].st = "stray"
        BY <2>1 DEF CallStates
      <3> QED
        BY <2>2, <3>1, <3>2
    <2>3. CASE call[r][k].st \in {"backoff", "executed"}
      <3>1. call'[r][k] = [call[r][k] EXCEPT !.st = "error"]
        BY <1>2, <2>3
      <3>2. [call[r][k] EXCEPT !.st = "error"] \in CallStates /\ [call[r][k] EXCEPT !.st = "error"].st = "error"
        BY <2>1 DEF CallStates
      <3> QED
        BY <2>3, <3>1, <3>2
    <2>4. CASE call[r][k].st \notin {"sent", "backoff", "executed"}
      BY <1>2, <2>1, <2>4
    <2> QED
      BY <2>2, <2>3, <2>4
  <1>4. \A r \in Requests :
          /\ answer'[r] = IF answer[r] = "waiting" THEN "error" ELSE answer[r]
          /\ svc'[r] = IF svc[r] = "idle" THEN "idle" ELSE "ended"
          /\ pending'[r] = {}
          /\ abandoned'[r] = (abandoned[r] \/ svc[r] \in {"calling", "pausing"})
    BY DEF Crash
  <1>5. TypeOK'
    <2>1. call' \in CallTypes
      <3>1. call' = [r \in Requests |-> [k \in Rnds |-> call'[r][k]]]
        BY DEF Crash
      <3> QED
        BY <1>3, <3>1 DEF CallTypes
    <2>2. /\ answer' \in [Requests -> {"none", "waiting", "ok", "error"}]
          /\ svc' \in [Requests -> {"idle", "entering", "calling", "pausing", "ended"}]
          /\ pending' \in [Requests -> SUBSET Breakers]
          /\ breaker' \in [Breakers -> BreakerState]
          /\ crashes' \in 0 .. MaxCrashes
      BY <1>1, PaymentsAssumption DEF Crash, TypeOK, BreakerState
    <2>3. abandoned' \in [Requests -> BOOLEAN]
      BY <1>1 DEF Crash, TypeOK
    <2> QED
      BY <1>1, <2>1, <2>2, <2>3 DEF TypeOK, CallTypes
  <1>6. StillKnown
    BY <1>1, <1>4 DEF StillKnown
  <1>7. ASSUME NEW r \in Requests PROVE Sound(r)'
    <2>1. Sound(r) /\ round[r] \in Nat /\ effects[r] \in Nat /\ lost[r] \in Nat
      BY <1>1 DEF IInv, TypeOK
    <2>2. Serial(r)' => Serial(r)
      BY <1>1, <1>4 DEF Serial
    <2>3. Control(r)'
      <3>1. \A k \in Rnds : k > round[r] => call'[r][k] = Unsent
        BY <1>3, <2>1 DEF Sound, Control, Unsent
      <3>2. \A k \in Rnds : call'[r][k].st # "backoff"
        BY <1>3
      <3>3. svc'[r] \in {"idle", "ended"} /\ (svc'[r] = "idle" <=> svc[r] = "idle")
        BY <1>4
      <3>4. answer[r] = "none" <=> answer'[r] = "none"
        BY <1>4
      <3> QED
        BY <1>1, <1>4, <2>1, <3>1, <3>2, <3>3, <3>4 DEF Sound, Control
    <2>4. Sequential(r)'
      <3>1. \A k \in Rnds : call[r][k].st \in Failed => call'[r][k].st \in Failed
        BY <1>3 DEF Failed
      <3>2. svc'[r] \notin {"entering", "pausing"}
        BY <1>4
      <3> QED
        BY <1>1, <2>1, <2>2, <3>1, <3>2 DEF Sound, Sequential
    <2>5. Accounted(r)'
      <3>1. \A k \in Rnds : call'[r][k].st \in Busy => call[r][k].st \in Busy
        BY <1>3 DEF Busy
      <3>2. svc'[r] \notin {"entering", "pausing"}
        BY <1>4
      <3> QED
        BY <1>1, <2>1, <2>2, <3>1, <3>2 DEF Sound, Accounted
    <2>6. Settled(r)'
      <3>1. \A k \in Rnds : call[r][k].st \in Over => call'[r][k].st \in Over
        BY <1>3 DEF Over
      <3>2. CASE answer[r] = "ok" \/ (answer[r] = "error" /\ ~abandoned[r])
        BY <1>1, <1>4, <2>1, <2>2, <3>1, <3>2 DEF Sound, Settled, Serial
      <3>3. CASE answer[r] = "waiting" /\ ~abandoned'[r]
        <4>1. ~abandoned[r] /\ svc[r] \in {"entering", "ended"}
          BY <1>1, <1>4, <2>1, <3>3 DEF Sound, Control, TypeOK
        <4>2. CASE svc[r] = "entering"
          <5>1. \A k \in Rnds : call[r][k].st \in Failed
            BY <2>1, <4>1, <4>2 DEF Sound, Sequential, Serial
          <5> QED
            BY <1>4, <3>1, <4>2, <5>1 DEF Settled, Failed, Over
        <4>3. CASE svc[r] = "ended"
          BY <2>1, <3>3, <4>3 DEF Sound, Control
        <4> QED
          BY <4>1, <4>2, <4>3
      <3>4. CASE answer[r] = "none" \/ abandoned'[r]
        BY <1>1, <1>4, <2>1, <3>1, <3>4 DEF Settled, Sound, Serial
      <3> QED
        BY <1>1, <1>4, <3>2, <3>3, <3>4 DEF TypeOK
    <2>7. Targeted(r)'
      BY <1>1, <1>6, <2>1 DEF Sound, Targeted, StillKnown, TypeOK, Intents
    <2>8. Shown(r)'
      <3>1. \A k \in Rnds : call'[r][k].st \in {"executed", "ok"} => call[r][k].st \in {"executed", "ok"}
        BY <1>3
      <3> QED
        BY <1>1, <1>4, <2>1, <3>1 DEF Sound, Shown
    <2>9. answer'[r] = "error" /\ effects'[r] > 0 => lost'[r] > 0 \/ abandoned'[r]
      <3>1. CASE svc[r] \in {"calling", "pausing"}
        BY <1>4, <3>1
      <3>2. CASE svc[r] = "entering"
        <4>1. Serial(r) => effects[r] <= lost[r]
          BY <2>1, <3>2 DEF Sound, Accounted
        <4>2. effects[r] > 0 /\ effects[r] <= lost[r] => lost[r] > 0
          BY <2>1
        <4>3. abandoned[r] => abandoned'[r]
          BY <1>4
        <4> QED
          BY <1>1, <4>1, <4>2, <4>3 DEF Serial
      <3>3. CASE svc[r] \in {"idle", "ended"}
        BY <1>1, <1>4, <2>1, <3>3 DEF Sound, Control
      <3> QED
        BY <1>1, <3>1, <3>2, <3>3 DEF TypeOK
    <2> QED
      BY <1>1, <2>1, <2>3, <2>4, <2>5, <2>6, <2>7, <2>8, <2>9 DEF Sound
  <1>8. LedgerOK'
    BY <1>1 DEF LedgerOK
  <1>9. ASSUME NEW r \in Requests PROVE OwnIntent(r)'
    BY <1>1, <1>4, ShowsNow DEF OwnIntent
  <1> QED
    BY <1>5, <1>7, <1>8, <1>9 DEF IInv

-----------------------------------------------------------------------------
(* The theorems *)

\* Every step of the system keeps the invariant.
LEMMA NextInv == IInv /\ [Next]_vars => IInv'
  <1> SUFFICES ASSUME IInv, [Next]_vars PROVE IInv'
    OBVIOUS
  <1>1. ASSUME NEW r \in Requests,
               Arrive(r) \/ Invalid(r) \/ StartRound(r) \/ Rejected(r) \/ InnerTimeout(r)
        PROVE IInv'
    BY <1>1, ArriveInv, InvalidInv, StartRoundInv, RejectedInv, InnerTimeoutInv
  <1>2. ASSUME NEW r \in Requests, NEW b \in Breakers, OuterTimeout(r, b) PROVE IInv'
    BY <1>2, OuterTimeoutInv
  <1>3. ASSUME NEW r \in Requests, NEW k \in Rnds,
               Execute(r, k) \/ ExecuteStray(r, k) \/ Succeed(r, k) \/ Fail(r, k) \/ Lose(r, k) \/ Retry(r, k)
        PROVE IInv'
    BY <1>3, ExecuteInv, ExecuteStrayInv, SucceedInv, FailInv, LoseInv, RetryInv
  <1>4. ASSUME NEW b \in Breakers, HalfOpen(b) PROVE IInv'
    BY <1>4, HalfOpenInv
  <1>5. CASE Crash
    BY <1>5, CrashInv
  <1>6. CASE UNCHANGED vars
    <2>1. UNCHANGED <<op, target, part, answer, svc, round, pending, breaker, call, ledger,
                      effects, lost, abandoned, crashes>>
      BY <1>6 DEF vars, callerVars, serviceVars, stripeVars, historyVars
    <2>2. TypeOK' /\ LedgerOK'
      BY <2>1 DEF IInv, TypeOK, LedgerOK
    <2>3. ASSUME NEW q \in Requests PROVE Sound(q)' /\ OwnIntent(q)'
      <3>1. Same(q) /\ StillKnown
        BY <2>1 DEF Same, StillKnown
      <3>2. LedgerShows(q)' /\ OwnIntent(q)'
        BY <2>1, ShowsNow DEF LedgerShows, OwnIntent
      <3> QED
        BY <3>1, <3>2, Frame
    <2> QED
      BY <2>2, <2>3 DEF IInv
  <1> QED
    BY <1>1, <1>2, <1>3, <1>4, <1>5, <1>6 DEF Next

\* The inductive invariant holds in every state the services and Stripe reach,
\* for any numbers of requests, intents, rounds, attempts and crashes.
THEOREM Invariance == Spec => []IInv
  <1>1. Init => IInv
    BY InitInv
  <1>2. IInv /\ [Next]_vars => IInv'
    BY NextInv
  <1> QED
    BY <1>1, <1>2, PTL DEF Spec

\* The variables of Payments keep their types: no request makes more than
\* MaxRetries rounds or MaxAttempts attempts in one, whatever is configured.
THEOREM TypeCorrect == Spec => []TypeOK
  <1>1. IInv => TypeOK
    BY DEF IInv
  <1> QED
    BY <1>1, Invariance, PTL

\* PaymentService and EscrowService answer "ok" only for what Stripe did.
THEOREM OkIsTrue == Spec => []OkMeansDone
  <1>1. IInv => OkMeansDone
    BY DEF IInv, OkMeansDone, Sound, Shown
  <1> QED
    BY <1>1, Invariance, PTL

\* The nested retry loops repeat an execution only after a lost response.
THEOREM DuplicatesAreExplained == Spec => []DuplicatesExplained
  <1>1. IInv => DuplicatesExplained
    BY DEF IInv, DuplicatesExplained, Sound
  <1> QED
    BY <1>1, Invariance, PTL

\* An error hides an execution only after a lost response, a timeout or a crash.
THEOREM ErrorsAreExplained == Spec => []ErrorExplained
  <1>1. IInv => ErrorExplained
    BY DEF IInv, ErrorExplained, Sound
  <1> QED
    BY <1>1, Invariance, PTL

\* The idempotency key of processPayment makes one intent of all retries.
THEOREM CreationIsIdempotent == Spec => []OneIntentPerCreate
  <1>1. IInv => OneIntentPerCreate
    BY DEF IInv, OneIntentPerCreate, Sound
  <1> QED
    BY <1>1, Invariance, PTL

\* No money moves for a request that has been answered "ok": what a timeout of
\* the escrow breaker left on the wire finds the intent captured already.
THEOREM OkIsQuiet == Spec => QuietAfterOk
  <1>1. ASSUME IInv, [Next]_vars
        PROVE  [\A r \in Requests : answer[r] = "ok" => effects'[r] = effects[r]]_vars
    <2>1. ASSUME NEW r \in Requests, NEW k \in Rnds, answer[r] = "ok", Executable(r), Perform(r),
                 call[r][k].st \in {"sent", "stray"}
          PROVE  FALSE
      <3>1. Sound(r) /\ op[r] # "none"
        BY <1>1, <2>1, Started DEF IInv
      <3>2. ~Serial(r)
        BY <2>1, <3>1 DEF Sound, Settled, Over
      <3>3. op[r] \in Captures /\ effects[r] > 0
        BY <2>1, <3>1, <3>2 DEF Sound, Shown, Serial, Captures
      <3>4. ledger[target[r]].state = "held"
        BY <1>1, <2>1, <3>1, <3>3, ExecutedIntent
      <3> QED
        BY <3>1, <3>3, <3>4 DEF Sound, Shown
    <2>2. ASSUME NEW r \in Requests, NEW k \in Rnds, Execute(r, k) \/ ExecuteStray(r, k), Perform(r), Executable(r),
                 NEW q \in Requests, answer[q] = "ok"
          PROVE  effects'[q] = effects[q]
      BY <1>1, <2>1, <2>2 DEF Execute, ExecuteStray, Perform, IInv, TypeOK, stripeVars
    <2>3. \/ UNCHANGED effects
          \/ \E r \in Requests, k \in Rnds : (Execute(r, k) \/ ExecuteStray(r, k)) /\ Perform(r) /\ Executable(r)
      BY <1>1 DEF Next, Arrive, Invalid, StartRound, Rejected, InnerTimeout, OuterTimeout, Execute, ExecuteStray,
             Succeed, Fail, Lose, Retry, HalfOpen, Crash, stripeVars, vars
    <2> QED
      BY <2>2, <2>3
  <1> QED
    BY <1>1, Invariance, PTL DEF Spec, QuietAfterOk

-----------------------------------------------------------------------------
(* The services implement the abstract ledger *)

LedgerStep == [Ledger!Next]_(Ledger!vars)

\* A step that moves no money and answers at most r is a step of the ledger,
\* or none at all.
LEMMA TellStep ==
  ASSUME IInv, NEW r \in Requests, UNCHANGED <<op, target, ledger, effects>>,
         \/ answer' = Told(r, "error") \/ UNCHANGED answer
         \/ answer' = Told(r, "ok") /\ effects[r] > 0
  PROVE  LedgerStep
  <1>1. answer \in [Requests -> {"none", "waiting", "ok", "error"}]
    BY DEF IInv, TypeOK
  <1>2. CASE answer' = answer
    BY <1>2 DEF LedgerStep, Ledger!vars
  <1>3. CASE answer[r] = "waiting" /\ answer' = Told(r, "error")
    <2>1. Ledger!AnswerErrors({r})
      BY <1>1, <1>3 DEF Ledger!AnswerErrors, Told
    <2> QED
      BY <2>1 DEF LedgerStep, Ledger!Next
  <1>4. CASE answer[r] = "waiting" /\ answer' = Told(r, "ok") /\ effects[r] > 0
    <2>1. Ledger!AnswerOk(r)
      BY <1>1, <1>4 DEF Ledger!AnswerOk, Told
    <2> QED
      BY <2>1 DEF LedgerStep, Ledger!Next
  <1>5. answer[r] # "waiting" => answer' = answer
    BY <1>1 DEF Told
  <1> QED
    BY <1>2, <1>3, <1>4, <1>5

\* A failed round answers "error" or leaves its caller waiting.
LEMMA FailRoundTells ==
  ASSUME NEW r \in Requests, NEW k, NEW base, NEW through, FailRound(r, k, base, through)
  PROVE  answer' = Told(r, "error") \/ UNCHANGED answer
  BY DEF FailRound, FailRequest

\* A failed attempt answers "error" or leaves its caller waiting.
LEMMA FailAttemptTells ==
  ASSUME NEW r \in Requests, NEW k \in Rnds, NEW e, FailAttempt(r, k, e)
  PROVE  answer' = Told(r, "error") \/ UNCHANGED answer
  BY FailRoundTells DEF FailAttempt

\* What Stripe executes takes the one intent forward.
LEMMA PerformStep ==
  ASSUME IInv, NEW r \in Requests, NEW k \in Rnds, call[r][k].st \in {"sent", "stray"},
         Executable(r), Perform(r), UNCHANGED <<op, target, answer>>
  PROVE  LedgerStep
  <1>1. Sound(r) /\ TypeOK /\ LedgerOK /\ op[r] # "none" /\ op[r] \in Ops /\ answer[r] # "none"
    BY Started DEF IInv, TypeOK
  <1>2. /\ target[r] \in Intents /\ ledger \in [Intents -> IntentStates(Amount)] /\ effects \in [Requests -> Nat]
        /\ Amount \in Nat \ {0} /\ part[r] \in 0 .. Amount
    BY <1>1, PaymentsAssumption DEF TypeOK, IntentStates
  <1>3. CASE Replayed(r)
    BY <1>3 DEF Perform, stripeVars, LedgerStep, Ledger!vars
  <1>4. CASE ~Replayed(r)
    <2> DEFINE i == target[r]
    <2>1. ledger' = [ledger EXCEPT ![i] = Executed(r)] /\ effects' = [effects EXCEPT ![r] = @ + 1]
      BY <1>4 DEF Perform
    <2>2. answer[r] # "ok"
      <3>1. CASE Serial(r)
        BY <1>1, <3>1 DEF Sound, Settled, Over
      <3>2. CASE ~Serial(r)
        <4>1. effects[r] = 0
          BY <1>1, <1>2, <3>2, ExecutedIntent DEF Sound, Shown, Serial, Captures
        <4> QED
          BY <1>1, <4>1 DEF Sound, Shown
      <3> QED
        BY <3>1, <3>2
    <2>3. Ledger!Forward(Amount, op[r], ledger[i], Executed(r))
      <3>1. CASE op[r] \in Creations
        <4>1. i = r /\ \/ op[r] = "create" /\ effects[r] = 0
                       \/ op[r] = "hold"
          BY <1>1, <1>2, <1>4, <3>1 DEF Sound, Targeted, Replayed, Creations
        <4>2. \/ ledger[r].state = "none" /\ effects[r] = 0
              \/ ledger[r].state = "held" /\ op[r] = "hold" /\ effects[r] > 0
          BY <1>1, <1>2, <2>2, <3>1, <4>1, ShowsNow DEF OwnIntent, Creations
        <4> QED
          BY <1>1, <1>2, <3>1, <4>1, <4>2 DEF Executed, Creations, Captures, Refunds, Ledger!Forward,
               Ledger!Captures, Ledger!Refunds, LedgerOK, IntentStates
      <3>2. CASE op[r] \in Captures
        <4>1. ledger[i].state = "held"
          BY <1>1, <3>2, ExecutedIntent
        <4>2. Executed(r) = [state |-> "captured", refunded |-> 0]
          BY <3>2 DEF Executed, Captures, Refunds
        <4> QED
          BY <3>2, <4>1, <4>2 DEF Captures, Ledger!Captures, Ledger!Forward
      <3>3. CASE op[r] \in Refunds
        <4>1. CASE ledger[i].state = "held"
          BY <1>2, <3>3, <4>1 DEF Executed, Refunds, Captures, Ledger!Refunds, Ledger!Forward
        <4>2. CASE ledger[i].state # "held"
          <5> DEFINE d == Due(r)
                     n == ledger[i].refunded + d
          <5>1. ledger[i].state = "captured" /\ n <= Amount /\ ledger[i].refunded \in 0 .. Amount
            BY <1>2, <3>3, <4>2 DEF Executable, Refunds, Creations, Captures, IntentStates
          <5>2. d \in Nat /\ d > 0
            BY <1>1, <1>2, <5>1 DEF Due, LedgerOK
          <5>3. Executed(r) = [state |-> IF n = Amount THEN "returned" ELSE "captured", refunded |-> n]
            BY <3>3, <4>2 DEF Executed, Refunds, Captures
          <5> HIDE DEF d
          <5>4. n \in (ledger[i].refunded + 1) .. Amount
            BY <1>2, <5>1, <5>2
          <5> HIDE DEF n
          <5>5. op[r] = "escrowRefund" => n = Amount
            BY <1>1, <1>2, <5>1 DEF n, d, Due, Sound, Targeted, LedgerOK
          <5> QED
            BY <1>2, <3>3, <5>1, <5>3, <5>4, <5>5 DEF Ledger!Forward, Refunds, Ledger!Refunds
        <4> QED
          BY <4>1, <4>2
      <3> QED
        BY <1>1, <3>1, <3>2, <3>3 DEF Ops, Creations, Captures, Refunds
    <2>4. Ledger!Move(r)
      <3>1. ledger'[i] = Executed(r) /\ ledger' = [ledger EXCEPT ![i] = ledger'[i]]
        BY <1>2, <2>1
      <3>2. answer[r] \in {"waiting", "error"}
        BY <1>1, <2>2 DEF TypeOK
      <3>3. Executed(r) \in Ledger!IntentStates(Amount)
        BY <1>1, ExecutedIntent DEF IntentStates, Ledger!IntentStates
      <3> QED
        BY <1>2, <2>1, <2>3, <3>1, <3>2, <3>3 DEF Ledger!Move
    <2> QED
      BY <2>4 DEF LedgerStep, Ledger!Next
  <1> QED
    BY <1>3, <1>4

\* Every step of the services is a step of the ledger, or none at all.
LEMMA NextTells == IInv /\ [Next]_vars => LedgerStep
  <1> SUFFICES ASSUME IInv, [Next]_vars PROVE LedgerStep
    OBVIOUS
  <1>1. CASE UNCHANGED <<op, target, answer, effects, ledger>>
    BY <1>1 DEF LedgerStep, Ledger!vars
  <1>2. ASSUME NEW r \in Requests, Arrive(r) PROVE LedgerStep
    <2>1. answer[r] = "none"
      BY <1>2 DEF Arrive, IInv, Sound, Control
    <2>2. PICK o \in Offered, i \in Intents : Ledger!Ask(r, o, i)
      BY <1>2, <2>1 DEF Arrive, Ledger!Ask, stripeVars, Intents, Known
    <2>3. o \in Ledger!Ops
      BY PaymentsAssumption DEF Ops, Creations, Captures, Refunds, Ledger!Ops,
             Ledger!Creations, Ledger!Captures, Ledger!Refunds
    <2> QED
      BY <2>2, <2>3 DEF LedgerStep, Ledger!Next
  <1>3. ASSUME NEW r \in Requests, Invalid(r) PROVE LedgerStep
    BY <1>3, TellStep DEF Invalid, stripeVars, callerVars
  <1>4. ASSUME NEW r \in Requests, Rejected(r) PROVE LedgerStep
    <2>1. answer' = Told(r, "error") \/ UNCHANGED answer
      BY <1>4, FailRoundTells DEF Rejected, FailRequest
    <2> QED
      BY <1>4, <2>1, TellStep DEF Rejected, stripeVars, callerVars
  <1>5. ASSUME NEW r \in Requests, InnerTimeout(r) PROVE LedgerStep
    BY <1>5, FailRoundTells, TellStep DEF InnerTimeout, stripeVars, callerVars
  <1>6. ASSUME NEW r \in Requests, NEW b \in Breakers, OuterTimeout(r, b) PROVE LedgerStep
    BY <1>6, TellStep DEF OuterTimeout, stripeVars, callerVars
  <1>7. ASSUME NEW r \in Requests, NEW k \in Rnds, Execute(r, k) \/ ExecuteStray(r, k) PROVE LedgerStep
    <2>1. CASE Executable(r) /\ Perform(r)
      BY <1>7, <2>1, PerformStep DEF Execute, ExecuteStray, callerVars
    <2>2. CASE ~(Executable(r) /\ Perform(r))
      BY <1>1, <1>7, <2>2 DEF Execute, ExecuteStray, stripeVars, callerVars
    <2> QED
      BY <2>1, <2>2
  <1>8. ASSUME NEW r \in Requests, NEW k \in Rnds, Succeed(r, k) PROVE LedgerStep
    <2>1. effects[r] > 0
      BY <1>8 DEF Succeed, IInv, Sound, Shown
    <2>2. UNCHANGED <<op, target, ledger, effects>> /\ (answer' = Told(r, "ok") \/ UNCHANGED answer)
      BY <1>8 DEF Succeed, SucceedRequest, stripeVars, callerVars
    <2> QED
      BY <2>1, <2>2, TellStep
  <1>9. ASSUME NEW r \in Requests, NEW k \in Rnds, Fail(r, k) \/ Lose(r, k) PROVE LedgerStep
    <2>1. UNCHANGED <<op, target, ledger, effects>> /\ \E e : FailAttempt(r, k, e)
      BY <1>9 DEF Fail, Lose, stripeVars, callerVars
    <2> QED
      BY <2>1, FailAttemptTells, TellStep
  <1>10. ASSUME Crash PROVE LedgerStep
    <2> DEFINE S == {r \in Requests : answer[r] = "waiting"}
    <2>1. Ledger!AnswerErrors(S)
      BY <1>10 DEF Crash, Ledger!AnswerErrors, stripeVars, callerVars
    <2>2. S \in SUBSET Requests
      OBVIOUS
    <2> QED
      BY <2>1, <2>2 DEF LedgerStep, Ledger!Next
  <1>11. ASSUME NEW r \in Requests, NEW k \in Rnds, StartRound(r) \/ Retry(r, k) PROVE LedgerStep
    BY <1>1, <1>11 DEF StartRound, Retry, stripeVars, callerVars
  <1>12. ASSUME NEW b \in Breakers, HalfOpen(b) PROVE LedgerStep
    BY <1>1, <1>12 DEF HalfOpen, stripeVars, callerVars
  <1>13. CASE UNCHANGED vars
    BY <1>1, <1>13 DEF vars, callerVars, stripeVars
  <1>14. 1 \in Rnds
    BY PaymentsAssumption DEF Rnds
  <1> HIDE DEF LedgerStep
  <1> QED
    BY <1>2, <1>3, <1>4, <1>5, <1>6, <1>7, <1>8, <1>9, <1>10, <1>11, <1>12, <1>13, <1>14 DEF Next

\* The services, with all their retries, breakers, timeouts, lost responses and
\* crashes, implement the abstract ledger: a request is answered once, "ok"
\* only after money moved, and money moves only for requests not told "ok".
THEOREM ImplementsTheLedger == Spec => ImplementsLedger
  <1>1. Init => Ledger!Init
    BY DEF Init, Ledger!Init, Intents
  <1> QED
    BY <1>1, NextTells, Invariance, PTL DEF Spec, ImplementsLedger, Ledger!Spec, LedgerStep

=============================================================================
