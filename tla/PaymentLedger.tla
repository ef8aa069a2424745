--------------------------- MODULE PaymentLedger ---------------------------
(***************************************************************************)
(* What the payment services promise, without breakers, retries, timers or *)
(* lost responses: a request is answered once; money moves only in the     *)
(* intent a received request names, only the way its operation says, and   *)
(* only as long as it has not been told "ok"; "ok" is told only of money   *)
(* that moved.  An "error" promises nothing: the money may have moved, or  *)
(* may move later.                                                         *)
(***************************************************************************)
EXTENDS StripeIntents

CONSTANTS Requests,   \* calls of the services
          Intents,    \* payment intents at Stripe
          Amount      \* what one intent is worth

VARIABLES op,         \* the operation each request asks for
          target,     \* the intent it names
          answer,     \* what each caller has been told
          effects,    \* how often Stripe acted on behalf of each request
          ledger      \* the intents

vars == <<op, target, answer, effects, ledger>>

Init ==
    /\ op = [r \in Requests |-> "none"]
    /\ target \in [Requests -> Intents]
    /\ answer = [r \in Requests |-> "none"]
    /\ effects = [r \in Requests |-> 0]
    /\ ledger \in [Intents -> [state : {"none", "held", "captured"}, refunded : {0}]]

Ask(r, o, i) ==
    /\ answer[r] = "none"
    /\ op' = [op EXCEPT ![r] = o]
    /\ target' = [target EXCEPT ![r] = i]
    /\ answer' = [answer EXCEPT ![r] = "waiting"]
    /\ UNCHANGED <<effects, ledger>>

Move(r) ==
    /\ answer[r] \in {"waiting", "error"}
    /\ effects' = [effects EXCEPT ![r] = @ + 1]
    /\ \E j \in IntentStates(Amount) :
          /\ Forward(Amount, op[r], ledger[target[r]], j)
          /\ ledger' = [ledger EXCEPT ![target[r]] = j]
    /\ UNCHANGED <<op, target, answer>>

AnswerOk(r) ==
    /\ answer[r] = "waiting"
    /\ effects[r] > 0
    /\ answer' = [answer EXCEPT ![r] = "ok"]
    /\ UNCHANGED <<op, target, effects, ledger>>

\* A crash fails every request in flight at once.
AnswerErrors(S) ==
    /\ \A r \in S : answer[r] = "waiting"
    /\ answer' = [r \in Requests |-> IF r \in S THEN "error" ELSE answer[r]]
    /\ UNCHANGED <<op, target, effects, ledger>>

Next ==
    \/ \E r \in Requests : Move(r) \/ AnswerOk(r) \/ \E o \in Ops, i \in Intents : Ask(r, o, i)
    \/ \E S \in SUBSET Requests : AnswerErrors(S)

Spec == Init /\ [][Next]_vars

=============================================================================
