----------------------------- MODULE BuyShield -----------------------------
(***************************************************************************)
(* BuyShield protections: BuyShieldController, VerificationService and     *)
(* EscrowService.checkEscrowExpiration, on top of the escrow operations.   *)
(* Of those only what PaymentLedger promises is used, and Payments shows   *)
(* that the services keep that promise: an escrow call moves its money at  *)
(* some time after it was asked, "ok" means that it has, "error" means     *)
(* nothing, and the money may still move after an "error".                 *)
(*                                                                         *)
(* No code stores a protection: its status is never updated, and what an   *)
(* operation knows of it is what its caller passes.                        *)
(***************************************************************************)
EXTENDS StripeIntents, Opossum

CONSTANTS Calls,        \* calls of the BuyShield operations
          Old,          \* holds from earlier runs, known to their buyers
          Amount,       \* what one hold is worth
          MaxAttempts,  \* MAX_VERIFICATION_ATTEMPTS
          Sent,         \* the fields of the protection that callers pass on
          MaxMoves      \* bound: how often Stripe acts on behalf of one call

\* EscrowService and VerificationService take a whole protection.  Those that
\* BuyShieldController builds for a hold and a verification lack these fields.
Fields == {"transactionId", "escrowId"}

ASSUME BuyShieldAssumption ==
    /\ Amount \in Nat \ {0}
    /\ MaxAttempts \in Nat
    /\ MaxMoves \in Nat
    /\ Sent \subseteq Fields
    /\ Calls \cap Old = {}

VARIABLES
    kind,     \* the operation of each call
    about,    \* the hold of the protection it is about
    phase,    \* where it stands
    photo,    \* what the image analysis found
    reply,    \* what its caller has been told
    expired,  \* the holds whose 72 hours are over
    breaker,  \* the breakers of the controller and of the image analysis
    op, target, answer, effects, ledger   \* the escrow operations

callVars == <<kind, about, phase, photo, reply>>
escrowVars == <<op, target, answer, effects, ledger>>
vars == <<callVars, expired, breaker, escrowVars>>

Holds == Calls \cup Old

Escrow == INSTANCE PaymentLedger WITH Requests <- Calls, Intents <- Holds

Kinds == {"create", "verify", "cancel", "status"}
Breakers == {"creation", "analysis"}
Photos == [isValid : BOOLEAN, isFraudulent : BOOLEAN, isGood : BOOLEAN]
NoPhoto == [isValid |-> FALSE, isFraudulent |-> FALSE, isGood |-> FALSE]

Init ==
    /\ kind = [c \in Calls |-> "none"]
    /\ about = [c \in Calls |-> c]
    /\ phase = [c \in Calls |-> "idle"]
    /\ photo = [c \in Calls |-> NoPhoto]
    /\ reply = [c \in Calls |-> "none"]
    /\ expired = {}
    /\ breaker = [b \in Breakers |-> "closed"]
    /\ op = [c \in Calls |-> "none"]
    /\ target = [c \in Calls |-> c]
    /\ answer = [c \in Calls |-> "none"]
    /\ effects = [c \in Calls |-> 0]
    /\ ledger = [i \in Holds |->
          [state |-> IF i \in Old THEN "held" ELSE "none", refunded |-> 0]]

-----------------------------------------------------------------------------
\* The holds whose id a caller can pass.
Known == Old \cup {c \in Calls : kind[c] = "create" /\ reply[c] = "created"}

Arrives(c, k, i) ==
    /\ kind[c] = "none"
    /\ kind' = [kind EXCEPT ![c] = k]
    /\ about' = [about EXCEPT ![c] = i]

Told(c, a) == reply' = [reply EXCEPT ![c] = IF @ \in {"none", "waiting"} THEN a ELSE @]

\* Bug: an error is logged but not passed on.
BugEndsSilently(c, a) ==
    /\ phase' = [phase EXCEPT ![c] = "ended"]
    /\ IF a = "error" THEN UNCHANGED reply ELSE Told(c, a)

\* The call is over without, or after, an escrow operation.
Ends(c, a) ==
    /\ phase' = [phase EXCEPT ![c] = "ended"]
    /\ Told(c, a)

\* The call awaits escrow operation o.
Asks(c, o, i) ==
    /\ Escrow!Ask(c, o, i)
    /\ phase' = [phase EXCEPT ![c] = "escrow"]
    /\ Told(c, "waiting")

-----------------------------------------------------------------------------
(* The operations.  Those named Bug... are the next one with a plausible bug. *)

\* createProtection, behind the controller's breaker.  StripeService rejects a
\* hold without a transaction id before it asks Stripe.
CreateProtection(c) ==
    /\ Arrives(c, "create", c)
    /\ \/ /\ ~Admits(breaker["creation"])
          /\ Ends(c, "error")
          /\ UNCHANGED <<breaker, escrowVars>>
       \/ /\ Admits(breaker["creation"])
          /\ "transactionId" \in Sent
          /\ breaker' = AfterFires(breaker, {"creation"})
          /\ Asks(c, "hold", c)
       \/ /\ Admits(breaker["creation"])
          /\ "transactionId" \notin Sent
          /\ breaker' \in AfterFailures(AfterFires(breaker, {"creation"}), {"creation"})
          /\ Ends(c, "error")
          /\ UNCHANGED escrowVars
    /\ UNCHANGED <<photo, expired>>

\* The controller's breaker times out; the creation of the hold goes on.
CreationTimeout(c) ==
    /\ kind[c] = "create" /\ phase[c] = "escrow" /\ reply[c] = "waiting"
    /\ Told(c, "error")
    /\ breaker' \in AfterFailures(breaker, {"creation"})
    /\ UNCHANGED <<kind, about, phase, photo, expired, escrowVars>>

\* submitVerification and verifyTransaction, up to the image analysis.  The
\* number of attempts is the caller's.
SubmitVerification(c) ==
    /\ \E i \in Known : Arrives(c, "verify", i)
    /\ \E attempts \in 0 .. MaxAttempts :
          \/ /\ attempts >= MaxAttempts \/ ~Admits(breaker["analysis"])
             /\ Ends(c, "error")
             /\ UNCHANGED breaker
          \/ /\ attempts < MaxAttempts
             /\ Admits(breaker["analysis"])
             /\ breaker' = AfterFires(breaker, {"analysis"})
             /\ phase' = [phase EXCEPT ![c] = "analysing"]
             /\ Told(c, "waiting")
    /\ UNCHANGED <<photo, expired, escrowVars>>

\* Bug: the escrow is released before the fraud check.
BugDecideFraudLast(c, p) ==
    \/ ~p.isValid /\ Ends(c, "error") /\ UNCHANGED escrowVars
    \/ p.isValid /\ p.isFraudulent /\ ~p.isGood /\ Ends(c, "error") /\ UNCHANGED escrowVars
    \/ p.isValid /\ ~p.isFraudulent /\ ~p.isGood /\ Ends(c, "approved") /\ UNCHANGED escrowVars
    \/ p.isValid /\ p.isGood /\ "escrowId" \in Sent /\ Asks(c, "release", about[c])
    \/ p.isValid /\ p.isGood /\ "escrowId" \notin Sent /\ Ends(c, "error") /\ UNCHANGED escrowVars

\* Bug: the release is not awaited.
BugDecideUnawaited(c, p) ==
    \/ /\ ~p.isValid \/ p.isFraudulent
       /\ Ends(c, "error")
       /\ UNCHANGED escrowVars
    \/ /\ p.isValid /\ ~p.isFraudulent
       /\ IF p.isGood /\ "escrowId" \in Sent
          THEN Escrow!Ask(c, "release", about[c])
          ELSE UNCHANGED escrowVars
       /\ Ends(c, "approved")

\* The analysis is in: reject the photo, approve it, or approve it and release
\* the escrow first.  Only a good photo (MIN_VERIFICATION_CONFIDENCE) releases
\* anything; without an escrow id every round of the release fails.
Decide(c, p) ==
    \/ /\ ~p.isValid \/ p.isFraudulent
       /\ Ends(c, "error")
       /\ UNCHANGED escrowVars
    \/ /\ p.isValid /\ ~p.isFraudulent /\ ~p.isGood
       /\ Ends(c, "approved")
       /\ UNCHANGED escrowVars
    \/ /\ p.isValid /\ ~p.isFraudulent /\ p.isGood /\ "escrowId" \in Sent
       /\ Asks(c, "release", about[c])
    \/ /\ p.isValid /\ ~p.isFraudulent /\ p.isGood /\ "escrowId" \notin Sent
       /\ Ends(c, "error")
       /\ UNCHANGED escrowVars

Analysed(c) ==
    /\ phase[c] = "analysing"
    /\ \E p \in Photos :
          /\ photo' = [photo EXCEPT ![c] = p]
          /\ Decide(c, p)
    /\ breaker' = AfterSuccesses(breaker, {"analysis"})
    /\ UNCHANGED <<kind, about, expired>>

\* One of the three analyses fails, or the breaker times out on them: what
\* they still find out is dropped.
AnalysisFails(c) ==
    /\ phase[c] = "analysing"
    /\ Ends(c, "error")
    /\ breaker' \in AfterFailures(breaker, {"analysis"})
    /\ UNCHANGED <<kind, about, photo, expired, escrowVars>>

CancelProtection(c) ==
    /\ \E i \in Known : Arrives(c, "cancel", i) /\ Asks(c, "escrowRefund", i)
    /\ UNCHANGED <<photo, expired, breaker>>

\* Bug: the refund waits for the 72 hours only, not for a status ACTIVE.
BugStatusRefunds(c) ==
    /\ \E i \in Known :
          /\ Arrives(c, "status", i)
          /\ IF i \in expired
             THEN Asks(c, "escrowRefund", i)
             ELSE Ends(c, "active") /\ UNCHANGED escrowVars
    /\ UNCHANGED <<photo, expired, breaker>>

\* getProtectionStatus and checkEscrowExpiration.  The refund of an expired hold
\* asks for a protection whose status is ACTIVE; the one it gets has no status.
GetProtectionStatus(c) ==
    /\ \E i \in Known :
          /\ Arrives(c, "status", i)
          /\ Ends(c, IF i \in expired THEN "expired" ELSE "active")
    /\ UNCHANGED <<photo, expired, breaker, escrowVars>>

\* 72 hours after its creation.
Expire(i) ==
    /\ i \notin expired /\ ledger[i].state # "none"
    /\ expired' = expired \cup {i}
    /\ UNCHANGED <<callVars, breaker, escrowVars>>

HalfOpen(b) ==
    /\ breaker[b] = "open"
    /\ breaker' = [breaker EXCEPT ![b] = "halfOpen"]
    /\ UNCHANGED <<callVars, expired, escrowVars>>

-----------------------------------------------------------------------------
(* The escrow operations, as PaymentLedger promises them *)

\* What a call replies once its escrow operation succeeded.
Success == [create |-> "created", verify |-> "approved", cancel |-> "cancelled"]

\* The fire of the controller's breaker that c still waits for.
Fired(c) == IF kind[c] = "create" /\ reply[c] = "waiting" THEN {"creation"} ELSE {}

\* Stripe acts, also after the call was told of an error.
EscrowMoves(c) ==
    /\ effects[c] < MaxMoves
    /\ Escrow!Move(c)
    /\ UNCHANGED <<callVars, expired, breaker>>

EscrowSucceeds(c) ==
    /\ phase[c] = "escrow"
    /\ Escrow!AnswerOk(c)
    /\ Ends(c, Success[kind[c]])
    /\ breaker' = AfterSuccesses(breaker, Fired(c))
    /\ UNCHANGED <<kind, about, photo, expired>>

EscrowFails(c) ==
    /\ phase[c] = "escrow"
    /\ Escrow!AnswerErrors({c})
    /\ Ends(c, "error")
    /\ breaker' \in AfterFailures(breaker, Fired(c))
    /\ UNCHANGED <<kind, about, photo, expired>>

Next ==
    \/ \E c \in Calls :
          \/ CreateProtection(c) \/ CreationTimeout(c)
          \/ SubmitVerification(c) \/ Analysed(c) \/ AnalysisFails(c)
          \/ CancelProtection(c) \/ GetProtectionStatus(c)
          \/ EscrowMoves(c) \/ EscrowSucceeds(c) \/ EscrowFails(c)
    \/ \E i \in Holds : Expire(i)
    \/ \E b \in Breakers : HalfOpen(b)

Spec == Init /\ [][Next]_vars

\* The breaker of the image analysis times out, and so do the breakers around
\* every escrow operation (EveryRequestAnswered in Payments).
FairSpec ==
    /\ Spec
    /\ \A c \in Calls : WF_vars(AnalysisFails(c)) /\ WF_vars(EscrowFails(c))

-----------------------------------------------------------------------------
(* Properties *)

\* The variables keep their shape; a call that waits for an escrow operation
\* is a call whose operation is unanswered.
TypeOK ==
    /\ kind \in [Calls -> Kinds \cup {"none"}]
    /\ about \in [Calls -> Holds]
    /\ phase \in [Calls -> {"idle", "analysing", "escrow", "ended"}]
    /\ photo \in [Calls -> Photos]
    /\ reply \in [Calls -> {"none", "waiting", "created", "approved", "cancelled",
                            "active", "expired", "error"}]
    /\ expired \subseteq Holds
    /\ breaker \in [Breakers -> BreakerState]
    /\ op \in [Calls -> Ops \cup {"none"}]
    /\ target \in [Calls -> Holds]
    /\ answer \in [Calls -> {"none", "waiting", "ok", "error"}]
    /\ effects \in [Calls -> Nat]
    /\ ledger \in [Holds -> IntentStates(Amount)]
    /\ \A c \in Calls : phase[c] = "escrow" <=> answer[c] = "waiting"

Proves(p) == p.isValid /\ ~p.isFraudulent /\ p.isGood

\* The seller is paid only after a photo of that very protection was found
\* valid, genuine and good, whatever else is verified, cancelled or retried at
\* the same time (verifyTransaction checks all three before it releases).
PaidOnlyAfterProof ==
    \A i \in Holds :
        ledger[i].state = "captured" =>
            \E c \in Calls : kind[c] = "verify" /\ about[c] = i /\ Proves(photo[c])

\* The money of a hold moves on only if its creation was reported, not if the
\* controller's breaker reported a failure while Stripe made the hold; and the
\* buyer gets it back only if somebody cancels, not because the 72 hours are over
\* ("automatic refund", escrow.service.ts:192), whether or not anybody was told
\* "expired".
ReturnedForCause ==
    \A i \in Holds :
        /\ ledger[i].state \in {"captured", "returned"} => i \in Known
        /\ ledger[i].refunded > 0 =>
              \E c \in Calls : about[c] = i /\ kind[c] = "cancel"

\* What a caller is told of the money is true when it is told and stays true,
\* though a concurrent call may have moved it on: a protection that was created
\* has its hold, a cancelled one has returned it, and one approved with a good
\* photo has paid, even if the payment was refunded since.
RepliesTrue ==
    \A c \in Calls :
        LET state == ledger[about[c]].state
        IN  /\ reply[c] = "created" => state # "none"
            /\ reply[c] = "cancelled" => state = "returned"
            /\ reply[c] = "approved" /\ photo[c].isGood => state \in {"captured", "returned"}

\* Every call is replied to, also when the image analysis or Stripe hangs.
EveryCallReplied ==
    \A c \in Calls : kind[c] # "none" ~> reply[c] \notin {"none", "waiting"}

=============================================================================
