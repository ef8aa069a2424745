---------------------------- MODULE PaymentsInv ----------------------------
(***************************************************************************)
(* The inductive invariant of Payments: what the safety properties of that *)
(* module rest on.  TLC checks it as an invariant; PaymentsProofs proves   *)
(* it for every value of the constants.                                    *)
(***************************************************************************)
EXTENDS Payments

Busy == {"sent", "backoff", "stray"}
Over == {"unsent", "ok", "error"}
Failed == {"unsent", "error"}

\* Rounds of r never overlap: only a release whose escrow breaker timed out
\* starts the next round while the last one's attempt is still on the wire.
Serial(r) == op[r] # "release" \/ ~abandoned[r]

\* Where the service's loop may stand.
Control(r) ==
    /\ svc[r] = "idle" <=> op[r] = "none"
    /\ svc[r] = "idle" => answer[r] = "none" /\ target[r] = r /\ effects[r] = 0
    /\ svc[r] # "idle" => answer[r] # "none"
    /\ svc[r] \in {"idle", "entering"} => round[r] = 0 /\ pending[r] = {}
    /\ svc[r] = "calling" => round[r] > 0
    /\ svc[r] = "ended" => answer[r] # "waiting"
    /\ svc[r] = "pausing" => round[r] < Rounds(op[r])
    /\ svc[r] = "pausing" => pending[r] \cap Inner(op[r]) = {}
    /\ pending[r] \cap Inner(op[r]) # {} => svc[r] = "calling"
    /\ \A k \in Rnds : k > round[r] => call[r][k] = Unsent
    /\ \A k \in Rnds : call[r][k].st = "backoff" => call[r][k].attempt < MaxAttempts

\* Serial requests have at most the attempt of their last round under way.
Sequential(r) ==
    Serial(r) =>
        /\ \A k \in Rnds : k # round[r] => call[r][k].st \in Failed
        /\ svc[r] \in {"entering", "pausing"} => \A k \in Rnds : call[r][k].st \in Failed

\* While Stripe may still be asked, every execution so far was lost.
Accounted(r) ==
    Serial(r) =>
        /\ effects[r] <= lost[r] + 1
        /\ svc[r] \in {"entering", "pausing"} => effects[r] <= lost[r]
        /\ \A k \in Rnds : call[r][k].st \in Busy => effects[r] <= lost[r]

\* An "ok", and an "error" that nothing cut short, leave nothing under way.
Settled(r) ==
    (answer[r] = "ok" /\ Serial(r)) \/ (answer[r] = "error" /\ ~abandoned[r]) =>
        svc[r] = "ended" /\ \A k \in Rnds : call[r][k].st \in Over

\* Callers only name intents they know, and only a refund names an amount.
Targeted(r) ==
    /\ op[r] # "refund" => part[r] = 0
    /\ \/ op[r] \in Creations \cup {"none"} /\ target[r] = r
       \/ /\ op[r] \notin Creations \cup {"none"}
          /\ target[r] \in Old \/ (op[target[r]] \in Creations /\ answer[target[r]] = "ok")

\* What Stripe did for r is visible in the intent.
Shown(r) ==
    /\ \A k \in Rnds : call[r][k].st \in {"executed", "ok"} => effects[r] > 0
    /\ answer[r] = "ok" => effects[r] > 0
    /\ op[r] \in Captures /\ effects[r] > 0 =>
          ledger[target[r]].state \in {"captured", "returned"}
    /\ op[r] \in Refunds /\ effects[r] > 0 => ledger[target[r]].refunded > 0

\* Until its creation is answered, nobody but its creator touches an intent.
OwnIntent(r) ==
    /\ op[r] \in Creations \cup {"none"} /\ effects[r] = 0 => ledger[r].state = "none"
    /\ op[r] = "hold" /\ effects[r] > 0 /\ answer[r] # "ok" => ledger[r].state = "held"

\* An intent that is not captured has refunded nothing, one that has refunded
\* all of it is returned.
LedgerOK ==
    \A i \in Intents :
        /\ ledger[i].state \in {"none", "held"} => ledger[i].refunded = 0
        /\ ledger[i].state = "captured" => ledger[i].refunded < Amount

\* All of it about one request; the last three conjuncts are the safety
\* properties of Payments, request by request.
Sound(r) ==
    /\ Control(r)
    /\ Sequential(r)
    /\ Accounted(r)
    /\ Settled(r)
    /\ Targeted(r)
    /\ Shown(r)
    /\ effects[r] <= 1 + lost[r]
    /\ answer[r] = "error" /\ effects[r] > 0 => lost[r] > 0 \/ abandoned[r]
    /\ op[r] = "create" => effects[r] <= 1

IInv ==
    /\ TypeOK
    /\ LedgerOK
    /\ \A r \in Requests : Sound(r) /\ OwnIntent(r)

=============================================================================
