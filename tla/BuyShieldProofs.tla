--------------------------- MODULE BuyShieldProofs ---------------------------
(***************************************************************************)
(* BuyShield is correct for any number of calls and holds, and whatever    *)
(* fields of the protection its callers pass on: the invariant says what   *)
(* an escrow operation that is under way may still do, and what it did.    *)
(***************************************************************************)
EXTENDS BuyShield, TLAPS

States == {"none", "held", "captured", "returned"}

\* The shape of the variables.
Shape ==
    /\ kind \in [Calls -> Kinds \cup {"none"}]
    /\ about \in [Calls -> Holds]
    /\ phase \in [Calls -> {"idle", "analysing", "escrow", "ended"}]
    /\ photo \in [Calls -> Photos]
    /\ reply \in [Calls -> {"none", "waiting", "created", "approved", "cancelled",
                            "active", "expired", "error"}]
    /\ expired \subseteq Holds
    /\ breaker \in [Breakers -> BreakerState]
    /\ op \in [Calls -> Ops \cup {"none"}]
    /\ target \in [Calls -> Holds]
    /\ answer \in [Calls -> {"none", "waiting", "ok", "error"}]
    /\ effects \in [Calls -> Nat]
    /\ ledger \in [Holds -> IntentStates(Amount)]

\* How far a call is, and what it has asked for.
Control(c) ==
    /\ phase[c] = "escrow" <=> answer[c] = "waiting"
    /\ phase[c] = "idle" <=> kind[c] = "none"
    /\ phase[c] = "idle" => reply[c] = "none"
    /\ phase[c] = "analysing" => kind[c] = "verify" /\ op[c] = "none" /\ reply[c] = "waiting"
    /\ op[c] = "none" <=> answer[c] = "none"
    /\ kind[c] = "none" => op[c] = "none"
    /\ kind[c] \notin {"none", "create"} => about[c] \in Known

\* An escrow operation is asked for by the operation that may, about the hold
\* of its protection, and for its reason.
Asked(c) ==
    /\ op[c] \in {"none", "hold", "release", "escrowRefund"}
    /\ op[c] = "none" => effects[c] = 0
    /\ op[c] # "none" => target[c] = about[c]
    /\ op[c] = "hold" => kind[c] = "create"
    /\ op[c] = "release" => kind[c] = "verify" /\ Proves(photo[c])
    /\ op[c] = "escrowRefund" => kind[c] = "cancel"

\* What an escrow operation did is visible in the hold.
Shown(c) ==
    effects[c] > 0 =>
        /\ op[c] = "hold" => ledger[about[c]].state # "none"
        /\ op[c] = "release" => ledger[about[c]].state \in {"captured", "returned"}
        /\ op[c] = "escrowRefund" => ledger[about[c]].state = "returned"

\* Success is told only of an escrow operation that took effect.
Truthful(c) ==
    /\ reply[c] = "created" => op[c] = "hold" /\ effects[c] > 0
    /\ reply[c] = "cancelled" => op[c] = "escrowRefund" /\ effects[c] > 0
    /\ reply[c] = "approved" /\ photo[c].isGood => op[c] = "release" /\ effects[c] > 0

\* Only a returned hold has refunded anything, and then all of it.  A hold was
\* captured, or returned, on behalf of a call.
LedgerOK ==
    \A i \in Holds :
        /\ ledger[i].state # "returned" <=> ledger[i].refunded = 0
        /\ ledger[i].state = "captured" =>
              \E c \in Calls : about[c] = i /\ op[c] = "release"
        /\ ledger[i].state = "returned" =>
              \E c \in Calls : about[c] = i /\ op[c] = "escrowRefund"

IInv ==
    /\ Shape
    /\ LedgerOK
    /\ \A c \in Calls : Control(c) /\ Asked(c) /\ Shown(c) /\ Truthful(c)

-----------------------------------------------------------------------------
(* Lemmas *)

\* Nothing of call d changes, but for its creation breaker.
Same(d) ==
    /\ kind'[d] = kind[d] /\ about'[d] = about[d] /\ phase'[d] = phase[d]
    /\ photo'[d] = photo[d] /\ reply'[d] = reply[d] /\ op'[d] = op[d]
    /\ target'[d] = target[d] /\ answer'[d] = answer[d] /\ effects'[d] = effects[d]

\* What a hold has been through stays.
Grows ==
    \A i \in Holds :
        /\ ledger[i].state # "none" => ledger'[i].state # "none"
        /\ ledger[i].state \in {"captured", "returned"} =>
              ledger'[i].state \in {"captured", "returned"}
        /\ ledger[i].state = "returned" => ledger'[i].state = "returned"

\* Whatever happens to a breaker, it is in one of its states.
LEMMA BreakerShape ==
  ASSUME breaker \in [Breakers -> BreakerState], NEW S
  PROVE  /\ AfterFires(breaker, S) \in [Breakers -> BreakerState]
         /\ AfterSuccesses(breaker, S) \in [Breakers -> BreakerState]
         /\ AfterFailures(breaker, S) \subseteq [Breakers -> BreakerState]
         /\ AfterFailures(AfterFires(breaker, S), S) \subseteq [Breakers -> BreakerState]
  BY DEF AfterFires, AfterSuccesses, AfterFailures, OnFire, OnSuccess, BreakerState

\* A hold whose creation was reported stays known.
LEMMA KnownStays ==
  ASSUME \A d \in Calls : kind[d] = "create" /\ reply[d] = "created" =>
                              kind'[d] = "create" /\ reply'[d] = "created"
  PROVE  Known \subseteq Known'
  BY DEF Known

\* The invariant of a step that changes one call.
LEMMA OneCall ==
  ASSUME IInv, NEW c \in Calls, \A d \in Calls \ {c} : Same(d),
         Shape', LedgerOK', Grows, Known \subseteq Known',
         Control(c)', Asked(c)', Shown(c)', Truthful(c)'
  PROVE  IInv'
  <1>1. ASSUME NEW d \in Calls \ {c} PROVE Control(d)' /\ Asked(d)' /\ Shown(d)' /\ Truthful(d)'
    <2>1. Same(d) /\ Control(d) /\ Asked(d) /\ Shown(d) /\ Truthful(d) /\ about[d] \in Holds
      BY DEF IInv, Shape
    <2>2. Control(d)'
      BY <2>1 DEF Same, Control
    <2>3. Asked(d)'
      BY <2>1 DEF Same, Asked
    <2>4. Shown(d)'
      BY <2>1 DEF Same, Shown, Grows
    <2>5. Truthful(d)'
      BY <2>1 DEF Same, Truthful
    <2> QED
      BY <2>2, <2>3, <2>4, <2>5
  <1> QED
    BY <1>1 DEF IInv

\* A step that leaves the holds alone, and every operation asked for, keeps
\* what is known of the holds.
LEMMA LedgerKept ==
  ASSUME IInv, ledger' = ledger,
         \A d \in Calls : op[d] # "none" => op'[d] = op[d] /\ about'[d] = about[d]
  PROVE  LedgerOK' /\ Grows
  BY DEF IInv, LedgerOK, Grows

\* A call that asks for an escrow operation, for its reason.
LEMMA AskInv ==
  ASSUME IInv, NEW c \in Calls, NEW o \in {"hold", "release", "escrowRefund"}, NEW i \in Holds,
         Asks(c, o, i), op[c] = "none", reply[c] \in {"none", "waiting"},
         kind' \in [Calls -> Kinds \cup {"none"}], about' \in [Calls -> Holds],
         photo' \in [Calls -> Photos], breaker' \in [Breakers -> BreakerState],
         expired' = expired,
         \A d \in Calls \ {c} : kind'[d] = kind[d] /\ about'[d] = about[d] /\ photo'[d] = photo[d],
         about'[c] = i, kind'[c] # "none",
         o = "hold" => kind'[c] = "create",
         o = "release" => kind'[c] = "verify" /\ Proves(photo'[c]),
         o = "escrowRefund" => kind'[c] = "cancel", o # "hold" => i \in Known
  PROVE  IInv'
  <1>1. Shape /\ Asked(c)
    BY DEF IInv
  <1>2. /\ phase' = [phase EXCEPT ![c] = "escrow"]
        /\ reply' = [reply EXCEPT ![c] = IF @ \in {"none", "waiting"} THEN "waiting" ELSE @]
        /\ op' = [op EXCEPT ![c] = o] /\ target' = [target EXCEPT ![c] = i]
        /\ answer' = [answer EXCEPT ![c] = "waiting"] /\ effects' = effects /\ ledger' = ledger
    BY DEF Asks, Told, Escrow!Ask
  <1>3. Shape'
    BY <1>1, <1>2 DEF Shape, Ops, Creations, Captures, Refunds
  <1>4. /\ phase'[c] = "escrow" /\ reply'[c] = "waiting" /\ op'[c] = o /\ target'[c] = i
        /\ answer'[c] = "waiting" /\ effects'[c] = 0
    BY <1>1, <1>2 DEF Shape, Asked
  <1>5. \A d \in Calls \ {c} : Same(d)
    BY <1>1, <1>2 DEF Shape, Same
  <1>6. LedgerOK' /\ Grows
    BY <1>2, <1>5, LedgerKept DEF Same
  <1>7. Known \subseteq Known'
    BY <1>5, KnownStays DEF Same
  <1>8. Control(c)' /\ Asked(c)' /\ Shown(c)' /\ Truthful(c)'
    BY <1>4, <1>7 DEF Control, Asked, Shown, Truthful, Proves
  <1> QED
    BY <1>3, <1>5, <1>6, <1>7, <1>8, OneCall

\* A call that ends without an escrow operation, and claims nothing of one.
LEMMA EndInv ==
  ASSUME IInv, NEW c \in Calls, NEW a \in {"approved", "active", "expired", "error"},
         Ends(c, a), op[c] = "none", reply[c] \in {"none", "waiting"},
         UNCHANGED escrowVars, UNCHANGED expired,
         kind' \in [Calls -> Kinds \cup {"none"}], about' \in [Calls -> Holds],
         photo' \in [Calls -> Photos], breaker' \in [Breakers -> BreakerState],
         \A d \in Calls \ {c} : kind'[d] = kind[d] /\ about'[d] = about[d] /\ photo'[d] = photo[d],
         kind'[c] # "none",
         a = "approved" => ~photo'[c].isGood, kind'[c] # "create" => about'[c] \in Known
  PROVE  IInv'
  <1>1. Shape /\ Asked(c) /\ Control(c)
    BY DEF IInv
  <1>2. /\ phase' = [phase EXCEPT ![c] = "ended"]
        /\ reply' = [reply EXCEPT ![c] = IF @ \in {"none", "waiting"} THEN a ELSE @]
        /\ UNCHANGED <<op, target, answer, effects, ledger>>
    BY DEF Ends, Told, escrowVars
  <1>3. Shape'
    BY <1>1, <1>2 DEF Shape
  <1>4. phase'[c] = "ended" /\ reply'[c] = a /\ op'[c] = "none" /\ answer'[c] = "none" /\ effects'[c] = 0
    BY <1>1, <1>2 DEF Shape, Asked, Control
  <1>5. \A d \in Calls \ {c} : Same(d)
    BY <1>1, <1>2 DEF Shape, Same
  <1>6. LedgerOK' /\ Grows
    BY <1>2, <1>4, <1>5, LedgerKept DEF Same
  <1>7. Known \subseteq Known'
    BY <1>5, KnownStays DEF Same
  <1>8. Control(c)' /\ Asked(c)' /\ Shown(c)' /\ Truthful(c)'
    BY <1>4, <1>7 DEF Control, Asked, Shown, Truthful
  <1> QED
    BY <1>3, <1>5, <1>6, <1>7, <1>8, OneCall

\* A call that has not arrived yet has asked for nothing.
LEMMA Fresh ==
  ASSUME IInv, NEW c \in Calls, NEW k \in Kinds, NEW i \in Holds, Arrives(c, k, i)
  PROVE  /\ op[c] = "none" /\ reply[c] \in {"none", "waiting"}
         /\ kind' \in [Calls -> Kinds \cup {"none"}] /\ about' \in [Calls -> Holds]
         /\ kind'[c] = k /\ about'[c] = i /\ k # "none"
         /\ \A d \in Calls \ {c} : kind'[d] = kind[d] /\ about'[d] = about[d]
  BY DEF IInv, Shape, Control, Arrives, Kinds

-----------------------------------------------------------------------------
(* One lemma per action *)

\* A creation asks for a hold of its own, or is refused.
LEMMA CreateProtectionInv ==
  ASSUME IInv, NEW c \in Calls, CreateProtection(c) PROVE IInv'
  <1>1. Arrives(c, "create", c) /\ photo' = photo /\ expired' = expired /\ Shape /\ c \in Holds
    BY DEF CreateProtection, IInv, Holds
  <1>2. "create" \in Kinds
    BY DEF Kinds
  <1>3. breaker' \in [Breakers -> BreakerState]
    BY <1>1, BreakerShape DEF CreateProtection, Shape
  <1>4. CASE Asks(c, "hold", c)
    BY <1>1, <1>2, <1>3, <1>4, Fresh, AskInv DEF Shape
  <1>5. CASE Ends(c, "error") /\ UNCHANGED escrowVars
    BY <1>1, <1>2, <1>3, <1>5, Fresh, EndInv DEF Shape
  <1> QED
    BY <1>4, <1>5 DEF CreateProtection

\* A creation whose breaker timed out is told "error" while it goes on.
LEMMA CreationTimeoutInv ==
  ASSUME IInv, NEW c \in Calls, CreationTimeout(c) PROVE IInv'
  <1>1. Shape /\ Control(c) /\ Asked(c) /\ Shown(c) /\ Truthful(c)
    BY DEF IInv
  <1>2. /\ UNCHANGED <<kind, about, phase, photo, expired, op, target, answer, effects, ledger>>
        /\ reply' = [reply EXCEPT ![c] = "error"] /\ phase[c] = "escrow" /\ kind[c] = "create"
        /\ reply[c] = "waiting"
    BY DEF CreationTimeout, Told, Shape, escrowVars
  <1>3. Shape'
    BY <1>1, <1>2, BreakerShape DEF Shape, CreationTimeout
  <1>4. \A d \in Calls \ {c} : Same(d)
    BY <1>1, <1>2 DEF Shape, Same
  <1>5. LedgerOK' /\ Grows
    BY <1>2, LedgerKept
  <1>6. Known \subseteq Known'
    BY <1>2, <1>4, KnownStays DEF Same
  <1>7. Control(c)' /\ Asked(c)' /\ Shown(c)' /\ Truthful(c)'
    BY <1>1, <1>2, <1>6 DEF Control, Asked, Shown, Truthful, Shape
  <1> QED
    BY <1>3, <1>4, <1>5, <1>6, <1>7, OneCall

\* A verification is refused, or awaits the analysis.
LEMMA SubmitVerificationInv ==
  ASSUME IInv, NEW c \in Calls, SubmitVerification(c) PROVE IInv'
  <1>1. PICK i \in Known : Arrives(c, "verify", i)
    BY DEF SubmitVerification
  <1>2. i \in Holds /\ "verify" \in Kinds
    BY DEF Known, Holds, Kinds
  <1>3. Shape /\ Control(c) /\ Asked(c) /\ UNCHANGED <<photo, expired, escrowVars>>
    BY DEF IInv, SubmitVerification
  <1>4. breaker' \in [Breakers -> BreakerState]
    BY <1>3, BreakerShape DEF SubmitVerification, Shape
  <1>5. CASE Ends(c, "error")
    BY <1>1, <1>2, <1>3, <1>4, <1>5, Fresh, EndInv DEF Shape
  <1>6. CASE phase' = [phase EXCEPT ![c] = "analysing"] /\ Told(c, "waiting")
    <2>1. /\ op[c] = "none" /\ answer[c] = "none" /\ effects[c] = 0 /\ kind'[c] = "verify"
          /\ kind' \in [Calls -> Kinds \cup {"none"}] /\ about' \in [Calls -> Holds]
          /\ \A d \in Calls \ {c} : kind'[d] = kind[d] /\ about'[d] = about[d]
      BY <1>1, <1>2, <1>3, Fresh DEF Control, Asked
    <2>2. reply' = [reply EXCEPT ![c] = "waiting"]
      BY <1>1, <1>2, <1>3, <1>6, Fresh DEF Told, Shape
    <2>3. UNCHANGED <<op, target, answer, effects, ledger>>
      BY <1>3 DEF escrowVars
    <2>4. Shape'
      BY <1>3, <1>4, <1>6, <2>1, <2>2, <2>3 DEF Shape
    <2>5. \A d \in Calls \ {c} : Same(d)
      BY <1>3, <1>6, <2>1, <2>2, <2>3 DEF Shape, Same
    <2>6. LedgerOK' /\ Grows
      BY <2>1, <2>3, LedgerKept
    <2>7. Known \subseteq Known' /\ about'[c] \in Known
      <3>1. reply[c] # "created"
        BY <1>1, <1>2, Fresh
      <3> QED BY <1>1, <1>3, <2>5, <3>1, KnownStays DEF Same, Arrives, Shape
    <2>8. Control(c)' /\ Asked(c)' /\ Shown(c)' /\ Truthful(c)'
      BY <1>3, <1>6, <2>1, <2>2, <2>3, <2>7 DEF Control, Asked, Shown, Truthful, Shape
    <2> QED
      BY <2>4, <2>5, <2>6, <2>7, <2>8, OneCall
  <1> QED
    BY <1>5, <1>6 DEF SubmitVerification

\* The analysis is in: only a photo that proves releases anything.
LEMMA AnalysedInv ==
  ASSUME IInv, NEW c \in Calls, Analysed(c) PROVE IInv'
  <1>1. PICK p \in Photos : photo' = [photo EXCEPT ![c] = p] /\ Decide(c, p)
    BY DEF Analysed
  <1>2. /\ Shape /\ UNCHANGED <<kind, about, expired>> /\ kind[c] = "verify"
        /\ op[c] = "none" /\ reply[c] = "waiting" /\ about[c] \in Holds
        /\ about[c] \in Known
    BY DEF IInv, Analysed, Control, Shape
  <1>3. breaker' \in [Breakers -> BreakerState]
    BY <1>2, BreakerShape DEF Analysed, Shape
  <1>4. /\ photo' \in [Calls -> Photos] /\ photo'[c] = p
        /\ \A d \in Calls \ {c} : photo'[d] = photo[d]
    BY <1>1, <1>2 DEF Shape
  <1>5. CASE Asks(c, "release", about[c]) /\ Proves(p)
    BY <1>2, <1>3, <1>4, <1>5, AskInv DEF Shape
  <1>6. CASE Ends(c, "error") /\ UNCHANGED escrowVars
    BY <1>2, <1>3, <1>4, <1>6, EndInv DEF Shape
  <1>7. CASE Ends(c, "approved") /\ ~p.isGood /\ UNCHANGED escrowVars
    BY <1>2, <1>3, <1>4, <1>7, EndInv DEF Shape
  <1> QED
    BY <1>1, <1>5, <1>6, <1>7 DEF Decide, Proves

\* A failed analysis claims nothing.
LEMMA AnalysisFailsInv ==
  ASSUME IInv, NEW c \in Calls, AnalysisFails(c) PROVE IInv'
  <1>1. /\ Shape /\ UNCHANGED <<kind, about, photo, expired, escrowVars>>
        /\ op[c] = "none" /\ reply[c] = "waiting" /\ kind[c] = "verify" /\ Ends(c, "error")
        /\ about[c] \in Known
    BY DEF IInv, AnalysisFails, Control
  <1>2. breaker' \in [Breakers -> BreakerState]
    BY <1>1, BreakerShape DEF AnalysisFails, Shape
  <1> QED
    BY <1>1, <1>2, EndInv DEF Shape

\* A cancellation asks for the refund.
LEMMA CancelProtectionInv ==
  ASSUME IInv, NEW c \in Calls, CancelProtection(c) PROVE IInv'
  <1>1. PICK i \in Known : Arrives(c, "cancel", i) /\ Asks(c, "escrowRefund", i)
    BY DEF CancelProtection
  <1>2. i \in Holds /\ "cancel" \in Kinds
    BY DEF Known, Holds, Kinds
  <1>3. Shape /\ UNCHANGED <<photo, expired, breaker>>
    BY DEF IInv, CancelProtection
  <1> QED
    BY <1>1, <1>2, <1>3, Fresh, AskInv DEF Shape

\* A status request asks for nothing.
LEMMA GetProtectionStatusInv ==
  ASSUME IInv, NEW c \in Calls, GetProtectionStatus(c) PROVE IInv'
  <1>1. PICK i \in Known :
          /\ Arrives(c, "status", i)
          /\ Ends(c, IF i \in expired THEN "expired" ELSE "active")
          /\ UNCHANGED escrowVars
    BY DEF GetProtectionStatus
  <1>2. i \in Holds /\ "status" \in Kinds
    BY DEF Known, Holds, Kinds
  <1>3. Shape /\ UNCHANGED <<photo, expired, breaker>>
    BY DEF IInv, GetProtectionStatus
  <1>4. CASE Ends(c, "expired")
    BY <1>1, <1>2, <1>3, <1>4, Fresh, EndInv DEF Shape
  <1>5. CASE Ends(c, "active")
    BY <1>1, <1>2, <1>3, <1>5, Fresh, EndInv DEF Shape
  <1> QED
    BY <1>1, <1>4, <1>5

\* Stripe takes the hold forward, as the operation of the call says.
LEMMA EscrowMovesInv ==
  ASSUME IInv, NEW c \in Calls, EscrowMoves(c) PROVE IInv'
  <1>1. Shape /\ LedgerOK /\ Control(c) /\ Asked(c) /\ Shown(c) /\ Truthful(c) /\ Amount \in Nat \ {0}
    BY BuyShieldAssumption DEF IInv
  <1>2. /\ UNCHANGED <<kind, about, phase, photo, reply, expired, breaker, op, target, answer>>
        /\ answer[c] \in {"waiting", "error"} /\ effects' = [effects EXCEPT ![c] = @ + 1]
    BY DEF EscrowMoves, Escrow!Move, callVars
  <1>3. PICK j \in Escrow!IntentStates(Amount) :
          /\ Escrow!Forward(Amount, op[c], ledger[target[c]], j)
          /\ ledger' = [ledger EXCEPT ![target[c]] = j]
    BY DEF EscrowMoves, Escrow!Move
  <1> DEFINE i == about[c]
  <1>4. target[c] = i /\ i \in Holds /\ op[c] \in {"hold", "release", "escrowRefund"}
    BY <1>1, <1>2 DEF Control, Asked, Shape
  <1>5. j \in IntentStates(Amount) /\ ledger' = [ledger EXCEPT ![i] = j]
    BY <1>3, <1>4 DEF Escrow!IntentStates, IntentStates
  <1> HIDE DEF i
  <1>6. /\ j.state # "returned" <=> j.refunded = 0
        /\ op[c] = "hold" => ledger[i].state \in {"none", "held"} /\ j.state = "held"
        /\ op[c] = "release" => ledger[i].state = "held" /\ j.state = "captured"
        /\ op[c] = "escrowRefund" => ledger[i].state \in {"held", "captured"} /\ j.state = "returned"
    BY <1>1, <1>3, <1>4 DEF Escrow!Forward, Escrow!Captures, Escrow!Refunds, Escrow!Creations
  <1>7. Shape'
    BY <1>1, <1>2, <1>4, <1>5 DEF Shape
  <1>8. \A h \in Holds : ledger'[h] = IF h = i THEN j ELSE ledger[h]
    BY <1>1, <1>4, <1>5 DEF Shape
  <1>9. Grows
    BY <1>4, <1>6, <1>8 DEF Grows
  <1>10. LedgerOK'
    <2> SUFFICES ASSUME NEW h \in Holds
                 PROVE  /\ ledger'[h].state # "returned" <=> ledger'[h].refunded = 0
                        /\ ledger'[h].state = "captured" =>
                              \E d \in Calls : about[d] = h /\ op[d] = "release"
                        /\ ledger'[h].state = "returned" =>
                              \E d \in Calls : about[d] = h /\ op[d] = "escrowRefund"
      BY <1>2 DEF LedgerOK
    <2>1. CASE h = i
      BY <1>4, <1>6, <1>8, <2>1 DEF i
    <2>2. CASE h # i
      BY <1>1, <1>8, <2>2 DEF LedgerOK
    <2> QED
      BY <2>1, <2>2
  <1>11. effects'[c] = effects[c] + 1 /\ effects[c] \in Nat /\ \A d \in Calls \ {c} : Same(d)
    BY <1>1, <1>2 DEF Shape, Same
  <1>15. Known \subseteq Known'
    BY <1>2, KnownStays
  <1>12. Control(c)' /\ Asked(c)'
    BY <1>1, <1>2, <1>4, <1>11, <1>15 DEF Control, Asked
  <1>13. Shown(c)'
    BY <1>2, <1>4, <1>6, <1>8 DEF Shown, i
  <1>14. Truthful(c)'
    BY <1>1, <1>2, <1>11 DEF Truthful
  <1> QED
    BY <1>2, <1>7, <1>9, <1>10, <1>11, <1>12, <1>13, <1>14, <1>15, OneCall

\* A call whose escrow operation succeeded tells of what it did.
LEMMA EscrowSucceedsInv ==
  ASSUME IInv, NEW c \in Calls, EscrowSucceeds(c) PROVE IInv'
  <1>1. Shape /\ Control(c) /\ Asked(c) /\ Shown(c) /\ Truthful(c)
    BY DEF IInv
  <1> DEFINE a == Success[kind[c]]
  <1>2. /\ UNCHANGED <<kind, about, photo, expired, op, target, effects, ledger>>
        /\ phase[c] = "escrow" /\ effects[c] > 0
        /\ phase' = [phase EXCEPT ![c] = "ended"] /\ answer' = [answer EXCEPT ![c] = "ok"]
        /\ reply' = [reply EXCEPT ![c] = IF @ \in {"none", "waiting"} THEN a ELSE @]
    BY DEF EscrowSucceeds, Escrow!AnswerOk, Ends, Told
  <1>3. breaker' \in [Breakers -> BreakerState]
    BY <1>1, BreakerShape DEF EscrowSucceeds, Shape
  <1>4. /\ a \in {"created", "approved", "cancelled"}
        /\ a = "created" <=> kind[c] = "create"
        /\ a = "approved" <=> kind[c] = "verify"
        /\ a = "cancelled" => kind[c] = "cancel"
    BY <1>1, <1>2 DEF Success, Shape, Kinds, Control, Asked
  <1>5. \A d \in Calls \ {c} : Same(d)
    BY <1>1, <1>2 DEF Shape, Same
  <1>6. /\ phase'[c] = "ended" /\ answer'[c] = "ok"
        /\ reply'[c] = IF reply[c] \in {"none", "waiting"} THEN a ELSE reply[c]
    BY <1>1, <1>2 DEF Shape
  <1>7. op[c] \in {"hold", "release", "escrowRefund"}
    BY <1>1, <1>2 DEF Control, Asked
  <1>8. Shape'
    BY <1>1, <1>2, <1>3, <1>4 DEF Shape
  <1>9. LedgerOK' /\ Grows
    BY <1>2, LedgerKept
  <1> HIDE DEF a
  <1>12. Known \subseteq Known'
    BY <1>2, <1>5, <1>6, KnownStays DEF Same
  <1>10. Control(c)' /\ Asked(c)' /\ Shown(c)'
    BY <1>1, <1>2, <1>6, <1>7, <1>12 DEF Control, Asked, Shown
  <1>11. Truthful(c)'
    BY <1>1, <1>2, <1>4, <1>6, <1>7 DEF Truthful, Asked, Control
  <1> QED
    BY <1>5, <1>8, <1>9, <1>10, <1>11, <1>12, OneCall

\* A call whose escrow operation failed tells of nothing.
LEMMA EscrowFailsInv ==
  ASSUME IInv, NEW c \in Calls, EscrowFails(c) PROVE IInv'
  <1>1. Shape /\ Control(c) /\ Asked(c) /\ Shown(c) /\ Truthful(c)
    BY DEF IInv
  <1>2. /\ UNCHANGED <<kind, about, photo, expired, op, target, effects, ledger>>
        /\ phase[c] = "escrow"
        /\ phase' = [phase EXCEPT ![c] = "ended"]
        /\ answer' = [d \in Calls |-> IF d \in {c} THEN "error" ELSE answer[d]]
        /\ reply' = [reply EXCEPT ![c] = IF @ \in {"none", "waiting"} THEN "error" ELSE @]
    BY DEF EscrowFails, Escrow!AnswerErrors, Ends, Told
  <1>3. breaker' \in [Breakers -> BreakerState]
    BY <1>1, BreakerShape DEF EscrowFails, Shape
  <1>4. \A d \in Calls \ {c} : Same(d)
    BY <1>1, <1>2 DEF Shape, Same
  <1>5. /\ phase'[c] = "ended" /\ answer'[c] = "error"
        /\ reply'[c] = IF reply[c] \in {"none", "waiting"} THEN "error" ELSE reply[c]
    BY <1>1, <1>2 DEF Shape
  <1>6. Shape'
    BY <1>1, <1>2, <1>3 DEF Shape
  <1>7. LedgerOK' /\ Grows
    BY <1>2, LedgerKept
  <1>9. Known \subseteq Known'
    BY <1>2, <1>4, <1>5, KnownStays DEF Same
  <1>8. Control(c)' /\ Asked(c)' /\ Shown(c)' /\ Truthful(c)'
    BY <1>1, <1>2, <1>5, <1>9 DEF Control, Asked, Shown, Truthful
  <1> QED
    BY <1>4, <1>6, <1>7, <1>8, <1>9, OneCall

\* Time, and breakers that let a fire through again, change no call.
LEMMA TimePasses ==
  ASSUME IInv, UNCHANGED <<callVars, escrowVars>>, expired \subseteq expired', expired' \subseteq Holds,
         breaker' \in [Breakers -> BreakerState]
  PROVE  IInv'
  <1>1. UNCHANGED <<kind, about, phase, photo, reply, op, target, answer, effects, ledger>>
    BY DEF callVars, escrowVars
  <1>2. Shape'
    BY <1>1 DEF IInv, Shape
  <1>3. LedgerOK'
    BY <1>1, LedgerKept
  <1>4. ASSUME NEW d \in Calls PROVE Control(d)' /\ Asked(d)' /\ Shown(d)' /\ Truthful(d)'
    <2>1. Known' = Known
      BY <1>1 DEF Known
    <2> QED
      BY <1>1, <2>1 DEF IInv, Control, Asked, Shown, Truthful
  <1> QED
    BY <1>2, <1>3, <1>4 DEF IInv

\* Every action keeps the invariant.
LEMMA NextInv == IInv /\ [Next]_vars => IInv'
  <1> SUFFICES ASSUME IInv, [Next]_vars PROVE IInv'
    OBVIOUS
  <1>1. ASSUME NEW i \in Holds, Expire(i) PROVE IInv'
    BY <1>1, TimePasses DEF Expire, IInv, Shape
  <1>2. ASSUME NEW b \in Breakers, HalfOpen(b) PROVE IInv'
    BY <1>2, TimePasses DEF HalfOpen, IInv, Shape, BreakerState
  <1>3. CASE UNCHANGED vars
    BY <1>3, TimePasses DEF vars, IInv, Shape
  <1> QED
    BY <1>1, <1>2, <1>3, CreateProtectionInv, CreationTimeoutInv, SubmitVerificationInv, AnalysedInv,
       AnalysisFailsInv, CancelProtectionInv, GetProtectionStatusInv, EscrowMovesInv,
       EscrowSucceedsInv, EscrowFailsInv DEF Next

\* No call and no release or refund in the initial states.
LEMMA InitInv == Init => IInv
  <1> SUFFICES ASSUME Init PROVE IInv
    OBVIOUS
  <1>1. Shape
    BY BuyShieldAssumption DEF Init, Shape, Holds, Photos, NoPhoto, BreakerState, IntentStates
  <1>2. LedgerOK
    BY DEF Init, LedgerOK
  <1>3. ASSUME NEW c \in Calls PROVE Control(c) /\ Asked(c) /\ Shown(c) /\ Truthful(c)
    BY DEF Init, Control, Asked, Shown, Truthful
  <1> QED
    BY <1>1, <1>2, <1>3 DEF IInv

-----------------------------------------------------------------------------
(* Theorems *)

\* The invariant holds in every reachable state.
LEMMA Invariant == Spec => []IInv
  <1> QED
    BY InitInv, NextInv, PTL DEF Spec

\* BuyShield keeps the shape of its state.
THEOREM BuyShieldTypeCorrect == Spec => []TypeOK
  <1>1. IInv => TypeOK
    BY DEF IInv, Shape, Control, TypeOK
  <1> QED
    BY <1>1, Invariant, PTL

\* The seller is paid only after a photo of that protection proved valid,
\* genuine and good, however many verifications, cancellations and status
\* requests run at once.
THEOREM SellerPaidOnlyAfterProof == Spec => []PaidOnlyAfterProof
  <1>1. IInv => PaidOnlyAfterProof
    BY DEF IInv, LedgerOK, Asked, PaidOnlyAfterProof
  <1> QED
    BY <1>1, Invariant, PTL

\* The money of a hold moves on only if its creation was reported, and goes back
\* to the buyer only by a cancellation, however long ago the hold expired.
THEOREM BuyerRefundedForCause == Spec => []ReturnedForCause
  <1>1. IInv => ReturnedForCause
    <2> SUFFICES ASSUME IInv, NEW i \in Holds
                 PROVE  /\ ledger[i].state \in {"captured", "returned"} => i \in Known
                        /\ ledger[i].refunded > 0 =>
                              \E c \in Calls : about[c] = i /\ kind[c] = "cancel"
      BY DEF ReturnedForCause
    <2>1. ledger[i].state \in {"captured", "returned"} =>
             \E c \in Calls : about[c] = i /\ op[c] \in {"release", "escrowRefund"}
      BY DEF IInv, LedgerOK
    <2>2. \A c \in Calls : op[c] \in {"release", "escrowRefund"} =>
             kind[c] \notin {"none", "create"} /\ about[c] \in Known
      BY DEF IInv, Asked, Control
    <2>3. ledger[i].refunded > 0 =>
             \E c \in Calls : about[c] = i /\ kind[c] = "cancel"
      BY DEF IInv, LedgerOK, Asked
    <2> QED
      BY <2>1, <2>2, <2>3
  <1> QED
    BY <1>1, Invariant, PTL

\* What callers are told of the money is true and stays true.
THEOREM RepliesAreTrue == Spec => []RepliesTrue
  <1>1. IInv => RepliesTrue
    BY DEF IInv, Asked, Shown, Truthful, RepliesTrue
  <1> QED
    BY <1>1, Invariant, PTL

=============================================================================
