----------------------------- MODULE RowProofs ------------------------------
(***************************************************************************)
(* What becomes of a transaction's row, and which rules a form has passed  *)
(* before it is stored as one. Each component is proved about by itself;   *)
(* they share the module and no state.                                     *)
(***************************************************************************)
EXTENDS Transactions, Schemas, TLAPS

-----------------------------------------------------------------------------
(***************************************************************************)
(* Transactions: the money of a transaction, its cached copy and the end   *)
(* of its life, for any number of requests, crashes and expiries. The      *)
(* argument: a transaction is named by other handlers only after its       *)
(* creation has been answered, so that only its creation finds its row     *)
(* INITIATED.                                                              *)
(***************************************************************************)

\* Where the handler of a creation stands, the row it has inserted, the payment
\* it has asked for and its answer.
Creates(r) ==
    /\ tx[r] = r
    /\ pc[r] \in {"fire", "paying", "update", "cache", "publish", "done", "failed", "dead"}
    /\ pc[r] # "done" => answer[r] # "ok"
    /\ pc[r] \in {"fire", "paying", "update"} =>
         row[r] # None /\ row[r].status = "INITIATED"
    /\ pc[r] \in {"cache", "publish", "done"} =>
         row[r] # None /\ row[r].status # "INITIATED"
    /\ pc[r] = "fire" => payment[r] = "none"
    /\ pc[r] = "paying" => payment[r] = "running"
    /\ pc[r] = "update" => payment[r] = "created"
    /\ payment[r] = "running" => pc[r] \in {"paying", "failed", "dead"}
    /\ row[r] = None => payment[r] = "none"
    /\ row[r] # None /\ row[r].status # "INITIATED" =>
         payment[r] = "created" /\ row[r].intent
    /\ row[r] # None /\ row[r].status = "INITIATED" /\ payment[r] = "created" =>
         pc[r] \in {"update", "failed", "dead"}

\* A request that creates nothing.
Idles(r) ==
    /\ row[r] = None /\ payment[r] = "none"
    /\ op[r] = None => pc[r] = "idle" /\ answer[r] = "none"
    /\ op[r] # None =>
         /\ tx[r] \in Known
         /\ pc[r] \in {"read", "update", "cache", "publish", "done", "failed", "dead"}

MoneyInv ==
    /\ \A t \in Old : row[t] # None
    /\ \A r \in Requests : IF op[r] = "create" THEN Creates(r) ELSE Idles(r)

\* What a handler is about to cache is the row, unless it was crossed.
CopyInv ==
    /\ \A t \in Ids : row[t] = None => cache[t] = None
    /\ \A r \in cut : pc[r] \in {"failed", "dead"}
    /\ \A r \in Requests : pc[r] = "cache" =>
         /\ copy[r] # None
         /\ tx[r] \in crossed \/ copy[r] = row[tx[r]]

\* Whatever copy a handler reads of a transaction that was created names the
\* intent, so that cancelling it fails.
RefundInv ==
    /\ \A t \in Requests : cache[t] # None => cache[t].intent
    /\ \A t \in Requests : row[t] # None => row[t].status # "CANCELLED"
    /\ \A r \in Requests : tx[r] \in Requests =>
         /\ pc[r] = "cache" => copy[r].intent
         /\ op[r] \notin {"create", "complete"} => pc[r] # "update"

TransactionsInv ==
    TransactionsTypeOK /\ MoneyInv /\ CopyInv /\ StaleExplained /\ RefundInv

LEMMA TransactionsInitInv == TransactionsInit => TransactionsInv
  <1> SUFFICES ASSUME TransactionsInit PROVE TransactionsInv
    OBVIOUS
  <1>1. TransactionsTypeOK
    BY TransactionsAssumption DEF TransactionsInit, TransactionsTypeOK, BreakerState
  <1>2. \A t \in Old : row[t] # None
    BY TransactionsAssumption DEF TransactionsInit, Ids
  <1>3. MoneyInv
    BY <1>2, NoneIsNoValue DEF TransactionsInit, MoneyInv, Idles, Ids, Ops
  <1>4. CopyInv /\ StaleExplained
    BY DEF TransactionsInit, CopyInv, StaleExplained
  <1>5. RefundInv
    BY DEF TransactionsInit, RefundInv, Ids
  <1> QED BY <1>1, <1>3, <1>4, <1>5 DEF TransactionsInv

\* The row a handler works on is there.
LEMMA RowIsThere ==
    ASSUME TransactionsTypeOK, MoneyInv, NEW r \in Requests,
           pc[r] \in {"read", "update", "cache", "publish"}
    PROVE  /\ tx[r] \in Ids /\ row[tx[r]] \in Row
           /\ op[r] = "create" \/ op[r] \in Ops \ {"create"}
           /\ op[r] # "create" /\ tx[r] \in Requests =>
                /\ op[tx[r]] = "create" /\ answer[tx[r]] = "ok"
                /\ row[tx[r]].status # "INITIATED"
  <1>1. op[r] \in Ops \cup {None}
    BY DEF TransactionsTypeOK
  <1>2. CASE op[r] = "create"
    BY <1>2 DEF TransactionsTypeOK, MoneyInv, Creates, Ids
  <1>3. CASE op[r] # "create"
    <2>1. Idles(r)
      BY <1>3 DEF MoneyInv
    <2>2. op[r] \in Ops \ {"create"} /\ tx[r] \in Known
      BY <1>1, <1>3, <2>1 DEF Idles
    <2>3. tx[r] \in Requests =>
            /\ op[tx[r]] = "create" /\ answer[tx[r]] = "ok"
            /\ row[tx[r]] # None /\ row[tx[r]].status # "INITIATED"
      BY <2>2, TransactionsAssumption DEF Known, MoneyInv, Creates
    <2>4. tx[r] \in Ids /\ row[tx[r]] # None
      BY <2>2, <2>3 DEF Known, MoneyInv, Ids
    <2> QED BY <1>3, <2>2, <2>3, <2>4 DEF TransactionsTypeOK
  <1> QED BY <1>2, <1>3

\* What an update writes.
LEMMA UpdatedIs ==
    ASSUME TransactionsTypeOK, MoneyInv, NEW r \in Requests, pc[r] = "update"
    PROVE  /\ Updated(r) \in Row
           /\ op[r] = "create" =>
                Updated(r).status = "PAYMENT_PENDING" /\ Updated(r).intent
           /\ op[r] # "create" =>
                /\ Updated(r).status \in {"COMPLETED", "CANCELLED"}
                /\ Updated(r).intent = row[tx[r]].intent
  <1>1. tx[r] \in Ids /\ row[tx[r]] \in Row /\ (op[r] = "create" => tx[r] = r)
    BY RowIsThere DEF MoneyInv, Creates
  <1>2. CASE op[r] = "create"
    <2>1. Updated(r) = [row[r] EXCEPT !.status = "PAYMENT_PENDING", !.intent = TRUE]
      BY <1>2 DEF Updated
    <2> QED BY <1>1, <1>2, <2>1 DEF Row, Statuses
  <1>3. CASE op[r] = "complete"
    <2>1. Updated(r) = [row[tx[r]] EXCEPT !.status = "COMPLETED"]
      BY <1>3 DEF Updated
    <2> QED BY <1>1, <1>3, <2>1 DEF Row, Statuses
  <1>4. CASE op[r] \notin {"create", "complete"}
    <2>1. Updated(r) = [row[tx[r]] EXCEPT !.status = "CANCELLED"]
      BY <1>4 DEF Updated
    <2> QED BY <1>1, <1>4, <2>1 DEF Row, Statuses
  <1> QED BY <1>2, <1>3, <1>4

-----------------------------------------------------------------------------
\* Types.

LEMMA TypeStep ==
    ASSUME TransactionsTypeOK, MoneyInv, [TransactionsNext]_transactionsVars
    PROVE  TransactionsTypeOK'
  <1> USE TransactionsAssumption DEF TransactionsTypeOK
  <1>1. ASSUME NEW r \in Requests, NEW local \in BOOLEAN, CreateTransaction(r, local)
        PROVE  TransactionsTypeOK'
    <2> DEFINE new == [status |-> "INITIATED", isLocalPickup |-> local, intent |-> FALSE]
    <2>1. new \in Row /\ r \in Ids
      BY DEF Row, Statuses, Ids
    <2>2. row' = [row EXCEPT ![r] = new] \/ UNCHANGED row
      BY <1>1 DEF CreateTransaction
    <2> HIDE DEF new
    <2>3. row' \in [Ids -> Row \cup {None}]
      BY <2>1, <2>2
    <2>4. op' \in [Requests -> Ops \cup {None}] /\ tx' \in [Requests -> Ids \cup {None}]
      BY <1>1, <2>1 DEF CreateTransaction, Ops
    <2>5. \E p \in {"fire", "failed"}, a \in {"tooMany", "none", "error"} :
             pc' = [pc EXCEPT ![r] = p] /\ answer' = [answer EXCEPT ![r] = a]
      BY <1>1 DEF CreateTransaction, Goto
    <2> QED BY <1>1, <2>3, <2>4, <2>5 DEF CreateTransaction, historyVars
  <1>2. ASSUME NEW r \in Requests, Fire(r)
        PROVE  TransactionsTypeOK'
    BY <1>2 DEF Fire, At, Goto, Fail, Tell, OnFire, OnFailure, BreakerState, historyVars
  <1>3. ASSUME NEW r \in Requests, IntentCreated(r)
        PROVE  TransactionsTypeOK'
    BY <1>3 DEF IntentCreated, At, Goto, OnSuccess, BreakerState, historyVars
  <1>4. ASSUME NEW r \in Requests, Declined(r)
        PROVE  TransactionsTypeOK'
    BY <1>4 DEF Declined, At, Goto, Fail, Tell, OnFailure, BreakerState, historyVars
  <1>5. ASSUME NEW r \in Requests, TimeOut(r)
        PROVE  TransactionsTypeOK'
    BY <1>5 DEF TimeOut, At, Goto, Fail, Tell, OnFailure, BreakerState, historyVars
  <1>6. ASSUME ResetTimer
        PROVE  TransactionsTypeOK'
    BY <1>6 DEF ResetTimer, BreakerState, historyVars
  <1>7. ASSUME NEW r \in Requests, NEW o \in Ops \ {"create"}, NEW t \in Ids, Begin(r, o, t)
        PROVE  TransactionsTypeOK'
    BY <1>7 DEF Begin, Goto, historyVars
  <1>8. ASSUME NEW r \in Requests, Read(r)
        PROVE  TransactionsTypeOK'
    BY <1>8 DEF Read, Goto, Fail, Tell, historyVars
  <1>9. ASSUME NEW r \in Requests, Update(r)
        PROVE  TransactionsTypeOK'
    <2>1. Updated(r) \in Row /\ tx[r] \in Ids
      BY <1>9, UpdatedIs, RowIsThere DEF Update, At
    <2>2. crossed' \subseteq Ids
      <3>1. \A q \in Requests : At(q, "cache") => tx[q] \in Ids
        BY RowIsThere DEF At
      <3> QED BY <1>9, <3>1 DEF Update
    <2> QED BY <1>9, <2>1, <2>2 DEF Update, Goto, Fail, Tell
  <1>10. ASSUME NEW r \in Requests, CacheTransaction(r)
         PROVE  TransactionsTypeOK'
    BY <1>10 DEF CacheTransaction, Goto, Fail, Tell
  <1>11. ASSUME NEW r \in Requests, PublishTransactionEvent(r)
         PROVE  TransactionsTypeOK'
    BY <1>11 DEF PublishTransactionEvent, Goto, Tell, historyVars
  <1>12. ASSUME NEW t \in Ids, Expire(t)
         PROVE  TransactionsTypeOK'
    BY <1>12 DEF Expire
  <1>13. ASSUME Crash
         PROVE  TransactionsTypeOK'
    BY <1>13 DEF Crash, BreakerState
  <1>14. ASSUME UNCHANGED transactionsVars
         PROVE  TransactionsTypeOK'
    BY <1>14 DEF transactionsVars
  <1> QED BY <1>1, <1>2, <1>3, <1>4, <1>5, <1>6, <1>7, <1>8, <1>9, <1>10, <1>11,
             <1>12, <1>13, <1>14 DEF TransactionsNext

-----------------------------------------------------------------------------
\* Money.

\* One request moves, and no row but its own.
LEMMA OneMoves ==
    ASSUME MoneyInv, NEW r \in Requests,
           \A q \in Requests \ {r} :
               /\ op'[q] = op[q] /\ tx'[q] = tx[q] /\ pc'[q] = pc[q]
               /\ answer'[q] = answer[q] /\ payment'[q] = payment[q]
               /\ row'[q] = row[q],
           \A t \in Old : row'[t] # None,
           op[r] = "create" /\ answer[r] = "ok" => op'[r] = "create" /\ answer'[r] = "ok",
           IF op'[r] = "create" THEN Creates(r)' ELSE Idles(r)'
    PROVE  MoneyInv'
  <1>1. Known \subseteq Known'
    BY DEF Known
  <1>2. ASSUME NEW q \in Requests \ {r}
        PROVE  IF op'[q] = "create" THEN Creates(q)' ELSE Idles(q)'
    <2>1. CASE op[q] = "create"
      BY <2>1 DEF MoneyInv, Creates
    <2>2. CASE op[q] # "create"
      BY <1>1, <2>2 DEF MoneyInv, Idles
    <2> QED BY <2>1, <2>2
  <1> QED BY <1>2 DEF MoneyInv

\* A request under way whose own row and payment stay.
LEMMA IdlesOn ==
    ASSUME MoneyInv, NEW r \in Requests, op[r] # "create", op[r] # None,
           UNCHANGED <<op, tx, row, payment>>,
           \A q \in Requests \ {r} : answer'[q] = answer[q],
           pc'[r] \in {"read", "update", "cache", "publish", "done", "failed", "dead"}
    PROVE  Idles(r)'
  <1>1. Known \subseteq Known'
    BY DEF Known
  <1> QED BY <1>1 DEF MoneyInv, Idles

LEMMA MoneyStep ==
    ASSUME TransactionsTypeOK, MoneyInv, [TransactionsNext]_transactionsVars
    PROVE  MoneyInv'
  <1> USE TransactionsAssumption, NoneIsNoValue
  <1>0. \A t \in Old : t \notin Requests /\ row[t] # None
    BY DEF MoneyInv
  <1>1. ASSUME NEW r \in Requests, NEW local \in BOOLEAN, CreateTransaction(r, local)
        PROVE  MoneyInv'
    <2> DEFINE new == [status |-> "INITIATED", isLocalPickup |-> local, intent |-> FALSE]
    <2>1. /\ pc[r] = "idle" /\ op' = [op EXCEPT ![r] = "create"]
          /\ tx' = [tx EXCEPT ![r] = r] /\ payment' = payment
      BY <1>1 DEF CreateTransaction, At
    <2>2. \/ /\ row' = [row EXCEPT ![r] = new] /\ pc' = [pc EXCEPT ![r] = "fire"]
             /\ \E a \in {"tooMany", "none"} : answer' = [answer EXCEPT ![r] = a]
          \/ /\ row' = row /\ pc' = [pc EXCEPT ![r] = "failed"]
             /\ \E a \in {"tooMany", "error"} : answer' = [answer EXCEPT ![r] = a]
      BY <1>1 DEF CreateTransaction, Goto
    <2>3. op[r] # "create" /\ Idles(r)
      BY <2>1 DEF MoneyInv, Creates
    <2>4. new.status = "INITIATED" /\ new # None
      <3>1. new \in Row
        BY DEF Row, Statuses
      <3> QED BY <3>1
    <2> HIDE DEF new
    <2>5. Creates(r)'
      BY <2>1, <2>2, <2>3, <2>4 DEF Creates, Idles, TransactionsTypeOK, Ids
    <2>6. op'[r] = "create"
      BY <2>1 DEF TransactionsTypeOK
    <2>7. \A t \in Ids \ {r} : row'[t] = row[t]
      BY <2>2 DEF TransactionsTypeOK
    <2>8. \A t \in Old : row'[t] # None
      BY <1>0, <2>7 DEF Ids
    <2>9. \A q \in Requests \ {r} :
              /\ op'[q] = op[q] /\ tx'[q] = tx[q] /\ pc'[q] = pc[q]
              /\ answer'[q] = answer[q] /\ payment'[q] = payment[q]
              /\ row'[q] = row[q]
      BY <2>1, <2>2, <2>7 DEF TransactionsTypeOK, Ids
    <2> QED BY <2>3, <2>5, <2>6, <2>8, <2>9, OneMoves
  <1>2. ASSUME NEW r \in Requests, Fire(r)
        PROVE  MoneyInv'
    <2>1. pc[r] = "fire" /\ UNCHANGED <<row, op, tx>>
      BY <1>2 DEF Fire, At
    <2>2. op[r] = "create" /\ Creates(r) /\ answer[r] # "ok"
      BY <2>1 DEF MoneyInv, Idles, Creates
    <2>3. \/ /\ payment' = [payment EXCEPT ![r] = "running"]
             /\ pc' = [pc EXCEPT ![r] = "paying"] /\ answer' = answer
          \/ /\ payment' \in {payment, [payment EXCEPT ![r] = "declined"]}
             /\ pc' = [pc EXCEPT ![r] = "failed"] /\ Tell(r, "error")
      BY <1>2 DEF Fire, Fail, Goto
    <2>4. Creates(r)'
      BY <2>1, <2>2, <2>3 DEF Creates, TransactionsTypeOK, Tell
    <2> QED BY <1>0, <2>1, <2>2, <2>3, <2>4, OneMoves DEF TransactionsTypeOK, Tell
  <1>3. ASSUME NEW r \in Requests, IntentCreated(r)
        PROVE  MoneyInv'
    <2>1. /\ payment[r] = "running" /\ UNCHANGED <<row, op, tx, answer>>
          /\ payment' = [payment EXCEPT ![r] = "created"]
          /\ pc' = IF pc[r] = "paying" THEN [pc EXCEPT ![r] = "update"] ELSE pc
      BY <1>3 DEF IntentCreated, At, Goto
    <2>2. op[r] = "create" /\ Creates(r)
      BY <2>1 DEF MoneyInv, Idles
    <2>3. Creates(r)'
      BY <2>1, <2>2 DEF Creates, TransactionsTypeOK
    <2> QED BY <1>0, <2>1, <2>2, <2>3, OneMoves DEF TransactionsTypeOK
  <1>4. ASSUME NEW r \in Requests, Declined(r) \/ TimeOut(r)
        PROVE  MoneyInv'
    <2>1. /\ UNCHANGED <<row, op, tx>>
          /\ \/ /\ payment[r] = "running"
                /\ payment' = [payment EXCEPT ![r] = "declined"]
             \/ pc[r] = "paying" /\ payment' = payment
          /\ \/ pc' = pc /\ answer' = answer /\ pc[r] # "paying"
             \/ /\ pc[r] = "paying"
                /\ pc' = [pc EXCEPT ![r] = "failed"] /\ Tell(r, "error")
      BY <1>4 DEF Declined, TimeOut, At, Goto, Fail
    <2>2. op[r] = "create" /\ Creates(r)
      BY <2>1 DEF MoneyInv, Idles
    <2>3. Creates(r)'
      BY <2>1, <2>2 DEF Creates, TransactionsTypeOK, Tell
    <2> QED BY <1>0, <2>1, <2>2, <2>3, OneMoves DEF TransactionsTypeOK, Tell, Creates
  <1>5. ASSUME NEW r \in Requests, NEW o \in Ops \ {"create"}, NEW t \in Ids, Begin(r, o, t)
        PROVE  MoneyInv'
    <2>1. /\ pc[r] = "idle" /\ t \in Known /\ op' = [op EXCEPT ![r] = o]
          /\ tx' = [tx EXCEPT ![r] = t] /\ pc' = [pc EXCEPT ![r] = "read"]
          /\ UNCHANGED <<row, answer, payment>>
      BY <1>5 DEF Begin, At, Goto
    <2>2. op[r] # "create" /\ Idles(r)
      BY <2>1 DEF MoneyInv, Creates
    <2>3. Known \subseteq Known'
      BY <2>1, <2>2 DEF Known, TransactionsTypeOK
    <2>4. op'[r] # "create" /\ Idles(r)'
      BY <2>1, <2>2, <2>3 DEF Idles, TransactionsTypeOK
    <2> QED BY <1>0, <2>1, <2>2, <2>4, OneMoves DEF TransactionsTypeOK
  <1>6. ASSUME NEW r \in Requests, Read(r)
        PROVE  MoneyInv'
    <2>1. /\ pc[r] = "read" /\ UNCHANGED <<row, op, tx, payment>>
          /\ \/ pc' = [pc EXCEPT ![r] = "update"] /\ answer' = answer
             \/ pc' = [pc EXCEPT ![r] = "failed"] /\ Tell(r, "error")
      BY <1>6 DEF Read, At, Goto, Fail
    <2>2. op[r] # "create" /\ op[r] # None
      BY <2>1 DEF MoneyInv, Creates, Idles
    <2>3. Idles(r)'
      BY <2>1, <2>2, IdlesOn DEF TransactionsTypeOK, Tell
    <2> QED BY <1>0, <2>1, <2>2, <2>3, OneMoves DEF TransactionsTypeOK, Tell
  <1>7. ASSUME NEW r \in Requests, Update(r)
        PROVE  MoneyInv'
    <2>1. pc[r] = "update" /\ UNCHANGED <<op, tx, payment>>
      BY <1>7 DEF Update, At
    <2>2. /\ tx[r] \in Ids /\ row[tx[r]] \in Row
          /\ op[r] = "create" \/ op[r] \in Ops \ {"create"}
          /\ op[r] # "create" /\ tx[r] \in Requests =>
               /\ op[tx[r]] = "create" /\ answer[tx[r]] = "ok"
               /\ row[tx[r]].status # "INITIATED"
      BY <2>1, RowIsThere
    <2>3. CASE UNCHANGED row /\ Fail(r)
      <3>1. pc' = [pc EXCEPT ![r] = "failed"] /\ Tell(r, "error")
        BY <2>3 DEF Fail, Goto
      <3>2. CASE op[r] = "create"
        <4>1. Creates(r) /\ answer[r] # "ok"
          BY <2>1, <3>2 DEF MoneyInv, Creates
        <4>2. Creates(r)'
          BY <2>1, <2>3, <3>1, <4>1 DEF Creates, TransactionsTypeOK, Tell
        <4> QED BY <1>0, <2>1, <2>3, <3>1, <3>2, <4>1, <4>2, OneMoves DEF TransactionsTypeOK, Tell
      <3>3. CASE op[r] # "create"
        <4>1. Idles(r)'
          BY <2>1, <2>2, <2>3, <3>1, <3>3, IdlesOn DEF TransactionsTypeOK, Tell
        <4> QED BY <1>0, <2>1, <2>3, <3>1, <3>3, <4>1, OneMoves DEF TransactionsTypeOK, Tell
      <3> QED BY <3>2, <3>3
    <2>4. CASE /\ row' = [row EXCEPT ![tx[r]] = Updated(r)]
               /\ pc' = [pc EXCEPT ![r] = "cache"] /\ answer' = answer
      <3>1. /\ Updated(r) \in Row
            /\ op[r] = "create" =>
                 Updated(r).status = "PAYMENT_PENDING" /\ Updated(r).intent
            /\ op[r] # "create" =>
                 /\ Updated(r).status \in {"COMPLETED", "CANCELLED"}
                 /\ Updated(r).intent = row[tx[r]].intent
        BY <2>1, UpdatedIs
      <3>2. Updated(r) # None /\ Updated(r).status # "INITIATED"
        BY <2>2, <3>1
      <3>3. \A t \in Ids : row'[t] = IF t = tx[r] THEN Updated(r) ELSE row[t]
        BY <2>2, <2>4 DEF TransactionsTypeOK
      <3>4. \A t \in Old : row'[t] # None
        BY <1>0, <3>2, <3>3 DEF Ids
      <3>5. CASE op[r] = "create"
        <4>1. Creates(r) /\ answer[r] # "ok" /\ tx[r] = r
          BY <2>1, <3>5 DEF MoneyInv, Creates
        <4>2. row'[r] = Updated(r) /\ \A q \in Requests \ {r} : row'[q] = row[q]
          BY <3>3, <4>1 DEF Ids
        <4>3. Creates(r)'
          BY <2>1, <2>4, <3>1, <3>2, <3>5, <4>1, <4>2 DEF Creates, TransactionsTypeOK
        <4> QED BY <2>1, <2>4, <3>4, <3>5, <4>1, <4>2, <4>3, OneMoves DEF TransactionsTypeOK
      <3>6. CASE op[r] # "create"
        <4>1. Known' = Known
          BY <2>1, <2>4 DEF Known
        <4>2. ASSUME NEW q \in Requests, op[q] # "create" PROVE Idles(q)'
          <5>1. Idles(q) /\ (q = r => op[q] # None)
            BY <2>2, <4>2 DEF MoneyInv
          <5>2. q # tx[r]
            BY <2>2, <3>6, <4>2
          <5>3. row'[q] = row[q]
            BY <3>3, <5>2 DEF Ids
          <5>4. q # r => pc'[q] = pc[q]
            BY <2>4
          <5>5. q = r => pc'[q] = "cache"
            BY <2>4 DEF TransactionsTypeOK
          <5> QED BY <2>1, <2>4, <4>1, <5>1, <5>3, <5>4, <5>5 DEF Idles
        <4>3. ASSUME NEW q \in Requests, op[q] = "create" PROVE Creates(q)'
          <5>1. Creates(q) /\ q # r /\ pc'[q] = pc[q]
            BY <2>4, <3>6, <4>3 DEF MoneyInv
          <5>2. CASE q = tx[r]
            <6>1. answer[q] = "ok" /\ pc[q] = "done" /\ row[q] \in Row
                  /\ row[q].status # "INITIATED"
              BY <2>2, <3>6, <5>1, <5>2 DEF Creates
            <6>2. payment[q] = "created" /\ row[q].intent
              BY <5>1, <6>1 DEF Creates
            <6>3. row'[q] = Updated(r)
              BY <3>3, <5>2 DEF Ids
            <6> QED BY <2>1, <2>4, <3>1, <3>2, <3>6, <5>1, <5>2, <6>1, <6>2, <6>3 DEF Creates
          <5>3. CASE q # tx[r]
            <6>1. row'[q] = row[q]
              BY <3>3, <5>3 DEF Ids
            <6> QED BY <2>1, <2>4, <5>1, <6>1 DEF Creates
          <5> QED BY <5>2, <5>3
        <4> QED BY <2>1, <3>4, <4>2, <4>3 DEF MoneyInv
      <3> QED BY <3>5, <3>6
    <2> QED BY <1>7, <2>3, <2>4 DEF Update, Goto
  <1>8. ASSUME NEW r \in Requests, CacheTransaction(r) \/ PublishTransactionEvent(r)
        PROVE  MoneyInv'
    <2>1. /\ UNCHANGED <<row, op, tx, payment>>
          /\ \/ /\ pc[r] = "cache" /\ pc' = [pc EXCEPT ![r] = "publish"] /\ answer' = answer
             \/ /\ pc[r] = "cache" /\ pc' = [pc EXCEPT ![r] = "failed"] /\ Tell(r, "error")
             \/ /\ pc[r] = "publish" /\ pc' = [pc EXCEPT ![r] = "done"] /\ Tell(r, "ok")
      BY <1>8 DEF CacheTransaction, PublishTransactionEvent, At, Goto, Fail
    <2>2. CASE op[r] = "create"
      <3>1. Creates(r) /\ answer[r] # "ok"
        BY <2>1, <2>2 DEF MoneyInv, Creates
      <3>2. Creates(r)'
        BY <2>1, <3>1 DEF Creates, TransactionsTypeOK, Tell
      <3> QED BY <1>0, <2>1, <2>2, <3>1, <3>2, OneMoves DEF TransactionsTypeOK, Tell
    <2>3. CASE op[r] # "create"
      <3>1. op[r] # None
        BY <2>1, <2>3 DEF MoneyInv, Idles
      <3>2. Idles(r)'
        BY <2>1, <2>3, <3>1, IdlesOn DEF TransactionsTypeOK, Tell
      <3> QED BY <1>0, <2>1, <2>3, <3>2, OneMoves DEF TransactionsTypeOK, Tell
    <2> QED BY <2>2, <2>3
  <1>9. ASSUME Crash
        PROVE  MoneyInv'
    <2>1. /\ UNCHANGED <<row, op, tx, payment, answer>>
          /\ \A r \in Requests : pc'[r] = IF r \in Busy THEN "dead" ELSE pc[r]
      BY <1>9 DEF Crash
    <2>2. Known' = Known
      BY <2>1 DEF Known
    <2>3. ASSUME NEW r \in Requests, op[r] # "create" PROVE Idles(r)'
      BY <2>1, <2>2, <2>3 DEF MoneyInv, Idles, Busy
    <2>4. ASSUME NEW r \in Requests, op[r] = "create" PROVE Creates(r)'
      <3>1. Creates(r)
        BY <2>4 DEF MoneyInv
      <3>2. CASE r \in Busy
        <4>1. pc'[r] = "dead" /\ pc[r] # "done"
          BY <2>1, <3>2 DEF Busy
        <4> QED BY <2>1, <3>1, <4>1 DEF Creates
      <3>3. CASE r \notin Busy
        BY <2>1, <3>1, <3>3 DEF Creates
      <3> QED BY <3>2, <3>3
    <2> QED BY <1>0, <2>1, <2>3, <2>4 DEF MoneyInv
  <1>10. ASSUME UNCHANGED <<row, op, tx, pc, payment, answer>>
         PROVE  MoneyInv'
    <2>1. Known' = Known
      BY <1>10 DEF Known
    <2> QED BY <1>10, <2>1 DEF MoneyInv, Creates, Idles
  <1>11. ResetTimer \/ (\E t \in Ids : Expire(t)) \/ UNCHANGED transactionsVars =>
            UNCHANGED <<row, op, tx, pc, payment, answer>>
    BY DEF ResetTimer, Expire, transactionsVars
  <1> QED BY <1>1, <1>2, <1>3, <1>4, <1>5, <1>6, <1>7, <1>8, <1>9, <1>10, <1>11 DEF TransactionsNext

-----------------------------------------------------------------------------
\* The cached copies.

\* No row and no copy moves, and no handler enters or leaves the place between.
LEMMA CopiesStay ==
    ASSUME CopyInv, StaleExplained, UNCHANGED <<row, cache, copy, cut, crossed>>,
           \A r \in Requests :
               /\ pc'[r] = "cache" <=> pc[r] = "cache"
               /\ pc[r] \in {"failed", "dead"} => pc'[r] \in {"failed", "dead"}
               /\ pc[r] \in {"cache", "failed", "dead"} => tx'[r] = tx[r],
           cut \subseteq Requests
    PROVE  CopyInv' /\ StaleExplained'
  <1>1. CopyInv'
    BY DEF CopyInv
  <1>2. \A r \in Requests, t \in Ids :
            tx[r] = t /\ (At(r, "cache") \/ r \in cut)
            => tx'[r] = t /\ (At(r, "cache")' \/ r \in cut')
    BY DEF At, CopyInv
  <1>3. StaleExplained'
    BY <1>2 DEF StaleExplained
  <1> QED BY <1>1, <1>3

LEMMA CopyStep ==
    ASSUME TransactionsTypeOK, MoneyInv, CopyInv, StaleExplained, [TransactionsNext]_transactionsVars
    PROVE  CopyInv' /\ StaleExplained'
  <1> USE TransactionsAssumption, NoneIsNoValue
  <1>0. cut \subseteq Requests
    BY DEF TransactionsTypeOK
  <1>1. ASSUME NEW r \in Requests, NEW local \in BOOLEAN, CreateTransaction(r, local)
        PROVE  CopyInv' /\ StaleExplained'
    <2>1. /\ pc[r] = "idle" /\ tx' = [tx EXCEPT ![r] = r]
          /\ UNCHANGED <<cache, copy, cut, crossed>>
      BY <1>1 DEF CreateTransaction, At, historyVars
    <2>2. \E p \in {"fire", "failed"} : pc' = [pc EXCEPT ![r] = p]
      BY <1>1 DEF CreateTransaction, Goto
    <2>3. \A t \in Ids \ {r} : row'[t] = row[t]
      BY <1>1 DEF CreateTransaction, TransactionsTypeOK
    <2>4. row[r] = None /\ cache[r] = None
      BY <2>1 DEF MoneyInv, Creates, Idles, CopyInv, Ids
    <2>5. \A q \in Requests : pc[q] = "cache" => tx[q] \in Ids /\ tx[q] # r
      BY <2>4, RowIsThere
    <2>6. \A q \in Requests :
              /\ pc'[q] = "cache" <=> pc[q] = "cache"
              /\ pc[q] \in {"failed", "dead"} => pc'[q] \in {"failed", "dead"}
              /\ pc[q] \in {"cache", "failed", "dead"} => tx'[q] = tx[q]
      BY <2>1, <2>2 DEF TransactionsTypeOK
    <2>7. CopyInv'
      <3>1. \A t \in Ids : row'[t] = None => cache'[t] = None
        BY <2>1, <2>3, <2>4 DEF CopyInv
      <3>2. \A q \in cut' : pc'[q] \in {"failed", "dead"}
        BY <1>0, <2>1, <2>6 DEF CopyInv
      <3>3. \A q \in Requests : pc'[q] = "cache" =>
              /\ copy'[q] # None
              /\ tx'[q] \in crossed' \/ copy'[q] = row'[tx'[q]]
        BY <2>1, <2>3, <2>5, <2>6 DEF CopyInv
      <3> QED BY <3>1, <3>2, <3>3 DEF CopyInv
    <2>8. StaleExplained'
      <3> SUFFICES ASSUME NEW t \in Ids, cache'[t] \notin {None, row'[t]}
                   PROVE  \/ \E q \in Requests : tx'[q] = t /\ (At(q, "cache")' \/ q \in cut')
                          \/ t \in crossed'
        BY DEF StaleExplained
      <3>1. cache[t] \notin {None, row[t]}
        BY <2>1, <2>3, <2>4
      <3>2. CASE t \in crossed
        BY <2>1, <3>2
      <3>3. CASE \E q \in Requests : tx[q] = t /\ (At(q, "cache") \/ q \in cut)
        <4>1. PICK q \in Requests : tx[q] = t /\ (At(q, "cache") \/ q \in cut)
          BY <3>3
        <4>2. pc[q] \in {"cache", "failed", "dead"}
          BY <4>1 DEF At, CopyInv
        <4> QED BY <2>1, <2>6, <4>1, <4>2 DEF At
      <3> QED BY <3>1, <3>2, <3>3 DEF StaleExplained
    <2> QED BY <2>7, <2>8
  <1>2. ASSUME NEW r \in Requests,
               \/ Fire(r) \/ IntentCreated(r) \/ Declined(r) \/ TimeOut(r)
               \/ \E o \in Ops \ {"create"}, t \in Ids : Begin(r, o, t)
               \/ Read(r) \/ PublishTransactionEvent(r)
        PROVE  CopyInv' /\ StaleExplained'
    <2>1. UNCHANGED <<row, cache, copy, cut, crossed>>
      BY <1>2 DEF Fire, IntentCreated, Declined, TimeOut, Begin, Read, PublishTransactionEvent,
                  historyVars
    <2>2. \/ pc' = pc /\ tx' = tx
          \/ /\ pc[r] \in {"fire", "paying", "read", "publish"}
             /\ \E p \in {"paying", "update", "failed", "done"} : pc' = [pc EXCEPT ![r] = p]
             /\ tx' = tx
          \/ /\ pc[r] = "idle" /\ pc' = [pc EXCEPT ![r] = "read"]
             /\ \E t \in Ids : tx' = [tx EXCEPT ![r] = t]
      <3>1. CASE Fire(r)
        BY <3>1 DEF Fire, At, Goto, Fail
      <3>2. CASE IntentCreated(r) \/ Declined(r) \/ TimeOut(r)
        BY <3>2 DEF IntentCreated, Declined, TimeOut, At, Goto, Fail
      <3>3. ASSUME NEW o \in Ops \ {"create"}, NEW t \in Ids, Begin(r, o, t)
            PROVE  /\ pc[r] = "idle" /\ pc' = [pc EXCEPT ![r] = "read"]
                   /\ tx' = [tx EXCEPT ![r] = t]
        BY <3>3 DEF Begin, At, Goto
      <3>4. CASE Read(r) \/ PublishTransactionEvent(r)
        BY <3>4 DEF Read, PublishTransactionEvent, At, Goto, Fail
      <3> QED BY <1>2, <3>1, <3>2, <3>3, <3>4
    <2>3. \A q \in Requests :
              /\ pc'[q] = "cache" <=> pc[q] = "cache"
              /\ pc[q] \in {"failed", "dead"} => pc'[q] \in {"failed", "dead"}
              /\ pc[q] \in {"cache", "failed", "dead"} => tx'[q] = tx[q]
      BY <2>2 DEF TransactionsTypeOK
    <2> QED BY <1>0, <2>1, <2>3, CopiesStay
  <1>3. ASSUME ResetTimer \/ UNCHANGED transactionsVars
        PROVE  CopyInv' /\ StaleExplained'
    <2>1. UNCHANGED <<row, cache, copy, cut, crossed, pc, tx>>
      BY <1>3 DEF ResetTimer, historyVars, transactionsVars
    <2> QED BY <1>0, <2>1, CopiesStay
  <1>4. ASSUME NEW r \in Requests, Update(r)
        PROVE  CopyInv' /\ StaleExplained'
    <2>1. pc[r] = "update" /\ UNCHANGED <<cache, tx, cut>>
      BY <1>4 DEF Update, At
    <2>2. CASE UNCHANGED <<row, copy, crossed>> /\ pc' = [pc EXCEPT ![r] = "failed"]
      <3>1. \A q \in Requests :
              /\ pc'[q] = "cache" <=> pc[q] = "cache"
              /\ pc[q] \in {"failed", "dead"} => pc'[q] \in {"failed", "dead"}
        BY <2>1, <2>2 DEF TransactionsTypeOK
      <3> QED BY <1>0, <2>1, <2>2, <3>1, CopiesStay
    <2>3. CASE /\ row' = [row EXCEPT ![tx[r]] = Updated(r)]
               /\ copy' = [copy EXCEPT ![r] = Updated(r)]
               /\ crossed' = crossed \cup {tx[q] : q \in {q \in Requests \ {r} :
                                          At(q, "cache") /\ tx[q] = tx[r]}}
               /\ pc' = [pc EXCEPT ![r] = "cache"]
      <3>1. tx[r] \in Ids /\ Updated(r) \in Row
        BY <2>1, RowIsThere, UpdatedIs
      <3>2. /\ \A t \in Ids : row'[t] = IF t = tx[r] THEN Updated(r) ELSE row[t]
            /\ copy'[r] = Updated(r) /\ \A q \in Requests \ {r} : copy'[q] = copy[q]
            /\ pc'[r] = "cache" /\ \A q \in Requests \ {r} : pc'[q] = pc[q]
        BY <2>3, <3>1 DEF TransactionsTypeOK
      <3>3. \A q \in Requests \ {r} : pc[q] = "cache" /\ tx[q] = tx[r] => tx[q] \in crossed'
        BY <2>3 DEF At
      <3>4. crossed \subseteq crossed'
        BY <2>3
      <3>5. \A q \in Requests : pc[q] = "cache" => tx[q] \in Ids
        BY RowIsThere
      <3>6. CopyInv'
        <4>1. \A t \in Ids : row'[t] = None => cache'[t] = None
          BY <2>1, <3>1, <3>2 DEF CopyInv
        <4>2. \A q \in cut' : pc'[q] \in {"failed", "dead"}
          BY <1>0, <2>1, <3>2 DEF CopyInv
        <4>3. \A q \in Requests : pc'[q] = "cache" =>
                /\ copy'[q] # None
                /\ tx'[q] \in crossed' \/ copy'[q] = row'[tx'[q]]
          BY <2>1, <3>1, <3>2, <3>3, <3>4, <3>5 DEF CopyInv
        <4> QED BY <4>1, <4>2, <4>3 DEF CopyInv
      <3>7. StaleExplained'
        <4> SUFFICES ASSUME NEW t \in Ids, cache'[t] \notin {None, row'[t]}
                     PROVE  \/ \E q \in Requests : tx'[q] = t /\ (At(q, "cache")' \/ q \in cut')
                            \/ t \in crossed'
          BY DEF StaleExplained
        <4>1. CASE t = tx[r]
          BY <2>1, <3>2, <4>1 DEF At
        <4>2. CASE t # tx[r]
          <5>1. cache[t] \notin {None, row[t]}
            BY <2>1, <3>2, <4>2
          <5>2. CASE \E q \in Requests : tx[q] = t /\ (At(q, "cache") \/ q \in cut)
            BY <2>1, <3>2, <5>2 DEF At
          <5> QED BY <3>4, <5>1, <5>2 DEF StaleExplained
        <4> QED BY <4>1, <4>2
      <3> QED BY <3>6, <3>7
    <2> QED BY <1>4, <2>2, <2>3 DEF Update, Goto, Fail
  <1>5. ASSUME NEW r \in Requests, CacheTransaction(r)
        PROVE  CopyInv' /\ StaleExplained'
    <2>1. pc[r] = "cache" /\ UNCHANGED <<row, tx, copy, crossed>>
      BY <1>5 DEF CacheTransaction, At
    <2>2. tx[r] \in Ids /\ row[tx[r]] \in Row /\ copy[r] # None
          /\ (tx[r] \in crossed \/ copy[r] = row[tx[r]])
      BY <2>1, RowIsThere DEF CopyInv
    <2>3. CASE /\ cache' = [cache EXCEPT ![tx[r]] = copy[r]]
               /\ pc' = [pc EXCEPT ![r] = "publish"] /\ cut' = cut
      <3>1. \A t \in Ids : cache'[t] = IF t = tx[r] THEN copy[r] ELSE cache[t]
        BY <2>2, <2>3 DEF TransactionsTypeOK
      <3>2. \A q \in Requests \ {r} : pc'[q] = pc[q]
        BY <2>3 DEF TransactionsTypeOK
      <3>3. pc'[r] = "publish" /\ r \notin cut
        BY <2>1, <2>3 DEF TransactionsTypeOK, CopyInv
      <3>4. CopyInv'
        BY <1>0, <2>1, <2>2, <2>3, <3>1, <3>2, <3>3 DEF CopyInv
      <3>5. StaleExplained'
        <4> SUFFICES ASSUME NEW t \in Ids, cache'[t] \notin {None, row'[t]}
                     PROVE  \/ \E q \in Requests : tx'[q] = t /\ (At(q, "cache")' \/ q \in cut')
                            \/ t \in crossed'
          BY DEF StaleExplained
        <4>1. CASE t = tx[r]
          BY <2>1, <2>2, <3>1, <4>1
        <4>2. CASE t # tx[r]
          <5>1. cache[t] \notin {None, row[t]}
            BY <2>1, <3>1, <4>2
          <5>2. CASE \E q \in Requests : tx[q] = t /\ (At(q, "cache") \/ q \in cut)
            BY <2>1, <2>3, <3>2, <4>2, <5>2 DEF At
          <5> QED BY <2>1, <5>1, <5>2 DEF StaleExplained
        <4> QED BY <4>1, <4>2
      <3> QED BY <3>4, <3>5
    <2>4. CASE /\ cache' = cache /\ pc' = [pc EXCEPT ![r] = "failed"]
               /\ cut' = cut \cup {r}
      <3>1. pc'[r] = "failed" /\ \A q \in Requests \ {r} : pc'[q] = pc[q]
        BY <2>4 DEF TransactionsTypeOK
      <3>2. CopyInv'
        BY <1>0, <2>1, <2>4, <3>1 DEF CopyInv
      <3>3. \A q \in Requests, t \in Ids :
              tx[q] = t /\ (At(q, "cache") \/ q \in cut)
              => tx'[q] = t /\ (At(q, "cache")' \/ q \in cut')
        BY <2>1, <2>4, <3>1 DEF At
      <3>4. StaleExplained'
        BY <2>1, <2>4, <3>3 DEF StaleExplained
      <3> QED BY <3>2, <3>4
    <2> QED BY <1>5, <2>3, <2>4 DEF CacheTransaction, Goto, Fail
  <1>6. ASSUME NEW t \in Ids, Expire(t)
        PROVE  CopyInv' /\ StaleExplained'
    <2>1. UNCHANGED <<row, tx, pc, copy, cut, crossed>>
          /\ \A x \in Ids : cache'[x] \in {None, cache[x]}
      BY <1>6 DEF Expire, TransactionsTypeOK
    <2>2. CopyInv'
      BY <2>1 DEF CopyInv
    <2>3. StaleExplained'
      BY <2>1 DEF StaleExplained, At
    <2> QED BY <2>2, <2>3
  <1>7. ASSUME Crash
        PROVE  CopyInv' /\ StaleExplained'
    <2>1. /\ UNCHANGED <<row, cache, tx, copy, crossed>>
          /\ \A r \in Requests : pc'[r] = IF r \in Busy THEN "dead" ELSE pc[r]
          /\ cut' = cut \cup {r \in Requests : pc[r] = "cache"}
      BY <1>7 DEF Crash, At
    <2>2. \A r \in Requests : pc[r] = "cache" => r \in Busy
      BY DEF Busy
    <2>3. CopyInv'
      BY <1>0, <2>1, <2>2 DEF CopyInv
    <2>4. \A q \in Requests, t \in Ids :
            tx[q] = t /\ (At(q, "cache") \/ q \in cut) => tx'[q] = t /\ q \in cut'
      BY <2>1 DEF At
    <2>5. StaleExplained'
      BY <2>1, <2>4 DEF StaleExplained
    <2> QED BY <2>3, <2>5
  <1> QED BY <1>1, <1>2, <1>3, <1>4, <1>5, <1>6, <1>7 DEF TransactionsNext

-----------------------------------------------------------------------------
\* Refunds.

\* What a handler other than a creation finds of a transaction that was created.
LEMMA IntentIsFound ==
    ASSUME TransactionsTypeOK, MoneyInv, RefundInv, NEW r \in Requests,
           pc[r] \in {"read", "update"}, op[r] # "create", tx[r] \in Requests
    PROVE  row[tx[r]] \in Row /\ row[tx[r]].intent /\ Found(tx[r]).intent
  <1>1. /\ tx[r] \in Ids /\ row[tx[r]] \in Row /\ op[tx[r]] = "create"
        /\ row[tx[r]].status # "INITIATED"
    BY RowIsThere
  <1>2. row[tx[r]].intent
    BY <1>1, NoneIsNoValue DEF MoneyInv, Creates
  <1> QED BY <1>1, <1>2 DEF Found, RefundInv

LEMMA RefundStep ==
    ASSUME TransactionsTypeOK, MoneyInv, CopyInv, RefundInv,
           [TransactionsNext]_transactionsVars
    PROVE  RefundInv'
  <1> USE TransactionsAssumption, NoneIsNoValue
  <1>1. ASSUME NEW r \in Requests, NEW local \in BOOLEAN, CreateTransaction(r, local)
        PROVE  RefundInv'
    <2> DEFINE new == [status |-> "INITIATED", isLocalPickup |-> local, intent |-> FALSE]
    <2>1. new.status = "INITIATED"
      OBVIOUS
    <2> HIDE DEF new
    <2>2. /\ UNCHANGED <<cache, copy>> /\ op' = [op EXCEPT ![r] = "create"]
          /\ tx' = [tx EXCEPT ![r] = r]
          /\ row' = row \/ row' = [row EXCEPT ![r] = new]
          /\ pc' = [pc EXCEPT ![r] = "fire"] \/ pc' = [pc EXCEPT ![r] = "failed"]
      BY <1>1 DEF CreateTransaction, Goto, new
    <2>3. \A q \in Requests \ {r} : op'[q] = op[q] /\ tx'[q] = tx[q] /\ pc'[q] = pc[q]
      BY <2>2 DEF TransactionsTypeOK
    <2>4. pc'[r] \in {"fire", "failed"}
      BY <2>2 DEF TransactionsTypeOK
    <2>5. \A t \in Requests : row'[t] = row[t] \/ row'[t] = new
      BY <2>2 DEF TransactionsTypeOK, Ids
    <2>6. \A t \in Requests : row'[t] # None => row'[t].status # "CANCELLED"
      BY <2>1, <2>5 DEF RefundInv
    <2>7. \A t \in Requests : cache'[t] # None => cache'[t].intent
      BY <2>2 DEF RefundInv
    <2>8. ASSUME NEW q \in Requests, tx'[q] \in Requests
          PROVE  /\ pc'[q] = "cache" => copy'[q].intent
                 /\ op'[q] \notin {"create", "complete"} => pc'[q] # "update"
      BY <2>2, <2>3, <2>4, <2>8 DEF RefundInv
    <2> QED BY <2>6, <2>7, <2>8 DEF RefundInv
  <1>2. ASSUME NEW r \in Requests,
               Fire(r) \/ IntentCreated(r) \/ Declined(r) \/ TimeOut(r)
        PROVE  RefundInv'
    <2>1. /\ UNCHANGED <<row, cache, op, tx, copy>>
          /\ pc[r] \in {"fire", "paying"} \/ pc' = pc
          /\ \A q \in Requests \ {r} : pc'[q] = pc[q]
          /\ pc'[r] \in {"paying", "update", "failed"} \/ pc' = pc
      BY <1>2 DEF Fire, IntentCreated, Declined, TimeOut, At, Goto, Fail, TransactionsTypeOK
    <2>2. pc[r] \in {"fire", "paying"} => op[r] = "create"
      BY DEF MoneyInv, Idles
    <2> QED BY <2>1, <2>2 DEF RefundInv
  <1>3. ASSUME NEW r \in Requests, NEW o \in Ops \ {"create"}, NEW t \in Ids, Begin(r, o, t)
        PROVE  RefundInv'
    <2>1. /\ UNCHANGED <<row, cache, copy>> /\ pc'[r] = "read"
          /\ \A q \in Requests \ {r} : op'[q] = op[q] /\ tx'[q] = tx[q] /\ pc'[q] = pc[q]
      BY <1>3 DEF Begin, Goto, TransactionsTypeOK
    <2> QED BY <2>1 DEF RefundInv
  <1>4. ASSUME NEW r \in Requests, Read(r)
        PROVE  RefundInv'
    <2>1. /\ UNCHANGED <<row, cache, op, tx, copy>> /\ pc[r] = "read"
          /\ \A q \in Requests \ {r} : pc'[q] = pc[q]
          /\ \/ pc'[r] = "failed"
             \/ pc'[r] = "update" /\ Proceeds(op[r], tx[r])
      BY <1>4 DEF Read, At, Goto, Fail, TransactionsTypeOK
    <2>2. op[r] # "create"
      BY <2>1 DEF MoneyInv, Creates
    <2>3. ASSUME tx[r] \in Requests, pc'[r] = "update" PROVE op[r] = "complete"
      <3>1. Found(tx[r]).intent
        BY <2>1, <2>2, <2>3, IntentIsFound
      <3> QED BY <2>1, <2>3, <3>1 DEF Proceeds
    <2> QED BY <2>1, <2>3 DEF RefundInv
  <1>5. ASSUME NEW r \in Requests, Update(r)
        PROVE  RefundInv'
    <2>1. pc[r] = "update" /\ UNCHANGED <<cache, op, tx>>
      BY <1>5 DEF Update, At
    <2>2. tx[r] \in Ids /\ (op[r] = "create" => tx[r] = r)
      BY <2>1, RowIsThere DEF MoneyInv, Creates
    <2>3. CASE UNCHANGED <<row, copy>> /\ pc' = [pc EXCEPT ![r] = "failed"]
      <3>1. pc'[r] = "failed" /\ \A q \in Requests \ {r} : pc'[q] = pc[q]
        BY <2>3 DEF TransactionsTypeOK
      <3> QED BY <2>1, <2>3, <3>1 DEF RefundInv
    <2>4. CASE /\ row' = [row EXCEPT ![tx[r]] = Updated(r)]
               /\ copy' = [copy EXCEPT ![r] = Updated(r)]
               /\ pc' = [pc EXCEPT ![r] = "cache"]
      <3>1. ASSUME tx[r] \in Requests
            PROVE  Updated(r).intent /\ Updated(r).status # "CANCELLED"
        <4>1. CASE op[r] = "create"
          BY <2>1, <4>1, UpdatedIs
        <4>2. CASE op[r] # "create"
          <5>1. op[r] = "complete"
            BY <2>1, <3>1, <4>2 DEF RefundInv
          <5>2. row[tx[r]] \in Row /\ row[tx[r]].intent
            BY <2>1, <3>1, <4>2, IntentIsFound
          <5>3. Updated(r) = [row[tx[r]] EXCEPT !.status = "COMPLETED"]
            BY <5>1 DEF Updated
          <5> QED BY <5>2, <5>3 DEF Row
        <4> QED BY <4>1, <4>2
      <3>2. /\ \A t \in Ids : row'[t] = IF t = tx[r] THEN Updated(r) ELSE row[t]
            /\ \A q \in Requests \ {r} : copy'[q] = copy[q] /\ pc'[q] = pc[q]
            /\ copy'[r] = Updated(r) /\ pc'[r] = "cache"
        BY <2>2, <2>4 DEF TransactionsTypeOK
      <3>3. \A t \in Requests : row'[t] # None => row'[t].status # "CANCELLED"
        BY <3>1, <3>2 DEF RefundInv, Ids
      <3>4. ASSUME NEW q \in Requests, tx'[q] \in Requests
            PROVE  /\ pc'[q] = "cache" => copy'[q].intent
                   /\ op'[q] \notin {"create", "complete"} => pc'[q] # "update"
        BY <2>1, <3>1, <3>2, <3>4 DEF RefundInv
      <3> QED BY <2>1, <3>3, <3>4 DEF RefundInv
    <2> QED BY <1>5, <2>3, <2>4 DEF Update, Goto, Fail
  <1>6. ASSUME NEW r \in Requests, CacheTransaction(r)
        PROVE  RefundInv'
    <2>1. /\ pc[r] = "cache" /\ UNCHANGED <<row, op, tx, copy>>
          /\ \A q \in Requests \ {r} : pc'[q] = pc[q]
          /\ pc'[r] \in {"publish", "failed"}
          /\ cache' = cache \/ cache' = [cache EXCEPT ![tx[r]] = copy[r]]
      BY <1>6 DEF CacheTransaction, At, Goto, Fail, TransactionsTypeOK
    <2>2. \A t \in Requests : cache'[t] = cache[t] \/ (t = tx[r] /\ cache'[t] = copy[r])
      BY <2>1 DEF TransactionsTypeOK, Ids
    <2> QED BY <2>1, <2>2 DEF RefundInv
  <1>7. ASSUME NEW r \in Requests, PublishTransactionEvent(r)
        PROVE  RefundInv'
    <2>1. /\ UNCHANGED <<row, cache, op, tx, copy>> /\ pc'[r] = "done"
          /\ \A q \in Requests \ {r} : pc'[q] = pc[q]
      BY <1>7 DEF PublishTransactionEvent, At, Goto, TransactionsTypeOK
    <2> QED BY <2>1 DEF RefundInv
  <1>8. ASSUME NEW t \in Ids, Expire(t)
        PROVE  RefundInv'
    <2>1. /\ UNCHANGED <<row, op, tx, copy, pc>>
          /\ \A q \in Ids : cache'[q] = cache[q] \/ cache'[q] = None
      BY <1>8 DEF Expire, TransactionsTypeOK
    <2> QED BY <2>1 DEF RefundInv, Ids
  <1>9. ASSUME Crash
        PROVE  RefundInv'
    <2>1. /\ UNCHANGED <<row, cache, op, tx, copy>>
          /\ \A q \in Requests : pc'[q] = pc[q] \/ pc'[q] = "dead"
      BY <1>9 DEF Crash
    <2> QED BY <2>1 DEF RefundInv
  <1>10. ASSUME ResetTimer \/ UNCHANGED transactionsVars
         PROVE  RefundInv'
    BY <1>10 DEF ResetTimer, transactionsVars, RefundInv
  <1> QED BY <1>1, <1>2, <1>3, <1>4, <1>5, <1>6, <1>7, <1>8, <1>9, <1>10 DEF TransactionsNext

-----------------------------------------------------------------------------
\* The theorems.

\* The inductive invariant holds in every state.
THEOREM TransactionsInvariance == TransactionsSpec => []TransactionsInv
  <1>1. TransactionsInv /\ [TransactionsNext]_transactionsVars => TransactionsInv'
    BY TypeStep, MoneyStep, CopyStep, RefundStep DEF TransactionsInv
  <1> QED BY <1>1, TransactionsInitInv, PTL DEF TransactionsSpec

\* The variables keep their types.
THEOREM TransactionsTypeCorrect == TransactionsSpec => []TransactionsTypeOK
  <1>1. TransactionsInv => TransactionsTypeOK
    BY DEF TransactionsInv
  <1> QED BY <1>1, TransactionsInvariance, PTL

\* The row of a transaction and its payment intent agree, but for a creation that
\* has not come to its second write or was cut short before it, and a transaction
\* with an intent is never cancelled.
THEOREM IntentMatches == TransactionsSpec => []IntentMatchesRow
  <1>1. TransactionsInv => IntentMatchesRow
    BY DEF TransactionsInv, MoneyInv, Creates, Idles, RefundInv, IntentMatchesRow, At
  <1> QED BY <1>1, TransactionsInvariance, PTL

\* A stale copy has a handler that was stopped or crossed behind it.
THEOREM StaleIsExplained == TransactionsSpec => []StaleExplained
  <1>1. TransactionsInv => StaleExplained
    BY DEF TransactionsInv
  <1> QED BY <1>1, TransactionsInvariance, PTL

\* A completed or cancelled transaction stays one of the two.
THEOREM SettledTransactionsStay == TransactionsSpec => SettledStays
  <1> DEFINE Stays(t) ==
        row[t] # None =>
        /\ row'[t] # None
        /\ row[t].status \in {"COMPLETED", "CANCELLED"} =>
             row'[t].status \in {"COMPLETED", "CANCELLED"}
  <1>1. ASSUME TransactionsInv, [TransactionsNext]_transactionsVars
        PROVE  [\A t \in Ids : Stays(t)]_transactionsVars
    <2> USE DEF TransactionsInv
    <2>1. ASSUME NEW r \in Requests, NEW local \in BOOLEAN, CreateTransaction(r, local),
                 NEW t \in Ids
          PROVE  Stays(t)
      <3>1. row[r] = None
        BY <1>1, <2>1 DEF CreateTransaction, At, MoneyInv, Creates, Idles
      <3>2. t # r => row'[t] = row[t]
        BY <1>1, <2>1 DEF CreateTransaction, TransactionsTypeOK
      <3> QED BY <3>1, <3>2
    <2>2. ASSUME NEW r \in Requests, Update(r), NEW t \in Ids
          PROVE  Stays(t)
      <3>1. /\ Updated(r) \in Row /\ Updated(r) # None
            /\ op[r] # "create" => Updated(r).status \in {"COMPLETED", "CANCELLED"}
        BY <1>1, <2>2, UpdatedIs, NoneIsNoValue DEF Update, At
      <3>2. op[r] = "create" => tx[r] = r /\ row[r].status = "INITIATED"
        BY <1>1, <2>2 DEF Update, At, MoneyInv, Creates
      <3>3. row' = row \/ row' = [row EXCEPT ![tx[r]] = Updated(r)]
        BY <2>2 DEF Update
      <3>4. CASE t = tx[r]
        BY <1>1, <3>1, <3>2, <3>3, <3>4 DEF TransactionsTypeOK
      <3>5. CASE t # tx[r]
        BY <1>1, <3>3, <3>5 DEF TransactionsTypeOK
      <3> QED BY <3>4, <3>5
    <2>3. ASSUME UNCHANGED row
          PROVE  \A t \in Ids : Stays(t)
      BY <2>3
    <2>4. \/ \E r \in Requests, local \in BOOLEAN : CreateTransaction(r, local)
          \/ \E r \in Requests : Update(r)
          \/ UNCHANGED row
      BY <1>1 DEF TransactionsNext, transactionsVars, Fire, IntentCreated, Declined, TimeOut, Begin, Read, CacheTransaction,
                  PublishTransactionEvent, ResetTimer, Expire, Crash
    <2> HIDE DEF Stays
    <2> QED BY <2>1, <2>2, <2>3, <2>4
  <1> QED BY <1>1, TransactionsInvariance, PTL DEF TransactionsSpec, SettledStays

-----------------------------------------------------------------------------
(***************************************************************************)
(* Schemas: what the rules of validators, handlers and models say of each  *)
(* other, for every form.                                                  *)
(***************************************************************************)

\* At each stage the rules before it are known to have held, or to have failed.
SchemasInv ==
    /\ SchemasTypeOK
    /\ stage = "refused" => ~ Accepted(Converted(sent))
    /\ stage \notin {"sent", "refused"} => used = Taken(sent) /\ Accepted(Converted(sent))
    /\ stage = "unhandled" => ~ Handled(used)
    /\ stage = "unstored" => ~ Stored(used)
    /\ stage \in {"handled", "unstored", "stored"} => Handled(used)

\* Of which kind a form is, and what that says of its fields.
LEMMA FormKinds ==
    ASSUME NEW f \in Form
    PROVE  \/ f.kind = "listing" /\ f \in ListingForm
           \/ f.kind = "update" /\ f \in UpdateForm
           \/ f.kind = "transaction" /\ f \in TransactionForm
           \/ f.kind = "message" /\ f \in MessageForm
           \/ f.kind = "registration" /\ f \in RegistrationForm
           \/ f.kind = "profile" /\ f \in ProfileForm
           \/ f.kind = "preferences" /\ f \in PreferencesForm
           \/ f.kind = "step" /\ f \in StepForm
           \/ f.kind = "receipt" /\ f \in ReceiptForm
  BY DEF Form, ListingForm, UpdateForm, TransactionForm, MessageForm, RegistrationForm,
         ProfileForm, PreferencesForm, StepForm, ReceiptForm

\* number().precision(2) gives whole cents, and changes no amount that has them.
LEMMA RoundedCents ==
    ASSUME NEW n \in Int
    PROVE  /\ Rounded(n) \in Int /\ Rounded(n) % 10 = 0
           /\ n % 10 = 0 => Rounded(n) = n
           /\ Rounded(n) >= 10 => n >= 5
           /\ Rounded(n) > Cents(99999999) => Rounded(n) >= Cents(100000000)
  <1>1. (n + 5) \div 10 \in Int /\ 10 * ((n + 5) \div 10) = (n + 5) - ((n + 5) % 10)
        /\ (n + 5) % 10 \in 0 .. 9
    OBVIOUS
  <1>2. Rounded(n) \in Int /\ Rounded(n) = 10 * ((n + 5) \div 10)
    BY <1>1 DEF Rounded, Cents
  <1>3. \A m \in Int : (10 * m) % 10 = 0
    OBVIOUS
  <1>4. n % 10 = 0 => (n + 5) % 10 = 5
    OBVIOUS
  <1>5. Rounded(n) % 10 = 0
    BY <1>1, <1>2, <1>3
  <1>6. n % 10 = 0 => Rounded(n) = n
    BY <1>1, <1>2, <1>4
  <1>7. Rounded(n) >= 10 => n >= 5
    BY <1>1, <1>2
  <1>8. Rounded(n) > Cents(99999999) => Rounded(n) >= Cents(100000000)
    BY <1>1, <1>2 DEF Cents
  <1> QED BY <1>2, <1>5, <1>6, <1>7, <1>8

\* Escaping keeps a text a text, and changes the length of none without
\* ampersands, quotes and slashes.
LEMMA EscapedTexts ==
    ASSUME NEW t \in Texts
    PROVE  /\ Escaped(t) \in Texts
           /\ t.amps + t.quotes = 0 => Escaped(t).length = t.length
           /\ t.amps \in Nat /\ t.quotes \in Nat
  BY DEF Texts, Escaped

\* The form of an update or of a listing after its validator.
LEMMA UpdateConverted ==
    ASSUME NEW f \in UpdateForm
    PROVE  /\ Converted(f) \in UpdateForm
           /\ Converted(f).title = Escaped(f.title)
           /\ Converted(f).description = Escaped(f.description)
           /\ Converted(f).price = Rounded(f.price)
           /\ Converted(f).status = f.status /\ Taken(f) = Converted(f)
  <1>1. f.kind = "update"
    BY DEF UpdateForm
  <1>2. Converted(f) = [f EXCEPT !.title = Escaped(@), !.description = Escaped(@),
                                 !.price = Rounded(@)]
    BY <1>1 DEF Converted
  <1>3. Taken(f) = Converted(f)
    BY <1>1 DEF Taken
  <1>4. /\ Escaped(f.title) \in Texts /\ Escaped(f.description) \in Texts
        /\ Rounded(f.price) \in Int
    BY EscapedTexts, RoundedCents DEF UpdateForm
  <1> QED BY <1>2, <1>3, <1>4 DEF UpdateForm

LEMMA ListingConverted ==
    ASSUME NEW f \in ListingForm
    PROVE  /\ Converted(f) \in ListingForm /\ Taken(f) = Converted(f)
           /\ Converted(f).images.form \in {"urn", "escaped"}
           /\ Converted(f).images.form = "urn" => f.images.form = "urn"
  <1>1. f.kind = "listing"
    BY DEF ListingForm
  <1>2. Converted(f) = [f EXCEPT !.title = Escaped(@), !.description = Escaped(@),
                                 !.price = Rounded(@), !.images = EscapedImages(@)]
    BY <1>1 DEF Converted
  <1>3. Taken(f) = Converted(f)
    BY <1>1 DEF Taken
  <1>4. /\ Escaped(f.title) \in Texts /\ Escaped(f.description) \in Texts
        /\ Rounded(f.price) \in Int
    BY EscapedTexts, RoundedCents DEF ListingForm
  <1>5. /\ EscapedImages(f.images) \in [count : Nat, form : {"picture", "page", "urn", "escaped"}]
        /\ EscapedImages(f.images).form
                = IF f.images.form = "urn" THEN "urn" ELSE "escaped"
    BY DEF ListingForm, EscapedImages
  <1>6. Converted(f) \in ListingForm /\ Converted(f).images = EscapedImages(f.images)
    BY <1>2, <1>4, <1>5 DEF ListingForm
  <1> QED BY <1>3, <1>5, <1>6

LEMMA TransactionConverted ==
    ASSUME NEW f \in TransactionForm
    PROVE  /\ Converted(f) \in TransactionForm
           /\ Rounded(f.amount) = f.amount /\ ~ f.spaces => Converted(f) = f
           /\ Converted(f).amount = Rounded(f.amount)
           /\ Converted(f).buyerId = f.buyerId /\ Converted(f).sellerId = f.sellerId
           /\ Converted(f).isLocalPickup = f.isLocalPickup
           /\ Converted(f).verificationRequired = f.verificationRequired
           /\ Taken(f) \in TransactionForm
           /\ f.buyerId = f.user /\ f.verificationRequired = f.isLocalPickup => Taken(f) = f
           /\ Taken(f).buyerId = f.user /\ Taken(f).sellerId = f.sellerId
           /\ Taken(f).amount = f.amount
  <1>1. f.kind = "transaction" /\ Rounded(f.amount) \in Int
    BY RoundedCents DEF TransactionForm
  <1> DEFINE cents == [f EXCEPT !.amount = Rounded(f.amount)]
  <1>2. Converted(f) = [cents EXCEPT !.spaces = FALSE]
    BY <1>1, Zenon DEF Converted
  <1>3. Taken(f) = [f EXCEPT !.buyerId = f.user, !.verificationRequired = f.isLocalPickup]
    BY <1>1 DEF Taken
  <1>4. /\ Converted(f) \in TransactionForm /\ Converted(f).amount = Rounded(f.amount)
        /\ Converted(f).buyerId = f.buyerId /\ Converted(f).sellerId = f.sellerId
        /\ Converted(f).isLocalPickup = f.isLocalPickup
        /\ Converted(f).verificationRequired = f.verificationRequired
    <2>1. /\ cents \in TransactionForm /\ cents.amount = Rounded(f.amount)
          /\ cents.buyerId = f.buyerId /\ cents.sellerId = f.sellerId
          /\ cents.isLocalPickup = f.isLocalPickup
          /\ cents.verificationRequired = f.verificationRequired
      BY <1>1, SMT DEF TransactionForm
    <2>2. ASSUME NEW h \in TransactionForm
          PROVE  /\ [h EXCEPT !.spaces = FALSE].amount = h.amount
                 /\ [h EXCEPT !.spaces = FALSE].buyerId = h.buyerId
                 /\ [h EXCEPT !.spaces = FALSE].sellerId = h.sellerId
                 /\ [h EXCEPT !.spaces = FALSE].isLocalPickup = h.isLocalPickup
                 /\ [h EXCEPT !.spaces = FALSE].verificationRequired = h.verificationRequired
      BY SMT DEF TransactionForm
    <2>3. ASSUME NEW h \in TransactionForm
          PROVE  [h EXCEPT !.spaces = FALSE] \in TransactionForm
      <3>1. FALSE \in BOOLEAN
        OBVIOUS
      <3> QED BY <3>1, Zenon DEF TransactionForm
    <2> HIDE DEF cents
    <2> QED BY <1>2, <2>1, <2>2, <2>3, Zenon
  <1>5. /\ Taken(f) \in TransactionForm
        /\ Taken(f).buyerId = f.user /\ Taken(f).sellerId = f.sellerId
        /\ Taken(f).amount = f.amount
    BY <1>3 DEF TransactionForm
  <1>6. ASSUME Rounded(f.amount) = f.amount, ~ f.spaces PROVE Converted(f) = f
    <2>1. cents = f
      BY <1>6, SMT DEF TransactionForm
    <2>2. f.spaces = FALSE
      BY <1>6, SMT DEF TransactionForm
    <2>3. f = [f EXCEPT !.spaces = f.spaces]
      BY SMT DEF TransactionForm
    <2> QED BY <1>2, <2>1, <2>2, <2>3, Zenon
  <1>7. ASSUME f.buyerId = f.user, f.verificationRequired = f.isLocalPickup
        PROVE  Taken(f) = f
    <2>1. [f EXCEPT !.buyerId = f.user] = f
      BY <1>7, SMT DEF TransactionForm
    <2>2. [f EXCEPT !.verificationRequired = f.isLocalPickup] = f
      BY <1>7, SMT DEF TransactionForm
    <2> QED BY <1>3, <2>1, <2>2, Zenon
  <1> QED BY <1>4, <1>5, <1>6, <1>7

LEMMA MessageConverted ==
    ASSUME NEW f \in MessageForm
    PROVE  /\ Converted(f) = f /\ Taken(f) \in MessageForm
           /\ Taken(f).content = f.content
           /\ Taken(f).senderId = f.user
           /\ f.senderId = f.user /\ f.offerAmount = 0 /\ f.attachments = 0
                 /\ f.others = {} => Taken(f) = f
  <1> DEFINE signed == [f EXCEPT !.senderId = f.user]
             free == [signed EXCEPT !.offerAmount = 0]
             bare == [free EXCEPT !.attachments = 0]
  <1>1. f.kind = "message"
    BY DEF MessageForm
  <1>2. Taken(f) = [bare EXCEPT !.others = {}]
    BY <1>1, Zenon DEF Taken
  <1>3. Converted(f) = f
    BY <1>1 DEF Converted
  <1>4. /\ signed \in MessageForm /\ signed.content = f.content
        /\ signed.senderId = f.user
        /\ f.senderId = f.user => signed = f
    BY SMT DEF MessageForm
  <1>5. ASSUME NEW h \in MessageForm
        PROVE  /\ [h EXCEPT !.offerAmount = 0] \in MessageForm
               /\ [h EXCEPT !.offerAmount = 0].content = h.content
               /\ [h EXCEPT !.offerAmount = 0].senderId = h.senderId
               /\ h.offerAmount = 0 => [h EXCEPT !.offerAmount = 0] = h
    BY SMT DEF MessageForm
  <1>6. ASSUME NEW h \in MessageForm
        PROVE  /\ [h EXCEPT !.attachments = 0] \in MessageForm
               /\ [h EXCEPT !.attachments = 0].content = h.content
               /\ [h EXCEPT !.attachments = 0].senderId = h.senderId
               /\ h.attachments = 0 => [h EXCEPT !.attachments = 0] = h
    BY SMT DEF MessageForm
  <1>7. ASSUME NEW h \in MessageForm
        PROVE  /\ [h EXCEPT !.others = {}] \in MessageForm
               /\ [h EXCEPT !.others = {}].content = h.content
               /\ [h EXCEPT !.others = {}].senderId = h.senderId
               /\ h.others = {} => [h EXCEPT !.others = {}] = h
    BY SMT DEF MessageForm
  <1> HIDE DEF signed
  <1>8. /\ free \in MessageForm /\ free.content = f.content /\ free.senderId = f.user
        /\ f.senderId = f.user /\ f.offerAmount = 0 => free = f
    BY <1>4, <1>5, Zenon
  <1> HIDE DEF free
  <1>9. /\ bare \in MessageForm /\ bare.content = f.content /\ bare.senderId = f.user
        /\ f.senderId = f.user /\ f.offerAmount = 0 /\ f.attachments = 0 => bare = f
    BY <1>6, <1>8, Zenon
  <1> HIDE DEF bare
  <1>10. /\ Taken(f) \in MessageForm /\ Taken(f).content = f.content
         /\ Taken(f).senderId = f.user
         /\ f.senderId = f.user /\ f.offerAmount = 0 /\ f.attachments = 0
               /\ f.others = {} => Taken(f) = f
    BY <1>2, <1>7, <1>9, Zenon
  <1> QED BY <1>3, <1>10, Zenon

LEMMA RegistrationConverted ==
    ASSUME NEW f \in RegistrationForm
    PROVE  /\ Converted(f) \in RegistrationForm /\ Taken(f) = f
           /\ Converted(f).password = f.password
           /\ f.email = "lower" /\ ~ f.spaces => Converted(f) = f
  <1> DEFINE lowered == [f EXCEPT !.email = "lower"]
  <1>1. f.kind = "registration"
    BY DEF RegistrationForm
  <1>2. Converted(f) = [lowered EXCEPT !.spaces = FALSE] /\ Taken(f) = f
    BY <1>1, Zenon DEF Converted, Taken
  <1>3. /\ lowered \in RegistrationForm /\ lowered.password = f.password
        /\ f.email = "lower" => lowered = f
    BY SMT DEF RegistrationForm
  <1>4. ASSUME NEW h \in RegistrationForm
        PROVE  /\ [h EXCEPT !.spaces = FALSE].password = h.password
               /\ h.spaces \in BOOLEAN
               /\ h.spaces = FALSE => [h EXCEPT !.spaces = FALSE] = h
    BY SMT DEF RegistrationForm
  <1>5. ASSUME NEW h \in RegistrationForm PROVE [h EXCEPT !.spaces = FALSE] \in RegistrationForm
    <2>1. FALSE \in BOOLEAN
      OBVIOUS
    <2> QED BY <2>1, Zenon DEF RegistrationForm
  <1> HIDE DEF lowered
  <1>6. Converted(f) \in RegistrationForm /\ Converted(f).password = f.password
    BY <1>2, <1>3, <1>4, <1>5, Zenon
  <1>7. ASSUME f.email = "lower", ~ f.spaces PROVE Converted(f) = f
    <2>1. lowered = f /\ f.spaces = FALSE
      BY <1>3, <1>4, <1>7
    <2> QED BY <1>2, <1>4, <2>1, Zenon
  <1> QED BY <1>2, <1>6, <1>7

LEMMA ProfileConverted ==
    ASSUME NEW f \in ProfileForm
    PROVE  /\ Converted(f).kind = "profile" /\ Taken(f) \in ProfileForm
           /\ Converted(f).password = f.password
           /\ Converted(f).currentPassword = f.currentPassword
           /\ f.email = "lower" /\ ~ f.spaces /\ ~ f.extra => Converted(f) = f
           /\ f.admin /\ f.password = NoPassword /\ ~ f.currentPassword => Taken(f) = f
  <1> DEFINE address == IF f.email = "none" THEN f.email ELSE "lower"
             lowered == [f EXCEPT !.email = address]
             trimmed == [lowered EXCEPT !.spaces = FALSE]
             kept == IF f.admin THEN f.email ELSE "none"
             allowed == [f EXCEPT !.email = kept]
             without == [allowed EXCEPT !.password = NoPassword]
             asked == [without EXCEPT !.currentPassword = FALSE]
  <1>1. f.kind = "profile"
    BY DEF ProfileForm
  <1>2. Converted(f) = [trimmed EXCEPT !.extra = FALSE]
    BY <1>1, Zenon DEF Converted
  <1>3. Taken(f) = [asked EXCEPT !.extra = f.admin /\ @]
    BY <1>1, Zenon DEF Taken, AllowedUpdates
  <1>4. /\ lowered \in ProfileForm /\ lowered.password = f.password
        /\ lowered.currentPassword = f.currentPassword
        /\ f.email = "lower" => lowered = f
    BY SMT DEF ProfileForm
  <1>5. allowed \in ProfileForm /\ (f.admin => allowed = f)
    BY SMT DEF ProfileForm
  <1>6. ASSUME NEW h \in ProfileForm
        PROVE  /\ [h EXCEPT !.spaces = FALSE].password = h.password
               /\ [h EXCEPT !.spaces = FALSE].currentPassword = h.currentPassword
               /\ h.spaces \in BOOLEAN
               /\ h.spaces = FALSE => [h EXCEPT !.spaces = FALSE] = h
    BY SMT DEF ProfileForm
  <1>7. ASSUME NEW h \in ProfileForm
        PROVE  /\ [h EXCEPT !.password = NoPassword] \in ProfileForm
               /\ h.password = NoPassword => [h EXCEPT !.password = NoPassword] = h
    BY SMT DEF ProfileForm
  <1>8. ASSUME NEW h \in ProfileForm
        PROVE  /\ [h EXCEPT !.extra = FALSE].kind = "profile"
               /\ [h EXCEPT !.extra = FALSE].password = h.password
               /\ [h EXCEPT !.extra = FALSE].currentPassword = h.currentPassword
               /\ h.extra \in BOOLEAN
               /\ h.extra = FALSE => [h EXCEPT !.extra = FALSE] = h
    BY SMT DEF ProfileForm
  <1>9. ASSUME NEW h \in ProfileForm
        PROVE  /\ [h EXCEPT !.currentPassword = FALSE] \in ProfileForm
               /\ [h EXCEPT !.spaces = FALSE] \in ProfileForm
               /\ \A b \in BOOLEAN : [h EXCEPT !.extra = b] \in ProfileForm
    <2>1. FALSE \in BOOLEAN
      OBVIOUS
    <2> QED BY <2>1, Zenon DEF ProfileForm
  <1>10. ASSUME NEW h \in ProfileForm, h.currentPassword = FALSE
         PROVE  [h EXCEPT !.currentPassword = FALSE] = h
    BY <1>10, SMT DEF ProfileForm
  <1>11. ASSUME NEW h \in ProfileForm PROVE [h EXCEPT !.extra = @] = h
    BY SMT DEF ProfileForm
  <1>12. f.spaces \in BOOLEAN /\ f.currentPassword \in BOOLEAN /\ f.admin \in BOOLEAN
    BY SMT DEF ProfileForm
  <1> HIDE DEF lowered, allowed
  <1>13. /\ trimmed \in ProfileForm /\ trimmed.password = f.password
         /\ trimmed.currentPassword = f.currentPassword
         /\ f.email = "lower" /\ ~ f.spaces => trimmed = f
    <2>1. trimmed \in ProfileForm
      BY <1>4, <1>9, Zenon
    <2>2. trimmed.password = f.password /\ trimmed.currentPassword = f.currentPassword
      BY <1>4, <1>6, Zenon
    <2>3. ASSUME f.email = "lower", ~ f.spaces PROVE trimmed = f
      <3>1. lowered = f /\ f.spaces = FALSE
        BY <1>4, <1>12, <2>3
      <3> QED BY <3>1, <1>6, Zenon
    <2> QED BY <2>1, <2>2, <2>3
  <1>14. without \in ProfileForm /\ (f.admin /\ f.password = NoPassword => without = f)
    BY <1>5, <1>7, Zenon
  <1> HIDE DEF trimmed, without
  <1>15. asked \in ProfileForm
         /\ (f.admin /\ f.password = NoPassword /\ ~ f.currentPassword => asked = f)
    <2>1. asked \in ProfileForm
      BY <1>9, <1>14, Zenon
    <2>2. ASSUME f.admin, f.password = NoPassword, ~ f.currentPassword PROVE asked = f
      <3>1. without = f /\ f.currentPassword = FALSE
        BY <1>12, <1>14, <2>2
      <3> QED BY <3>1, <1>10, Zenon
    <2> QED BY <2>1, <2>2
  <1> HIDE DEF asked
  <1>16. /\ Converted(f).kind = "profile" /\ Converted(f).password = f.password
         /\ Converted(f).currentPassword = f.currentPassword
    BY <1>2, <1>8, <1>13, Zenon
  <1>17. ASSUME f.email = "lower", ~ f.spaces, ~ f.extra PROVE Converted(f) = f
    <2>1. trimmed = f /\ f.extra = FALSE
      BY <1>8, <1>13, <1>17
    <2> QED BY <2>1, <1>2, <1>8, Zenon
  <1>18. Taken(f) \in ProfileForm
    <2>1. (f.admin /\ asked.extra) \in BOOLEAN
      OBVIOUS
    <2>2. Taken(f) = [asked EXCEPT !.extra = f.admin /\ asked.extra]
      BY <1>3
    <2> QED BY <2>1, <2>2, <1>9, <1>15, Zenon
  <1>19. ASSUME f.admin, f.password = NoPassword, ~ f.currentPassword
         PROVE  Taken(f) = f
    <2>1. asked = f
      BY <1>15, <1>19
    <2>2. f.admin = TRUE /\ f.extra \in BOOLEAN
      BY <1>8, <1>12, <1>19
    <2>3. (f.admin /\ f.extra) = f.extra
      BY <2>2
    <2>4. Taken(f) = [f EXCEPT !.extra = f.admin /\ f.extra]
      BY <1>3, <2>1
    <2>5. [f EXCEPT !.extra = f.extra] = f
      BY SMT DEF ProfileForm
    <2> QED BY <2>3, <2>4, <2>5
  <1> QED BY <1>16, <1>17, <1>18, <1>19

LEMMA PreferencesConverted ==
    ASSUME NEW f \in PreferencesForm
    PROVE  /\ Converted(f).kind = "preferences" /\ Taken(f) \in PreferencesForm
           /\ Converted(f).notifications = f.notifications
           /\ ~ f.extra => Converted(f) = f
           /\ f.notifications # "none" => Taken(f) = f
  <1>1. f.kind = "preferences" /\ f.extra \in BOOLEAN
    BY DEF PreferencesForm
  <1>2. Converted(f) = [f EXCEPT !.extra = FALSE]
    BY <1>1 DEF Converted
  <1>3. Taken(f) = [f EXCEPT !.notifications = IF @ = "none" THEN "all" ELSE @]
    BY <1>1 DEF Taken, MergedPreferences
  <1>4. /\ Converted(f).kind = "preferences"
        /\ Converted(f).notifications = f.notifications
        /\ ~ f.extra => Converted(f) = f
    BY <1>1, <1>2, SMT DEF PreferencesForm
  <1>5. Taken(f) \in PreferencesForm /\ (f.notifications # "none" => Taken(f) = f)
    BY <1>3, SMT DEF PreferencesForm
  <1> QED BY <1>4, <1>5

LEMMA StepConverted ==
    ASSUME NEW f \in StepForm
    PROVE  /\ Converted(f).kind = "step" /\ Taken(f) \in StepForm
           /\ ~ f.extra => Converted(f) = f
           /\ f.details = "none" => Taken(f) = f
  <1>1. f.kind = "step" /\ f.extra \in BOOLEAN
    BY DEF StepForm
  <1>2. Converted(f) = [f EXCEPT !.extra = FALSE]
    BY <1>1 DEF Converted
  <1>3. Taken(f) = [f EXCEPT !.details = "none"]
    BY <1>1 DEF Taken
  <1>4. Converted(f).kind = "step" /\ (~ f.extra => Converted(f) = f)
    BY <1>1, <1>2, SMT DEF StepForm
  <1>5. Taken(f) \in StepForm /\ (f.details = "none" => Taken(f) = f)
    BY <1>3, SMT DEF StepForm
  <1> QED BY <1>4, <1>5

LEMMA ReceiptConverted ==
    ASSUME NEW f \in ReceiptForm
    PROVE  f.kind = "receipt" /\ Converted(f) = f /\ Taken(f) = f
  BY DEF ReceiptForm, Converted, Taken

\* What is taken has the kind of what was sent, and all its fields.
LEMMA TakenForm ==
    ASSUME NEW f \in Form
    PROVE  Taken(f) \in Form /\ Taken(f).kind = f.kind
  <1>1. CASE f \in ListingForm
    BY <1>1, ListingConverted DEF ListingForm, Form
  <1>2. CASE f \in UpdateForm
    BY <1>2, UpdateConverted DEF UpdateForm, Form
  <1>3. CASE f \in TransactionForm
    BY <1>3, TransactionConverted DEF TransactionForm, Form
  <1>4. CASE f \in MessageForm
    BY <1>4, MessageConverted DEF MessageForm, Form
  <1>5. CASE f \in RegistrationForm
    BY <1>5, RegistrationConverted DEF RegistrationForm, Form
  <1>6. CASE f \in ProfileForm
    BY <1>6, ProfileConverted DEF ProfileForm, Form
  <1>7. CASE f \in PreferencesForm
    BY <1>7, PreferencesConverted DEF PreferencesForm, Form
  <1>8. CASE f \in StepForm
    BY <1>8, StepConverted DEF StepForm, Form
  <1>9. CASE f \in ReceiptForm
    BY <1>9, ReceiptConverted DEF Form
  <1> QED BY <1>1, <1>2, <1>3, <1>4, <1>5, <1>6, <1>7, <1>8, <1>9 DEF Form

-----------------------------------------------------------------------------
\* Layer against layer.

\* No request of these kinds is handled: its handler looks for a parameter that
\* its path does not have, or is missing.
LEMMA Unhandled ==
    ASSUME NEW g \in Form
    PROVE  g.kind \in {"profile", "preferences", "step", "receipt"} => ~ Handled(g)
  BY DEF Handled, UserParameters, TransactionParameters, MessageMethods

\* The service refuses of what the validators accept only passwords, besides the
\* requests that have no handler.
LEMMA HandlersAgree ==
    ASSUME NEW f \in Form, Accepted(Converted(f)), ~ Handled(Taken(f))
    PROVE  \/ /\ f.kind = "registration"
              /\ f.password.length > 128 \/ f.password.symbols = {"?"}
           \/ f.kind \in {"profile", "preferences", "step", "receipt"}
  <1>1. CASE f \in TransactionForm
    <2>1. Converted(f).kind = "transaction" /\ Taken(f).kind = "transaction"
      BY <1>1, TransactionConverted DEF TransactionForm
    <2>2. Within(Converted(f).amount, Cents(1), Cents(5000000))
      BY <2>1, SMT DEF Accepted, TransactionAccepted
    <2>3. /\ Converted(f).amount = Rounded(f.amount) /\ Taken(f).amount = f.amount
          /\ f.amount \in Int
      BY <1>1, TransactionConverted, Zenon DEF TransactionForm
    <2>4. Rounded(f.amount) >= 10 /\ Rounded(f.amount) \in Int
      BY <2>2, <2>3, RoundedCents, SMT DEF Within, Cents
    <2>5. Taken(f).amount > 0
      BY <2>3, <2>4, RoundedCents, SMT
    <2> QED BY <2>1, <2>5, SMT DEF Handled
  <1>2. CASE f \in RegistrationForm
    <2>1. /\ f.kind = "registration" /\ Converted(f).kind = "registration"
          /\ Taken(f) = f /\ Converted(f).password = f.password
          /\ f.password.length \in Nat
      BY <1>2, RegistrationConverted DEF RegistrationForm, Passwords
    <2>2. /\ f.password.length >= 8 /\ f.password.mixed
          /\ f.password.symbols # {} /\ f.password.symbols \subseteq {"common", "?"}
      <3>1. RegistrationAccepted(Converted(f))
        BY <2>1 DEF Accepted
      <3>2. PasswordAccepted(f.password)
        BY <2>1, <3>1, Zenon DEF RegistrationAccepted
      <3> QED BY <3>2, Zenon DEF PasswordAccepted
    <2>3. \/ ~ Within(f.password.length, 8, 128)
          \/ f.password.symbols \cap {"common", "#"} = {}
      BY <2>1, <2>2 DEF Handled
    <2>4. CASE ~ Within(f.password.length, 8, 128)
      BY <2>1, <2>2, <2>4 DEF Within
    <2>5. CASE f.password.symbols \cap {"common", "#"} = {}
      <3>1. f.password.symbols = {"?"}
        BY <2>2, <2>5
      <3> QED BY <2>1, <3>1
    <2> QED BY <2>3, <2>4, <2>5
  <1>3. CASE f \in ListingForm \cup UpdateForm \cup MessageForm
    <2>1. Taken(f).kind = f.kind /\ f.kind \in {"listing", "update", "message"}
      BY <1>3, TakenForm DEF ListingForm, UpdateForm, MessageForm
    <2> QED BY <2>1 DEF Handled
  <1>4. CASE f \in ProfileForm \cup PreferencesForm \cup StepForm \cup ReceiptForm
    BY <1>4 DEF ProfileForm, PreferencesForm, StepForm, ReceiptForm
  <1> QED BY <1>1, <1>2, <1>3, <1>4 DEF Form

\* The models refuse of it listings with URNs for images and updates to a price
\* of a million, besides every transaction and every registration.
LEMMA ModelsAgree ==
    ASSUME NEW f \in Form, Accepted(Converted(f)), Handled(Taken(f)), ~ Stored(Taken(f))
    PROVE  \/ f.kind \in {"transaction", "registration"}
           \/ f.kind = "listing" /\ f.images.form = "urn"
           \/ f.kind = "update" /\ Rounded(f.price) = Cents(100000000)
  <1>1. CASE f \in ListingForm
    <2>1. /\ f.kind = "listing" /\ Converted(f).kind = "listing"
          /\ Converted(f).images.form \in {"urn", "escaped"}
          /\ Converted(f).images.form = "urn" => f.images.form = "urn"
      BY <1>1, ListingConverted DEF ListingForm
    <2>2. Converted(f).images.form # "escaped"
      BY <2>1 DEF Accepted, ListingAccepted
    <2> QED BY <2>1, <2>2
  <1>2. CASE f \in UpdateForm
    <2> DEFINE g == Converted(f)
    <2>1. /\ f.kind = "update" /\ g \in UpdateForm /\ g.kind = "update"
          /\ Taken(f) = g /\ g.price = Rounded(f.price)
      BY <1>2, UpdateConverted DEF UpdateForm
    <2>2. TextsAccepted(g)
      BY <2>1 DEF Accepted, UpdateAccepted
    <2>3. ~ ListingStored(g)
      BY <2>1 DEF Stored
    <2>4. g.title.length \in Nat /\ g.description.length \in Nat /\ f.price \in Int
      BY <1>2, <2>1 DEF UpdateForm, Texts
    <2>5. ~ PriceStored(g.price)
      BY <2>1, <2>2, <2>3, <2>4 DEF TextsAccepted, ListingStored, Within
    <2>6. g.price \in Int /\ g.price % 10 = 0
      BY <2>1, <2>4, RoundedCents
    <2>7. g.price > Cents(99999999) /\ g.price <= Cents(100000000)
      BY <2>2, <2>5, <2>6 DEF TextsAccepted, PriceStored, Within, Cents
    <2>8. g.price >= Cents(100000000)
      BY <2>1, <2>4, <2>7, RoundedCents
    <2> QED BY <2>1, <2>6, <2>7, <2>8 DEF Cents
  <1>3. CASE f \in MessageForm
    <2>1. f.kind = "message" /\ Converted(f) = f /\ Taken(f).content = f.content
          /\ Taken(f).kind = "message"
      BY <1>3, MessageConverted DEF MessageForm
    <2>2. MessageAccepted(f)
      BY <2>1 DEF Accepted
    <2>3. MessageStored(Taken(f))
      BY <2>1, <2>2, SMT DEF MessageAccepted, MessageStored
    <2> QED BY <2>1, <2>3 DEF Stored
  <1>4. CASE f \in TransactionForm \cup RegistrationForm
    BY <1>4 DEF TransactionForm, RegistrationForm
  <1>5. CASE f \in ProfileForm \cup PreferencesForm \cup StepForm \cup ReceiptForm
    <2>1. f.kind \in {"profile", "preferences", "step", "receipt"}
      BY <1>5 DEF ProfileForm, PreferencesForm, StepForm, ReceiptForm
    <2> QED BY <2>1, TakenForm, Unhandled
  <1> QED BY <1>1, <1>2, <1>3, <1>4, <1>5 DEF Form

\* What the handler takes is what was checked, but for what it replaces.
LEMMA TakenIsChecked ==
    ASSUME NEW f \in Form, Accepted(Converted(f))
    PROVE  /\ \/ Taken(f) = Converted(f)
              \/ /\ f.kind = "transaction"
                 /\ \/ f.buyerId # f.user \/ f.amount % 10 # 0 \/ f.spaces
                    \/ f.verificationRequired /\ ~ f.isLocalPickup
              \/ /\ f.kind = "message"
                 /\ \/ f.senderId # f.user
                    \/ f.offerAmount # 0 \/ f.attachments # 0 \/ f.others # {}
              \/ f.kind = "registration" /\ (f.email # "lower" \/ f.spaces)
              \/ /\ f.kind = "profile"
                 /\ \/ ~ f.admin \/ f.email # "lower"
                    \/ f.spaces \/ f.extra \/ f.currentPassword
              \/ f.kind \in {"preferences", "step"} /\ f.extra
              \/ f.kind = "step" /\ f.details # "none"
           /\ f.kind = "transaction" /\ Taken(f).buyerId = Taken(f).sellerId =>
                f.buyerId # f.user
           /\ f.kind = "message" => Taken(f).senderId = f.user
  <1>1. CASE f \in ListingForm
    BY <1>1, ListingConverted DEF ListingForm
  <1>2. CASE f \in UpdateForm
    BY <1>2, UpdateConverted DEF UpdateForm
  <1>3. CASE f \in TransactionForm
    <2>1. /\ f.kind = "transaction" /\ Converted(f).kind = "transaction"
          /\ f.amount \in Int /\ f.isLocalPickup \in BOOLEAN
          /\ f.verificationRequired \in BOOLEAN
      BY <1>3, TransactionConverted DEF TransactionForm
    <2>2. /\ f.isLocalPickup => f.verificationRequired
          /\ f.buyerId # f.sellerId
      <3>1. TransactionAccepted(Converted(f))
        BY <2>1 DEF Accepted
      <3>2. /\ Converted(f).isLocalPickup => Converted(f).verificationRequired
            /\ Converted(f).buyerId # Converted(f).sellerId
        BY <3>1, SMT DEF TransactionAccepted, BuyerIsNotSeller
      <3> QED BY <1>3, <3>2, TransactionConverted, Zenon
    <2>3. ASSUME f.buyerId = f.user, f.amount % 10 = 0, ~ f.spaces,
                 ~ (f.verificationRequired /\ ~ f.isLocalPickup)
          PROVE  Taken(f) = Converted(f)
      <3>1. Rounded(f.amount) = f.amount
        BY <2>1, <2>3, RoundedCents
      <3>2. f.verificationRequired = f.isLocalPickup
        BY <2>1, <2>2, <2>3
      <3>3. Converted(f) = f
        BY <1>3, <2>3, <3>1, TransactionConverted
      <3>4. Taken(f) = f
        BY <1>3, <2>3, <3>2, TransactionConverted
      <3> QED BY <3>3, <3>4
    <2>4. Taken(f).buyerId = Taken(f).sellerId => f.buyerId # f.user
      BY <1>3, <2>2, TransactionConverted
    <2> QED BY <2>1, <2>3, <2>4
  <1>4. CASE f \in MessageForm
    BY <1>4, MessageConverted DEF MessageForm
  <1>5. CASE f \in RegistrationForm
    BY <1>5, RegistrationConverted DEF RegistrationForm
  <1>6. CASE f \in ProfileForm
    <2>1. f.kind = "profile" /\ f.currentPassword \in BOOLEAN
      BY <1>6 DEF ProfileForm
    <2>2. ASSUME f.admin, f.email = "lower", ~ f.spaces, ~ f.extra, ~ f.currentPassword
          PROVE  Taken(f) = Converted(f)
      <3>1. Converted(f) = f
        BY <1>6, <2>2, ProfileConverted
      <3>2. ProfileAccepted(f)
        BY <2>1, <3>1 DEF Accepted
      <3>3. ~ (f.password.length > 0)
        BY <2>2, <3>2, SMT DEF ProfileAccepted
      <3>4. f.password = NoPassword
        BY <1>6, <3>3 DEF ProfileForm
      <3>5. Taken(f) = f
        BY <1>6, <2>2, <3>4, ProfileConverted
      <3> QED BY <3>1, <3>5
    <2> QED BY <2>1, <2>2
  <1>7. CASE f \in PreferencesForm
    <2>1. f.kind = "preferences" /\ f.extra \in BOOLEAN
      BY <1>7 DEF PreferencesForm
    <2>2. ASSUME ~ f.extra PROVE Taken(f) = Converted(f)
      <3>1. Converted(f) = f
        BY <1>7, <2>2, PreferencesConverted
      <3>2. PreferencesAccepted(f)
        BY <2>1, <3>1 DEF Accepted
      <3>3. f.notifications # "none"
        BY <3>2 DEF PreferencesAccepted
      <3> QED BY <1>7, <3>1, <3>3, PreferencesConverted
    <2> QED BY <2>1, <2>2
  <1>8. CASE f \in StepForm
    BY <1>8, StepConverted DEF StepForm
  <1>9. CASE f \in ReceiptForm
    BY <1>9, ReceiptConverted
  <1> QED BY <1>1, <1>2, <1>3, <1>4, <1>5, <1>6, <1>7, <1>8, <1>9 DEF Form

\* An update without characters to escape is accepted as it is.
LEMMA PlainUpdates ==
    ASSUME NEW f \in UpdateForm, ~ Accepted(Converted(f)), f.status = "none",
           TextsAccepted([f EXCEPT !.price = Rounded(@)])
    PROVE  f.title.amps + f.title.quotes + f.description.amps + f.description.quotes > 0
  <1> DEFINE g == [f EXCEPT !.price = Rounded(@)]
  <1>1. /\ g.title = f.title /\ g.description = f.description
        /\ g.price = Rounded(f.price) /\ Converted(f).kind = "update"
    BY UpdateConverted DEF UpdateForm
  <1>2. ~ TextsAccepted(Converted(f))
    BY <1>1, UpdateConverted DEF Accepted, UpdateAccepted, StatusAllowed
  <1>3. \/ Escaped(f.title).length # f.title.length
        \/ Escaped(f.description).length # f.description.length
    BY <1>1, <1>2, UpdateConverted DEF TextsAccepted
  <1>4. /\ f.title.amps \in Nat /\ f.title.quotes \in Nat
        /\ f.description.amps \in Nat /\ f.description.quotes \in Nat
        /\ \/ f.title.amps + f.title.quotes # 0
           \/ f.description.amps + f.description.quotes # 0
    BY <1>3, EscapedTexts DEF UpdateForm
  <1> DEFINE a == f.title.amps
             b == f.title.quotes
             c == f.description.amps
             d == f.description.quotes
  <1>5. a \in Nat /\ b \in Nat /\ c \in Nat /\ d \in Nat /\ (a + b # 0 \/ c + d # 0)
    BY <1>4
  <1> HIDE DEF a, b, c, d
  <1>6. a + b + c + d > 0
    BY <1>5
  <1> QED BY <1>6 DEF a, b, c, d

-----------------------------------------------------------------------------
LEMMA SchemasInitInv == SchemasInit => SchemasInv
  BY SchemasAssumption DEF SchemasInit, SchemasInv, SchemasTypeOK, Stages

LEMMA SchemasNextInv == SchemasInv /\ [SchemasNext]_schemasVars => SchemasInv'
  <1> SUFFICES ASSUME SchemasInv, [SchemasNext]_schemasVars PROVE SchemasInv'
    OBVIOUS
  <1> USE SchemasAssumption DEF SchemasInv
  <1>1. CASE UNCHANGED schemasVars
    BY <1>1 DEF schemasVars, SchemasTypeOK
  <1>2. CASE Validate
    BY <1>2, TakenForm DEF Validate, SchemasTypeOK, Stages
  <1>3. CASE Handle
    BY <1>3 DEF Handle, SchemasTypeOK, Stages
  <1>4. CASE Store
    BY <1>4 DEF Store, SchemasTypeOK, Stages
  <1>5. CASE SendBack
    BY <1>5 DEF SendBack, SchemasTypeOK, Stages
  <1> QED BY <1>1, <1>2, <1>3, <1>4, <1>5 DEF SchemasNext

\* The inductive invariant of Schemas.
THEOREM SchemasInvariance == SchemasSpec => []SchemasInv
  BY SchemasInitInv, SchemasNextInv, PTL DEF SchemasSpec

\* A form stays a form of its kind, whatever the layers make of it.
THEOREM SchemasTypeCorrect == SchemasSpec => []SchemasTypeOK
  <1>1. SchemasInv => SchemasTypeOK
    BY DEF SchemasInv
  <1> QED BY <1>1, SchemasInvariance, PTL

\* What the Joi schemas accept, validatePassword and the models accept, but for
\* the listed disagreements.
THEOREM LayersDoAgree == SchemasSpec => []LayersAgree
  <1>1. SchemasInv => LayersAgree
    BY HandlersAgree, ModelsAgree DEF SchemasInv, SchemasTypeOK, LayersAgree
  <1> QED BY <1>1, SchemasInvariance, PTL

\* The handlers work with what the validators have checked, but for the fields
\* that are listed.
THEOREM CheckedFormsAreUsed == SchemasSpec => []CheckedIsUsed
  <1>1. SchemasInv => CheckedIsUsed
    BY TakenIsChecked DEF SchemasInv, SchemasTypeOK, CheckedIsUsed
  <1> QED BY <1>1, SchemasInvariance, PTL

\* Escaping alone makes an update that was accepted once unacceptable.
THEOREM SentBackUpdatesAccepted == SchemasSpec => []SentBackAccepted
  <1>1. SchemasInv => SentBackAccepted
    BY PlainUpdates, FormKinds DEF SchemasInv, SchemasTypeOK, SentBackAccepted
  <1> QED BY <1>1, SchemasInvariance, PTL

=============================================================================
