----------------------------- MODULE ApiProofs ------------------------------
(***************************************************************************)
(* The processes that serve the API: the sockets and messages of one, the  *)
(* cluster of them, and the accounts they keep logs and attempts of. Each  *)
(* component is proved about by itself; they share the module and no       *)
(* state.                                                                  *)
(***************************************************************************)
EXTENDS Messaging, Cluster, Accounts, FiniteSetTheorems, SequenceTheorems, TLAPS

-----------------------------------------------------------------------------
(***************************************************************************)
(* Messaging: the registry of sockets, the explanation of approved         *)
(* messages and the finality of answers, for any number of users, sockets  *)
(* and messages. None of its three properties needs anything of the        *)
(* breakers but their states.                                              *)
(***************************************************************************)

\* Who has two sockets open has had them open side by side.
TwoOpen ==
    \A s, t \in Sockets :
        socket[s] = "open" /\ socket[t] = "open" /\ s # t /\ UserOf[s] = UserOf[t]
        => UserOf[s] \in overlapped

\* Only a health check calls models healthy that are not there.
HealthOK == isModelHealthy /\ ~ models => vouched

\* A message has its verdict from its result on, and its analysis begins without
\* models only when they are called healthy.
Tracked(r) ==
    /\ r.stage # "done" => r.verdict = "none"
    /\ r.stage = "unsent" => ~ r.waiting
    /\ r.stage = "analysing" /\ ~ r.sighted => vouched
    /\ r.verdict = "approved" /\ ~ r.sighted => vouched

MessagingInv ==
    /\ MessagingTypeOK
    /\ RegistryTrue
    /\ TwoOpen
    /\ HealthOK
    /\ \A m \in Messages : Tracked(message[m])

-----------------------------------------------------------------------------
\* What the helpers make of a message.

Same(q, r) == /\ q.stage = r.stage /\ q.sighted = r.sighted
              /\ q.verdict = r.verdict /\ q.path = r.path

LEMMA FailedKeeps ==
    ASSUME NEW r \in Message
    PROVE  /\ Failed(r) \in Message /\ Same(Failed(r), r)
           /\ ~ Failed(r).waiting /\ Failed(r).delivered = r.delivered
  BY DEF Failed, Message, Same

LEMMA SettleKeeps ==
    ASSUME NEW r \in Message
    PROVE  Settle(r) \in Message /\ Same(Settle(r), r) /\ ~ Settle(r).waiting
  <1>1. Hears(r.to) \in BOOLEAN
    BY DEF Hears
  <1>2. [r EXCEPT !.waiting = FALSE, !.delivered = Hears(r.to)] \in Message
    BY <1>1 DEF Message
  <1>3. CASE r.path = "socket"
    BY <1>1, <1>2, <1>3 DEF Settle, Message, Same
  <1>4. CASE r.path # "socket"
    BY <1>4, FailedKeeps DEF Settle, Message, Same
  <1> QED BY <1>3, <1>4

LEMMA BeginIs ==
    ASSUME MessagingTypeOK, NEW r \in Message
    PROVE  /\ Begin(r) \in Message
           /\ Begin(r).stage = IF isModelHealthy THEN "analysing" ELSE "loading"
           /\ Begin(r).sighted = (isModelHealthy /\ models)
           /\ Begin(r).verdict = r.verdict
  BY DEF Begin, Message, MessagingTypeOK

\* The result of an analysis or of a failed load.
LEMMA ResultIs ==
    ASSUME MessagingTypeOK, NEW m \in Messages, NEW v \in Verdicts, NEW b \in BOOLEAN,
           Result(m, v, b)
    PROVE  /\ message' \in [Messages -> Message]
           /\ breaker' \in [Paths -> BreakerState]
           /\ message'[m].stage = "done" /\ message'[m].verdict = v
           /\ message'[m].sighted = message[m].sighted
           /\ ~ message[m].waiting =>
                /\ message'[m].delivered = message[m].delivered
                /\ message'[m].told = message[m].told
           /\ ~ message'[m].waiting
           /\ \A k \in Messages \ {m} : message'[k] = message[k]
  <1> DEFINE r == [message[m] EXCEPT !.stage = "done", !.verdict = v, !.scored = b]
  <1>0. message[m] \in Message
    BY DEF MessagingTypeOK
  <1>1. /\ r \in Message /\ r.stage = "done" /\ r.verdict = v
        /\ r.sighted = message[m].sighted /\ r.waiting = message[m].waiting
        /\ r.delivered = message[m].delivered /\ r.told = message[m].told
        /\ r.path \in Paths
    BY <1>0 DEF Message, Verdicts
  <1>2. CASE r.waiting
    <2>1. /\ message' = [message EXCEPT ![m] = Settle(r)]
          /\ breaker' = [breaker EXCEPT ![r.path] = OnSuccess(@)]
      BY <1>2 DEF Result
    <2>2. Settle(r) \in Message /\ Same(Settle(r), r) /\ ~ Settle(r).waiting
      BY <1>1, SettleKeeps
    <2> HIDE DEF r
    <2> QED BY <2>1, <2>2, <1>1, <1>2 DEF MessagingTypeOK, Same, OnSuccess, BreakerState
  <1>3. CASE ~ r.waiting
    <2>1. message' = [message EXCEPT ![m] = r] /\ breaker' = breaker
      BY <1>3 DEF Result
    <2> HIDE DEF r
    <2> QED BY <2>1, <1>1, <1>3 DEF MessagingTypeOK
  <1> QED BY <1>2, <1>3

\* A message on its way in: what it has become, and that nothing else has moved.
LEMMA SendIs ==
    ASSUME MessagingTypeOK, NEW m \in Messages, NEW p \in Paths, NEW u \in Users,
           NEW v \in Users, Send(m, p, u, v)
    PROVE  /\ message[m].stage = "unsent"
           /\ message' \in [Messages -> Message]
           /\ breaker' \in [Paths -> BreakerState]
           /\ message'[m].verdict = message[m].verdict
           /\ message'[m].stage \in {"refused", "loading", "analysing"}
           /\ message'[m].stage = "analysing" => isModelHealthy
           /\ message'[m].stage = "analysing" =>
                 message'[m].sighted = (isModelHealthy /\ models)
           /\ message'[m].sighted =
                 IF message'[m].stage = "refused" THEN message[m].sighted
                 ELSE isModelHealthy /\ models
           /\ \A k \in Messages \ {m} : message'[k] = message[k]
  <1> DEFINE r == [message[m] EXCEPT !.path = p, !.from = u, !.to = v]
             refused == [Failed(r) EXCEPT !.stage = "refused"]
             told == [Failed(r) EXCEPT !.stage = "refused",
                                       !.told = IF p = "http" THEN "400" ELSE @]
  <1>0. message[m] \in Message
    BY DEF MessagingTypeOK
  <1>1. /\ r \in Message /\ r.stage = message[m].stage
        /\ r.verdict = message[m].verdict /\ r.sighted = message[m].sighted
    BY <1>0 DEF Message
  <1>2. Failed(r) \in Message /\ Same(Failed(r), r)
    BY <1>1, FailedKeeps
  <1> DEFINE f == Failed(r)
  <1>3. /\ refused \in Message /\ refused.stage = "refused"
        /\ refused.verdict = r.verdict /\ refused.sighted = r.sighted
    <2> HIDE DEF r
    <2> QED BY <1>2 DEF Message, Same
  <1>4. /\ told \in Message /\ told.stage = "refused"
        /\ told.verdict = r.verdict /\ told.sighted = r.sighted
    <2> HIDE DEF r
    <2> QED BY <1>2 DEF Message, Same
  <1>5. /\ Begin(r) \in Message
        /\ Begin(r).stage = IF isModelHealthy THEN "analysing" ELSE "loading"
        /\ Begin(r).sighted = (isModelHealthy /\ models)
        /\ Begin(r).verdict = r.verdict
    BY <1>1, BeginIs
  <1>6. message[m].stage = "unsent"
    BY DEF Send
  <1>7. \/ message' = [message EXCEPT ![m] = told] /\ breaker' = breaker
        \/ message' = [message EXCEPT ![m] = refused] /\ breaker' = breaker
        \/ /\ message' = [message EXCEPT ![m] = Begin(r)]
           /\ breaker' = [breaker EXCEPT ![p] = OnFire(@)]
    BY DEF Send
  <1>8. breaker' \in [Paths -> BreakerState]
    BY <1>7 DEF MessagingTypeOK, OnFire, BreakerState
  <1> HIDE DEF r, refused, told
  <1> QED BY <1>1, <1>3, <1>4, <1>5, <1>6, <1>7, <1>8 DEF MessagingTypeOK

LEMMA TimeOutIs ==
    ASSUME MessagingTypeOK, NEW m \in Messages, TimeOut(m)
    PROVE  /\ message' \in [Messages -> Message]
           /\ breaker' \in [Paths -> BreakerState]
           /\ message[m].waiting
           /\ Same(message'[m], message[m]) /\ ~ message'[m].waiting
           /\ \A k \in Messages \ {m} : message'[k] = message[k]
  <1>1. message[m] \in Message
    BY DEF MessagingTypeOK
  <1>2. Failed(message[m]) \in Message /\ Same(Failed(message[m]), message[m])
        /\ ~ Failed(message[m]).waiting
    BY <1>1, FailedKeeps
  <1>3. message' = [message EXCEPT ![m] = Failed(message[m])] /\ message[m].waiting
    BY DEF TimeOut
  <1>4. message[m].path \in Paths
    BY <1>1 DEF Message
  <1>5. breaker' \in [Paths -> BreakerState]
    BY <1>4 DEF TimeOut, MessagingTypeOK, OnFailure, BreakerState
  <1> QED BY <1>1, <1>2, <1>3, <1>5 DEF MessagingTypeOK, Same

LEMMA MessageLoadsIs ==
    ASSUME MessagingTypeOK, NEW m \in Messages, NEW ok \in BOOLEAN, MessageLoads(m, ok)
    PROVE  /\ message' \in [Messages -> Message]
           /\ breaker' \in [Paths -> BreakerState]
           /\ message[m].stage = "loading"
           /\ ok => /\ message'[m].stage = "analysing" /\ message'[m].sighted
                    /\ message'[m].verdict = message[m].verdict
                    /\ message'[m].waiting = message[m].waiting
           /\ ~ ok => message'[m].stage = "done" /\ message'[m].verdict = "pending"
           /\ ~ message[m].waiting =>
                /\ message'[m].delivered = message[m].delivered
                /\ message'[m].told = message[m].told
                /\ ~ message'[m].waiting
           /\ \A k \in Messages \ {m} : message'[k] = message[k]
  <1>0. message[m] \in Message /\ message[m].stage = "loading"
    BY DEF MessagingTypeOK, MessageLoads
  <1>1. CASE ok
    <2>1. message' = [message EXCEPT ![m].stage = "analysing", ![m].sighted = TRUE]
          /\ breaker' = breaker
      BY <1>1 DEF MessageLoads
    <2> QED BY <2>1, <1>0, <1>1 DEF MessagingTypeOK, Message
  <1>2. CASE ~ ok
    <2>1. Result(m, "pending", FALSE) /\ "pending" \in Verdicts
      BY <1>2 DEF MessageLoads, Verdicts
    <2>2. FALSE \in BOOLEAN
      OBVIOUS
    <2> QED BY <2>1, <2>2, <1>0, <1>2, ResultIs
  <1> QED BY <1>1, <1>2

LEMMA AnalysedIs ==
    ASSUME MessagingTypeOK, NEW m \in Messages, Analysed(m)
    PROVE  /\ message' \in [Messages -> Message]
           /\ breaker' \in [Paths -> BreakerState]
           /\ message[m].stage = "analysing" /\ message'[m].stage = "done"
           /\ message'[m].sighted = message[m].sighted
           /\ ~ message[m].waiting =>
                /\ message'[m].delivered = message[m].delivered
                /\ message'[m].told = message[m].told
           /\ ~ message'[m].waiting
           /\ \A k \in Messages \ {m} : message'[k] = message[k]
  <1>1. message[m].stage = "analysing"
    BY DEF Analysed
  <1>2. PICK v \in Verdicts, b \in BOOLEAN : Result(m, v, b)
    BY DEF Analysed, Verdicts
  <1> QED BY <1>1, <1>2, ResultIs

-----------------------------------------------------------------------------
\* The invariant.

LEMMA MessagingInitInv == MessagingInit => MessagingInv
  <1> SUFFICES ASSUME MessagingInit PROVE MessagingInv
    OBVIOUS
  <1>1. PICK who \in [Messages -> Users] :
            message = [m \in Messages |-> Unsent(who[m])]
    <2>1. message \in [Messages -> {Unsent(u) : u \in Users}]
      BY DEF MessagingInit
    <2>2. \A m \in Messages : \E u \in Users : message[m] = Unsent(u)
      BY <2>1
    <2> DEFINE w == [m \in Messages |-> CHOOSE u \in Users : message[m] = Unsent(u)]
    <2>3. \A m \in Messages : w[m] \in Users /\ message[m] = Unsent(w[m])
      BY <2>2
    <2>4. w \in [Messages -> Users] /\ message = [m \in Messages |-> Unsent(w[m])]
      BY <2>1, <2>3
    <2> HIDE DEF w
    <2> QED BY <2>4
  <1>2. \A u \in Users : Unsent(u) \in Message /\ Tracked(Unsent(u))
    BY DEF Unsent, Message, Tracked, Paths, Verdicts
  <1>3. message \in [Messages -> Message] /\ \A m \in Messages : Tracked(message[m])
    BY <1>1, <1>2
  <1>4. MessagingTypeOK
    BY <1>3, MessagingAssumption DEF MessagingInit, MessagingTypeOK, BreakerState
  <1>5. RegistryTrue /\ TwoOpen /\ HealthOK
    BY DEF MessagingInit, RegistryTrue, TwoOpen, HealthOK, OpenSockets
  <1> QED BY <1>3, <1>4, <1>5 DEF MessagingInv

\* Sockets come and go: the registry.
LEMMA RegistryStep ==
    ASSUME MessagingTypeOK, RegistryTrue, TwoOpen,
           (\E s \in Sockets : Connect(s) \/ Disconnect(s)) \/ Shutdown
    PROVE  MessagingTypeOK' /\ RegistryTrue' /\ TwoOpen'
  <1>1. ASSUME NEW s \in Sockets, Connect(s)
        PROVE  MessagingTypeOK' /\ RegistryTrue' /\ TwoOpen'
    <2>1. UserOf[s] \in Users /\ s # NoSocket
      BY MessagingAssumption
    <2>2. MessagingTypeOK'
      BY <1>1, <2>1 DEF Connect, MessagingTypeOK, ai
    <2>3. \A t \in Sockets : socket'[t] = IF t = s THEN "open" ELSE socket[t]
      BY <1>1 DEF Connect, MessagingTypeOK
    <2>4. \A u \in Users : connectedUsers'[u] = IF u = UserOf[s] THEN s ELSE connectedUsers[u]
      BY <1>1, <2>1 DEF Connect, MessagingTypeOK
    <2>5. RegistryTrue'
      BY <1>1, <2>1, <2>3, <2>4 DEF Connect, MessagingTypeOK, RegistryTrue, OpenSockets
    <2>6. TwoOpen'
      BY <1>1, <2>1, <2>3 DEF Connect, TwoOpen, OpenSockets
    <2> QED BY <2>2, <2>5, <2>6
  <1>2. ASSUME NEW s \in Sockets, Disconnect(s)
        PROVE  MessagingTypeOK' /\ RegistryTrue' /\ TwoOpen'
    <2>1. UserOf[s] \in Users
      BY MessagingAssumption
    <2>2. MessagingTypeOK'
      BY <1>2, <2>1 DEF Disconnect, MessagingTypeOK, ai
    <2>3. /\ \A t \in Sockets : socket'[t] = IF t = s THEN "closed" ELSE socket[t]
          /\ socket[s] = "open" /\ overlapped' = overlapped
      BY <1>2 DEF Disconnect, MessagingTypeOK
    <2>4. \A u \in Users : connectedUsers'[u] = IF u = UserOf[s] THEN NoSocket ELSE connectedUsers[u]
      BY <1>2, <2>1 DEF Disconnect, MessagingTypeOK
    <2>5. TwoOpen'
      BY <2>3 DEF TwoOpen
    <2>6. ASSUME NEW u \in Users
          PROVE  (IF connectedUsers[u] = NoSocket
                  THEN OpenSockets(u) = {} \/ u \in overlapped
                  ELSE connectedUsers[u] \in OpenSockets(u))'
      <3>1. CASE u = UserOf[s]
        <4>1. \A t \in OpenSockets(u)' : t \in Sockets /\ t # s /\ socket[t] = "open" /\ UserOf[t] = u
          BY <2>3 DEF OpenSockets
        <4>2. OpenSockets(u)' # {} => u \in overlapped
          BY <4>1, <2>3, <3>1 DEF TwoOpen
        <4> QED BY <4>2, <2>3, <2>4, <3>1
      <3>2. CASE u # UserOf[s]
        <4>1. OpenSockets(u)' = OpenSockets(u)
          BY <2>3, <3>2 DEF OpenSockets
        <4> QED BY <4>1, <2>3, <2>4, <3>2 DEF RegistryTrue
      <3> QED BY <3>1, <3>2
    <2>7. RegistryTrue'
      BY <2>6 DEF RegistryTrue
    <2> QED BY <2>2, <2>5, <2>7
  <1>3. ASSUME Shutdown
        PROVE  MessagingTypeOK' /\ RegistryTrue' /\ TwoOpen'
    <2>1. MessagingTypeOK'
      BY <1>3 DEF Shutdown, MessagingTypeOK, ai
    <2>2. \A t \in Sockets : socket'[t] # "open"
      BY <1>3 DEF Shutdown, MessagingTypeOK
    <2>3. \A u \in Users : connectedUsers'[u] = NoSocket
      BY <1>3 DEF Shutdown
    <2> QED BY <2>1, <2>2, <2>3 DEF RegistryTrue, TwoOpen, OpenSockets
  <1> QED BY <1>1, <1>2, <1>3

\* The rest leaves the sockets alone.
LEMMA RegistryStays ==
    ASSUME RegistryTrue, TwoOpen, UNCHANGED registry
    PROVE  RegistryTrue' /\ TwoOpen'
  BY DEF registry, RegistryTrue, TwoOpen, OpenSockets

\* One message is tracked after a step that moved it.
LEMMA MessageStep ==
    ASSUME MessagingInv, NEW m \in Messages,
           \/ \E p \in Paths, t \in Talks : Send(m, p, t[1], t[2])
           \/ TimeOut(m) \/ Analysed(m)
           \/ \E ok \in BOOLEAN : MessageLoads(m, ok)
    PROVE  MessagingInv'
  <1> USE DEF MessagingInv
  <1>0. Tracked(message[m])
    OBVIOUS
  <1>1. ASSUME NEW p \in Paths, NEW t \in Talks, Send(m, p, t[1], t[2])
        PROVE  MessagingInv'
    <2>1. t[1] \in Users /\ t[2] \in Users
      BY MessagingAssumption
    <2>2. UNCHANGED <<registry, ai>>
      BY <1>1 DEF Send
    <2>3. /\ message[m].stage = "unsent"
          /\ message' \in [Messages -> Message]
          /\ breaker' \in [Paths -> BreakerState]
          /\ message'[m].verdict = message[m].verdict
          /\ message'[m].stage \in {"refused", "loading", "analysing"}
          /\ message'[m].stage = "analysing" => isModelHealthy
          /\ message'[m].stage = "analysing" =>
                message'[m].sighted = (isModelHealthy /\ models)
          /\ \A k \in Messages \ {m} : message'[k] = message[k]
      BY <1>1, <2>1, SendIs
    <2>4. MessagingTypeOK' /\ HealthOK'
      BY <2>2, <2>3 DEF MessagingTypeOK, HealthOK, registry, ai
    <2>5. Tracked(message[m])'
      BY <1>0, <2>2, <2>3 DEF Tracked, HealthOK, ai
    <2>6. \A k \in Messages \ {m} : Tracked(message[k])'
      BY <2>2, <2>3 DEF Tracked, ai
    <2> QED BY <2>2, <2>4, <2>5, <2>6, RegistryStays
  <1>2. ASSUME TimeOut(m)
        PROVE  MessagingInv'
    <2>2. UNCHANGED <<registry, ai>>
      BY <1>2 DEF TimeOut
    <2>3. /\ message' \in [Messages -> Message]
          /\ breaker' \in [Paths -> BreakerState]
          /\ Same(message'[m], message[m]) /\ ~ message'[m].waiting
          /\ \A k \in Messages \ {m} : message'[k] = message[k]
      BY <1>2, TimeOutIs
    <2>4. MessagingTypeOK' /\ HealthOK'
      BY <2>2, <2>3 DEF MessagingTypeOK, HealthOK, registry, ai
    <2>5. \A k \in Messages : Tracked(message[k])'
      BY <2>2, <2>3 DEF Tracked, ai, Same
    <2> QED BY <2>2, <2>4, <2>5, RegistryStays
  <1>3. ASSUME Analysed(m)
        PROVE  MessagingInv'
    <2>2. UNCHANGED <<registry, ai>>
      BY <1>3 DEF Analysed
    <2>3. /\ message' \in [Messages -> Message]
          /\ breaker' \in [Paths -> BreakerState]
          /\ message[m].stage = "analysing" /\ message'[m].stage = "done"
          /\ message'[m].sighted = message[m].sighted
          /\ \A k \in Messages \ {m} : message'[k] = message[k]
      BY <1>3, AnalysedIs
    <2>4. MessagingTypeOK' /\ HealthOK'
      BY <2>2, <2>3 DEF MessagingTypeOK, HealthOK, registry, ai
    <2>5. \A k \in Messages : Tracked(message[k])'
      BY <1>0, <2>2, <2>3 DEF Tracked, ai
    <2> QED BY <2>2, <2>4, <2>5, RegistryStays
  <1>4. ASSUME NEW ok \in BOOLEAN, MessageLoads(m, ok)
        PROVE  MessagingInv'
    <2>2. UNCHANGED <<registry, booting>> /\ Loaded(ok)
      BY <1>4 DEF MessageLoads
    <2>3. /\ message' \in [Messages -> Message]
          /\ breaker' \in [Paths -> BreakerState]
          /\ message[m].stage = "loading"
          /\ ok => /\ message'[m].stage = "analysing" /\ message'[m].sighted
                   /\ message'[m].verdict = message[m].verdict
          /\ ~ ok => message'[m].stage = "done" /\ message'[m].verdict = "pending"
          /\ \A k \in Messages \ {m} : message'[k] = message[k]
      BY <1>4, MessageLoadsIs
    <2>4. MessagingTypeOK' /\ HealthOK'
      BY <2>2, <2>3 DEF MessagingTypeOK, HealthOK, registry, Loaded
    <2>5. \A k \in Messages : Tracked(message[k])'
      BY <1>0, <2>2, <2>3 DEF Tracked, Loaded
    <2> QED BY <2>2, <2>4, <2>5, RegistryStays
  <1> QED BY <1>1, <1>2, <1>3, <1>4

LEMMA MessagingNextInv == MessagingInv /\ [MessagingNext]_messagingVars => MessagingInv'
  <1> SUFFICES ASSUME MessagingInv, [MessagingNext]_messagingVars PROVE MessagingInv'
    OBVIOUS
  <1> USE DEF MessagingInv
  <1>1. ASSUME (\E s \in Sockets : Connect(s) \/ Disconnect(s)) \/ Shutdown
        PROVE  MessagingInv'
    <2>1. UNCHANGED <<ai, breaker, message>>
      BY <1>1 DEF Connect, Disconnect, Shutdown
    <2>2. HealthOK' /\ \A m \in Messages : Tracked(message[m])'
      BY <2>1 DEF HealthOK, Tracked, ai
    <2> QED BY <1>1, <2>1, <2>2, RegistryStep
  <1>2. ASSUME NEW m \in Messages,
               \/ \E p \in Paths, t \in Talks : Send(m, p, t[1], t[2])
               \/ TimeOut(m) \/ Analysed(m)
               \/ \E ok \in BOOLEAN : MessageLoads(m, ok)
        PROVE  MessagingInv'
    BY <1>2, MessageStep
  <1>3. ASSUME NEW ok \in BOOLEAN, BootLoads(ok)
        PROVE  MessagingInv'
    <2>1. UNCHANGED <<registry, breaker, message>> /\ booting' = FALSE /\ Loaded(ok)
      BY <1>3 DEF BootLoads
    <2>2. MessagingTypeOK' /\ HealthOK' /\ \A m \in Messages : Tracked(message[m])'
      BY <2>1 DEF MessagingTypeOK, HealthOK, Tracked, Loaded, registry
    <2> QED BY <2>1, <2>2, RegistryStays
  <1>4. ASSUME NEW p \in Paths, ResetBreaker(p)
        PROVE  MessagingInv'
    <2>1. UNCHANGED <<registry, ai, message>>
      BY <1>4 DEF ResetBreaker
    <2>2. MessagingTypeOK' /\ HealthOK' /\ \A m \in Messages : Tracked(message[m])'
      BY <1>4, <2>1 DEF ResetBreaker, MessagingTypeOK, HealthOK, Tracked, registry, ai, BreakerState
    <2> QED BY <2>1, <2>2, RegistryStays
  <1>5. ASSUME HealthCheck
        PROVE  MessagingInv'
    <2>1. UNCHANGED registry
      BY <1>5 DEF HealthCheck
    <2>2. MessagingTypeOK' /\ HealthOK' /\ \A m \in Messages : Tracked(message[m])'
      BY <1>5 DEF HealthCheck, MessagingTypeOK, HealthOK, Tracked, registry
    <2> QED BY <2>1, <2>2, RegistryStays
  <1>6. ASSUME UNCHANGED messagingVars
        PROVE  MessagingInv'
    <2>1. UNCHANGED registry
      BY <1>6 DEF messagingVars
    <2>2. MessagingTypeOK' /\ HealthOK' /\ \A m \in Messages : Tracked(message[m])'
      BY <1>6 DEF messagingVars, MessagingTypeOK, HealthOK, Tracked, registry, ai
    <2> QED BY <2>1, <2>2, RegistryStays
  <1> QED BY <1>1, <1>2, <1>3, <1>4, <1>5, <1>6 DEF MessagingNext

\* The inductive invariant holds in every state.
THEOREM MessagingInvariance == MessagingSpec => []MessagingInv
  BY MessagingInitInv, MessagingNextInv, PTL DEF MessagingSpec

\* The variables keep their types.
THEOREM MessagingTypeCorrect == MessagingSpec => []MessagingTypeOK
  <1>1. MessagingInv => MessagingTypeOK
    BY DEF MessagingInv
  <1> QED BY <1>1, MessagingInvariance, PTL

\* connectedUsers names open sockets of the right users, and misses a user with
\* an open socket only after two of that user's sockets overlapped.
THEOREM RegistryIsTrue == MessagingSpec => []RegistryTrue
  <1>1. MessagingInv => RegistryTrue
    BY DEF MessagingInv
  <1> QED BY <1>1, MessagingInvariance, PTL

\* A message approved by no model was approved after a health check had vouched
\* for models that were never loaded.
THEOREM UnscoredIsExplained == MessagingSpec => []UnscoredExplained
  <1>1. MessagingInv => UnscoredExplained
    BY DEF MessagingInv, Tracked, UnscoredExplained
  <1> QED BY <1>1, MessagingInvariance, PTL

\* Whatever comes after the answer, the answer stays.
THEOREM OutcomesAreFinal == MessagingSpec => OutcomeIsFinal
  <1> DEFINE Final(m) ==
        message[m].stage # "unsent" /\ ~ message[m].waiting
        => /\ message'[m].delivered = message[m].delivered
           /\ message'[m].told = message[m].told
           /\ ~ message'[m].waiting
  <1>1. ASSUME MessagingTypeOK, [MessagingNext]_messagingVars
        PROVE  [\A m \in Messages : Final(m)]_messagingVars
    <2>1. ASSUME NEW k \in Messages, NEW m \in Messages,
                 \/ \E p \in Paths, t \in Talks : Send(k, p, t[1], t[2])
                 \/ TimeOut(k) \/ Analysed(k)
                 \/ \E ok \in BOOLEAN : MessageLoads(k, ok)
          PROVE  Final(m)
      <3>1. ASSUME NEW p \in Paths, NEW t \in Talks, Send(k, p, t[1], t[2])
            PROVE  Final(m)
        <4>1. t[1] \in Users /\ t[2] \in Users
          BY MessagingAssumption
        <4>2. /\ message[k].stage = "unsent"
              /\ \A j \in Messages \ {k} : message'[j] = message[j]
          BY <1>1, <3>1, <4>1, SendIs
        <4> QED BY <4>2
      <3>2. ASSUME TimeOut(k)
            PROVE  Final(m)
        <4>1. /\ message[k].waiting
              /\ \A j \in Messages \ {k} : message'[j] = message[j]
          BY <1>1, <3>2, TimeOutIs
        <4> QED BY <4>1
      <3>3. ASSUME Analysed(k)
            PROVE  Final(m)
        <4>1. /\ ~ message[k].waiting =>
                    /\ message'[k].delivered = message[k].delivered
                    /\ message'[k].told = message[k].told
              /\ ~ message'[k].waiting
              /\ \A j \in Messages \ {k} : message'[j] = message[j]
          BY <1>1, <3>3, AnalysedIs
        <4> QED BY <4>1
      <3>4. ASSUME NEW ok \in BOOLEAN, MessageLoads(k, ok)
            PROVE  Final(m)
        <4>1. /\ ~ message[k].waiting =>
                    /\ message'[k].delivered = message[k].delivered
                    /\ message'[k].told = message[k].told
                    /\ ~ message'[k].waiting
              /\ \A j \in Messages \ {k} : message'[j] = message[j]
          BY <1>1, <3>4, MessageLoadsIs
        <4> QED BY <4>1
      <3> QED BY <2>1, <3>1, <3>2, <3>3, <3>4
    <2>2. ASSUME UNCHANGED message
          PROVE  \A m \in Messages : Final(m)
      BY <2>2
    <2>3. \/ \E k \in Messages :
                \/ \E p \in Paths, t \in Talks : Send(k, p, t[1], t[2])
                \/ TimeOut(k) \/ Analysed(k)
                \/ \E ok \in BOOLEAN : MessageLoads(k, ok)
          \/ UNCHANGED message
      BY <1>1 DEF MessagingNext, messagingVars, Connect, Disconnect, Shutdown, BootLoads,
                  ResetBreaker, HealthCheck
    <2> HIDE DEF Final
    <2> QED BY <2>1, <2>2, <2>3
  <1> QED BY <1>1, MessagingTypeCorrect, PTL DEF MessagingSpec, OutcomeIsFinal

-----------------------------------------------------------------------------
(***************************************************************************)
(* Cluster: how workers end, who forks them again and who cuts their       *)
(* connections, for any number of workers and of forks.                    *)
(***************************************************************************)

\* What is known of a worker: it is forked once and ends once, it drains and
\* closes the database for a reason, and its signals come from the primary.
WorkerInv(w) ==
    /\ stage[w] = "unborn" <=> w > forked
    /\ stage[w] = "gone" <=> code[w] # "none"
    /\ reaped[w] => stage[w] = "gone"
    /\ stage[w] = "draining" => cause[w] # "none"
    /\ closing[w] => stage[w] = "draining" /\ sent \cap {"SIGTERM", "SIGINT"} # {}
    /\ pending[w] \subseteq sent
    /\ code[w] = "0" /\ primary # "gone" => cause[w] # "none"

ClusterInv ==
    /\ ClusterTypeOK
    /\ \A w \in Workers : WorkerInv(w)
    /\ WorkersExplained /\ CutExplained

LEMMA WorkersFinite ==
    ASSUME NEW S \in SUBSET Workers
    PROVE  IsFiniteSet(S) /\ Cardinality(S) \in Nat
  <1>1. IsFiniteSet(Workers)
    BY FS_Interval, ClusterAssumption DEF Workers
  <1>2. IsFiniteSet(S)
    BY <1>1, FS_Subset
  <1> QED BY <1>2, FS_CardinalityType

LEMMA ClusterInitInv == ClusterInit => ClusterInv
  <1> SUFFICES ASSUME ClusterInit PROVE ClusterInv
    OBVIOUS
  <1> USE ClusterAssumption
  <1>1. ClusterTypeOK
    <2>1. stage \in [Workers -> {"unborn", "booting", "running", "draining", "gone"}]
      BY DEF ClusterInit
    <2>2. forked \in Workers
      BY DEF ClusterInit, Workers
    <2> QED BY <2>1, <2>2 DEF ClusterInit, ClusterTypeOK
  <1>2. \A w \in Workers : WorkerInv(w)
    BY DEF ClusterInit, WorkerInv, Workers
  <1>3. WorkersExplained
    <2>1. {w \in 1 .. forked : ~ reaped[w]} = 1 .. WorkerCount
      BY DEF ClusterInit, Workers
    <2>2. {w \in Workers : reaped[w] /\ code[w] = "0"} = {}
      BY DEF ClusterInit
    <2>3. Cardinality(1 .. WorkerCount) = WorkerCount /\ Cardinality({}) = 0
      BY FS_Interval, FS_EmptySet
    <2>4. WorkerCount = Cardinality({w \in 1 .. forked : ~ reaped[w]})
                        + Cardinality({w \in Workers : reaped[w] /\ code[w] = "0"})
      <3>1. Cardinality({w \in 1 .. forked : ~ reaped[w]}) = WorkerCount
        BY <2>1, <2>3, Zenon
      <3>2. Cardinality({w \in Workers : reaped[w] /\ code[w] = "0"}) = 0
        BY <2>2, <2>3, Zenon
      <3> QED BY <3>1, <3>2
    <2> QED BY <2>2, <2>4 DEF WorkersExplained
  <1>4. CutExplained
    BY DEF ClusterInit, CutExplained
  <1> QED BY <1>1, <1>2, <1>3, <1>4 DEF ClusterInv

\* Nobody is forked or reaped: what a step may do to the account of the workers.
LEMMA AccountStays ==
    ASSUME ClusterInv, UNCHANGED <<forked, reaped>>,
           primary' # "gone" => primary # "gone",
           \A w \in Workers : /\ reaped[w] => code'[w] = code[w]
                              /\ cause[w] # "none" => cause'[w] # "none"
    PROVE  WorkersExplained'
  <1> SUFFICES ASSUME primary' # "gone" PROVE WorkersExplained'
    BY DEF WorkersExplained
  <1>1. {w \in 1 .. forked' : ~ reaped'[w]} = {w \in 1 .. forked : ~ reaped[w]}
    OBVIOUS
  <1>2. {w \in Workers : reaped'[w] /\ code'[w] = "0"}
            = {w \in Workers : reaped[w] /\ code[w] = "0"}
    OBVIOUS
  <1>3. \A w \in Workers : reaped'[w] /\ code'[w] = "0" => cause'[w] # "none"
    BY DEF ClusterInv, WorkersExplained
  <1> QED BY <1>1, <1>2, <1>3 DEF ClusterInv, WorkersExplained

\* A worker ends.
LEMMA ExitStep ==
    ASSUME ClusterInv, NEW w \in Workers, Alive(w),
           NEW c \in {"0", "1", "killed"}, Exit(w, c),
           \/ c \in {"1", "killed"} \/ primary = "gone" \/ "response" \notin open[w]
           \/ sent \cap {"SIGTERM", "SIGINT"} # {},
           c = "0" => cause[w] # "none" \/ primary = "gone"
    PROVE  ClusterInv'
  <1> USE DEF ClusterInv
  <1>1. ClusterTypeOK'
    BY DEF Exit, ClusterTypeOK
  <1>2. \A v \in Workers : WorkerInv(v)'
    <2> SUFFICES ASSUME NEW v \in Workers PROVE WorkerInv(v)'
      OBVIOUS
    <2>1. CASE v = w
      BY <2>1 DEF Exit, ClusterTypeOK, WorkerInv, Alive
    <2>2. CASE v # w
      BY <2>2 DEF Exit, ClusterTypeOK, WorkerInv
    <2> QED BY <2>1, <2>2
  <1>3. ~ reaped[w] /\ code[w] = "none"
    BY DEF WorkerInv, Alive, ClusterTypeOK
  <1>4. \A v \in Workers \ {w} : code'[v] = code[v] /\ cut'[v] = cut[v]
    BY DEF Exit, ClusterTypeOK
  <1>5. WorkersExplained'
    <2>1. UNCHANGED <<primary, forked, reaped, cause>>
      BY DEF Exit
    <2> QED BY <1>3, <1>4, <2>1, AccountStays
  <1>6. CutExplained'
    <2>1. code'[w] = c /\ cut'[w] = cut[w] \cup open[w] /\ UNCHANGED <<primary, sent, cause>>
      BY DEF Exit, ClusterTypeOK
    <2>2. ASSUME NEW k \in cut'[w]
          PROVE  \/ c \in {"1", "killed"} \/ primary = "gone"
                 \/ sent \cap {"SIGTERM", "SIGINT"} # {}
                 \/ k = "request" /\ cause[w] # "none"
      <3>1. CASE k \in cut[w]
        BY <1>3, <3>1 DEF CutExplained
      <3>2. CASE k \in open[w]
        BY <3>2 DEF ClusterTypeOK, Traffic
      <3> QED BY <2>1, <2>2, <3>1, <3>2
    <2> QED BY <1>4, <2>1, <2>2 DEF CutExplained
  <1> QED BY <1>1, <1>2, <1>5, <1>6

\* gracefulShutdown() of server.ts starts, or starts again.
LEMMA DrainStep ==
    ASSUME ClusterInv, NEW w \in Workers, stage[w] \in {"running", "draining"},
           NEW why \in {"signal", "exception", "address"}, Drain(w, why),
           UNCHANGED <<primary, listens, sent, forked, code, reaped>>,
           app' \in [Workers -> {"off", "on", "closed"}],
           closing' \in [Workers -> BOOLEAN],
           \A v \in Workers : closing'[v] => \/ closing[v]
                                             \/ /\ v = w
                                                /\ sent \cap {"SIGTERM", "SIGINT"} # {},
           pending' \in [Workers -> SUBSET Signals],
           \A v \in Workers : pending'[v] \subseteq pending[v]
    PROVE  ClusterInv'
  <1> USE DEF ClusterInv
  <1>1. ClusterTypeOK'
    BY DEF Drain, ClusterTypeOK
  <1>2. \A v \in Workers : /\ cause[v] # "none" => cause'[v] # "none"
                           /\ v # w => stage'[v] = stage[v] /\ cause'[v] = cause[v]
    BY DEF Drain, ClusterTypeOK
  <1>3. stage'[w] = "draining" /\ cause'[w] # "none"
    BY DEF Drain, ClusterTypeOK
  <1>4. \A v \in Workers : WorkerInv(v)'
    <2> SUFFICES ASSUME NEW v \in Workers PROVE WorkerInv(v)'
      OBVIOUS
    <2>1. CASE v = w
      BY <1>3, <2>1 DEF WorkerInv
    <2>2. CASE v # w
      BY <1>2, <2>2 DEF WorkerInv
    <2> QED BY <2>1, <2>2
  <1>5. WorkersExplained'
    BY <1>2, AccountStays
  <1>6. CutExplained'
    <2>1. \A v \in Workers \ {w} : cut'[v] = cut[v]
      BY DEF Drain, ClusterTypeOK
    <2>2. cut'[w] \subseteq cut[w] \cup {"request"}
      BY DEF Drain, ClusterTypeOK
    <2> QED BY <1>2, <1>3, <2>1, <2>2 DEF CutExplained
  <1> QED BY <1>1, <1>4, <1>5, <1>6

\* Steps that neither end a worker nor drain one.
LEMMA QuietStep ==
    ASSUME ClusterInv, ClusterTypeOK',
           UNCHANGED <<forked, code, reaped, closing, cause, cut>>,
           primary = "gone" => primary' = "gone", sent \subseteq sent',
           \A w \in Workers : /\ \/ stage'[w] = stage[w]
                                 \/ stage[w] = "booting" /\ stage'[w] = "running"
                              /\ pending'[w] \subseteq sent'
    PROVE  ClusterInv'
  <1> USE DEF ClusterInv
  <1>1. \A w \in Workers : WorkerInv(w)'
    <2> SUFFICES ASSUME NEW w \in Workers PROVE WorkerInv(w)'
      OBVIOUS
    <2> QED BY DEF WorkerInv
  <1>2. WorkersExplained'
    BY AccountStays
  <1>3. CutExplained'
    BY DEF CutExplained
  <1> QED BY <1>1, <1>2, <1>3

\* The "exit" event keeps the account.
LEMMA ReapStep ==
    ASSUME ClusterInv, NEW w \in Workers, Reap(w)
    PROVE  ClusterInv'
  <1> USE ClusterAssumption DEF ClusterInv
  <1> DEFINE unreaped == {v \in 1 .. forked : ~ reaped[v]}
             unreplaced == {v \in Workers : reaped[v] /\ code[v] = "0"}
  <1>1. /\ stage[w] = "gone" /\ ~ reaped[w] /\ primary # "gone" /\ code[w] # "none"
        /\ w \in 1 .. forked /\ forked \in Workers
    BY DEF Reap, WorkerInv, ClusterTypeOK, Workers
  <1>2. /\ UNCHANGED <<primary, listens, sent, code, pending, server, app, closing, open,
                       cause, cut>>
        /\ reaped' = [reaped EXCEPT ![w] = TRUE]
    BY DEF Reap
  <1>3. /\ unreaped \in SUBSET Workers /\ unreplaced \in SUBSET Workers
        /\ w \in unreaped /\ w \notin unreplaced
    BY <1>1 DEF Workers
  <1>4. /\ IsFiniteSet(unreaped) /\ IsFiniteSet(unreplaced)
        /\ Cardinality(unreaped) \in Nat /\ Cardinality(unreplaced) \in Nat
    BY <1>3, WorkersFinite
  <1>5. /\ WorkerCount = Cardinality(unreaped) + Cardinality(unreplaced)
        /\ \A v \in unreplaced : cause[v] # "none"
    BY <1>1 DEF WorkersExplained
  <1>6. /\ IsFiniteSet(unreaped \ {w})
        /\ Cardinality(unreaped \ {w}) = Cardinality(unreaped) - 1
    BY <1>3, <1>4, FS_RemoveElement
  <1>7. CASE code[w] = "0" /\ UNCHANGED <<forked, stage>>
    <2>1. {v \in 1 .. forked' : ~ reaped'[v]} = unreaped \ {w}
      BY <1>2, <1>7 DEF ClusterTypeOK, Workers
    <2>2. {v \in Workers : reaped'[v] /\ code'[v] = "0"} = unreplaced \cup {w}
      BY <1>2, <1>7 DEF ClusterTypeOK
    <2>3. Cardinality(unreplaced \cup {w}) = Cardinality(unreplaced) + 1
      BY <1>3, <1>4, FS_AddElement
    <2>4. cause[w] # "none"
      BY <1>1, <1>7 DEF WorkerInv
    <2>5. WorkersExplained'
      <3>1. WorkerCount = Cardinality({v \in 1 .. forked' : ~ reaped'[v]})
                + Cardinality({v \in Workers : reaped'[v] /\ code'[v] = "0"})
        <4>1. Cardinality({v \in 1 .. forked' : ~ reaped'[v]}) = Cardinality(unreaped \ {w})
          BY <2>1, Zenon
        <4>2. Cardinality({v \in Workers : reaped'[v] /\ code'[v] = "0"})
                = Cardinality(unreplaced \cup {w})
          BY <2>2, Zenon
        <4> HIDE DEF unreaped, unreplaced
        <4> QED BY <1>4, <1>5, <1>6, <2>3, <4>1, <4>2
      <3>2. \A v \in Workers : reaped'[v] /\ code'[v] = "0" => cause'[v] # "none"
        BY <1>2, <1>5, <2>2, <2>4
      <3> QED BY <3>1, <3>2 DEF WorkersExplained
    <2>6. ClusterTypeOK' /\ CutExplained'
      BY <1>2, <1>7 DEF ClusterTypeOK, CutExplained
    <2>7. \A v \in Workers : WorkerInv(v)'
      BY <1>1, <1>2, <1>7 DEF WorkerInv, ClusterTypeOK
    <2> QED BY <2>5, <2>6, <2>7
  <1>8. CASE /\ code[w] # "0" /\ forked < MaxForks /\ forked' = forked + 1
             /\ stage' = [stage EXCEPT ![forked + 1] = "booting"]
    <2>1. PICK n \in Workers : n = forked + 1
      BY <1>1, <1>8 DEF Workers
    <2>2. stage[n] = "unborn" /\ ~ reaped[n] /\ n # w /\ code[n] = "none" /\ ~ closing[n]
      BY <1>1, <2>1 DEF WorkerInv, Workers
    <2>3. {v \in 1 .. forked' : ~ reaped'[v]} = (unreaped \ {w}) \cup {n}
      BY <1>1, <1>2, <1>8, <2>1, <2>2 DEF ClusterTypeOK, Workers
    <2>4. {v \in Workers : reaped'[v] /\ code'[v] = "0"} = unreplaced
      BY <1>2, <1>8 DEF ClusterTypeOK
    <2>5. Cardinality((unreaped \ {w}) \cup {n}) = Cardinality(unreaped)
      <3>1. n \notin unreaped \ {w}
        BY <1>1, <2>1 DEF Workers
      <3> HIDE DEF unreaped
      <3>2. Cardinality((unreaped \ {w}) \cup {n}) = Cardinality(unreaped \ {w}) + 1
        BY <1>6, <3>1, FS_AddElement
      <3> QED BY <1>4, <1>6, <3>2
    <2>6. WorkersExplained'
      BY <1>2, <1>5, <2>3, <2>4, <2>5 DEF WorkersExplained
    <2>7. ClusterTypeOK' /\ CutExplained'
      BY <1>2, <1>8, <2>1 DEF ClusterTypeOK, CutExplained
    <2>8. \A v \in Workers : WorkerInv(v)'
      <3> SUFFICES ASSUME NEW v \in Workers PROVE WorkerInv(v)'
        OBVIOUS
      <3>1. stage' = [stage EXCEPT ![n] = "booting"] /\ forked' = n
        BY <1>8, <2>1
      <3>2. CASE v = n
        BY <1>1, <1>2, <2>1, <2>2, <3>1, <3>2 DEF WorkerInv, ClusterTypeOK, Workers
      <3>3. CASE v # n
        <4>1. v > n <=> v > forked
          BY <1>1, <2>1, <3>3 DEF Workers
        <4>2. stage'[v] = stage[v] /\ (reaped'[v] => reaped[v] \/ v = w)
          BY <1>2, <3>1, <3>3 DEF ClusterTypeOK
        <4> QED BY <1>1, <1>2, <3>1, <4>1, <4>2 DEF WorkerInv
      <3> QED BY <3>2, <3>3
    <2> QED BY <2>6, <2>7, <2>8
  <1> QED BY <1>7, <1>8 DEF Reap

LEMMA ClusterNextInv == ClusterInv /\ [ClusterNext]_clusterVars => ClusterInv'
  <1> SUFFICES ASSUME ClusterInv, [ClusterNext]_clusterVars PROVE ClusterInv'
    OBVIOUS
  <1>0. ClusterTypeOK /\ \A w \in Workers : WorkerInv(w)
    BY DEF ClusterInv
  <1>1. CASE UNCHANGED clusterVars
    BY <1>0, <1>1, QuietStep DEF clusterVars, process, ClusterTypeOK, WorkerInv
  <1>2. ASSUME NEW w \in Workers, Drained(w) PROVE ClusterInv'
    <2>1. cause[w] # "none" /\ Alive(w)
      BY <1>0, <1>2 DEF Drained, WorkerInv, Alive
    <2> QED BY <1>2, <2>1, ExitStep DEF Drained
  <1>3. ASSUME NEW w \in Workers, TimesOut(w) \/ InitializationFails(w) \/ Killed(w)
        PROVE  ClusterInv'
    BY <1>3, ExitStep DEF TimesOut, InitializationFails, Killed, Alive
  <1>4. ASSUME NEW w \in Workers, DatabaseClosed(w) PROVE ClusterInv'
    <2>1. Alive(w) /\ cause[w] # "none" /\ sent \cap {"SIGTERM", "SIGINT"} # {}
      BY <1>0, <1>4 DEF DatabaseClosed, WorkerInv, Alive
    <2> QED BY <1>4, <2>1, ExitStep DEF DatabaseClosed
  <1>5. ASSUME NEW w \in Workers, Orphaned(w) PROVE ClusterInv'
    BY <1>5, ExitStep DEF Orphaned, Alive
  <1>6. ASSUME NEW w \in Workers, Boots(w) PROVE ClusterInv'
    <2>1. ClusterTypeOK'
      BY <1>0, <1>6 DEF Boots, ClusterTypeOK
    <2> QED BY <1>0, <1>6, <2>1, QuietStep DEF Boots, ClusterTypeOK, WorkerInv
  <1>7. ASSUME NEW w \in Workers, Listens(w) \/ Initialized(w) PROVE ClusterInv'
    <2>1. CASE UNCHANGED <<stage, cause, open, cut>>
      <3>1. ClusterTypeOK' /\ UNCHANGED <<primary, sent, forked, code, reaped, pending,
                                          closing, cause, cut, stage>>
        BY <1>0, <1>7, <2>1 DEF Listens, Initialized, Drain, ClusterTypeOK
      <3> QED BY <1>0, <3>1, QuietStep DEF WorkerInv
    <2>2. CASE Drain(w, "address")
      <3>1. /\ stage[w] \in {"running", "draining"}
            /\ UNCHANGED <<primary, listens, sent, forked, code, reaped, pending, closing>>
            /\ app' \in [Workers -> {"off", "on", "closed"}]
        BY <1>0, <1>7 DEF Listens, Initialized, ClusterTypeOK
      <3> QED BY <1>0, <2>2, <3>1, DrainStep DEF ClusterTypeOK
    <2> QED BY <1>7, <2>1, <2>2 DEF Listens, Initialized
  <1>8. ASSUME NEW w \in Workers, Throws(w) PROVE ClusterInv'
    BY <1>0, <1>8, DrainStep DEF Throws, ClusterTypeOK
  <1>9. ASSUME NEW w \in Workers, Connection(w) PROVE ClusterInv'
    <2>1. ClusterTypeOK' /\ UNCHANGED <<primary, sent, forked, code, reaped, pending,
                                        closing, cause, cut, stage>>
      BY <1>0, <1>9 DEF Connection, ClusterTypeOK, process, Traffic
    <2> QED BY <1>0, <2>1, QuietStep DEF WorkerInv
  <1>10. ASSUME NEW w \in Workers, Reap(w) PROVE ClusterInv'
    BY <1>10, ReapStep
  <1>11. ASSUME NEW w \in Workers, NEW s \in Signals, Signalled(w, s) PROVE ClusterInv'
    <2>1. s \in sent
      BY <1>0, <1>11 DEF Signalled, WorkerInv
    <2>2. CASE stage[w] = "booting" /\ Exit(w, "killed")
      BY <2>2, ExitStep DEF Alive
    <2>3. CASE /\ stage[w] \in {"running", "draining"} /\ Drain(w, "signal")
               /\ pending' = [pending EXCEPT ![w] = @ \ {s}]
               /\ closing' = [closing EXCEPT ![w] = @ \/ s # "SIGQUIT"]
               /\ UNCHANGED <<primary, listens, sent, forked, code, reaped, app>>
      <3>1. /\ pending' \in [Workers -> SUBSET Signals]
            /\ \A v \in Workers : pending'[v] \subseteq pending[v]
            /\ app' \in [Workers -> {"off", "on", "closed"}]
        BY <1>0, <2>3 DEF ClusterTypeOK
      <3>2. s # "SIGQUIT" => sent \cap {"SIGTERM", "SIGINT"} # {}
        BY <2>1, ClusterAssumption
      <3>3. closing' \in [Workers -> BOOLEAN]
        BY <1>0, <2>3 DEF ClusterTypeOK
      <3>4. \A v \in Workers : closing'[v] => closing[v] \/ (v = w /\ s # "SIGQUIT")
        BY <1>0, <2>3 DEF ClusterTypeOK
      <3> QED BY <2>1, <2>3, <3>1, <3>2, <3>3, <3>4, DrainStep
    <2> QED BY <1>11, <2>2, <2>3 DEF Signalled
  <1>12. ASSUME NEW s \in Signals, PrimarySignalled(s) PROVE ClusterInv'
    <2>1. ClusterTypeOK'
      BY <1>0, <1>12 DEF PrimarySignalled, ClusterTypeOK, process
    <2>2. \A w \in Workers : pending'[w] \subseteq sent'
      BY <1>0, <1>12 DEF PrimarySignalled, ClusterTypeOK, WorkerInv
    <2> QED BY <1>12, <2>1, <2>2, QuietStep DEF PrimarySignalled, process
  <1>13. CASE PrimaryInitialized \/ PrimaryFails \/ PrimaryDatabaseClosed
    <2>1. /\ ClusterTypeOK'
          /\ UNCHANGED <<sent, forked, code, reaped, pending, closing, cause, cut, stage>>
          /\ primary = "gone" => primary' = "gone"
      BY <1>0, <1>13 DEF PrimaryInitialized, PrimaryFails, PrimaryDatabaseClosed,
         ClusterTypeOK, process
    <2> QED BY <1>0, <2>1, QuietStep DEF WorkerInv
  <1> QED BY <1>1, <1>2, <1>3, <1>4, <1>5, <1>6, <1>7, <1>8, <1>9, <1>10, <1>11, <1>12,
             <1>13 DEF ClusterNext

\* The inductive invariant of Cluster.
THEOREM ClusterInvariance == ClusterSpec => []ClusterInv
  BY ClusterInitInv, ClusterNextInv, PTL DEF ClusterSpec

\* The processes of server.ts and app.ts keep to their states.
THEOREM ClusterTypeCorrect == ClusterSpec => []ClusterTypeOK
  <1>1. ClusterInv => ClusterTypeOK
    BY DEF ClusterInv
  <1> QED BY <1>1, ClusterInvariance, PTL

\* setupCluster() replaces every worker that did not end by gracefulShutdown().
THEOREM WorkersAreExplained == ClusterSpec => []WorkersExplained
  <1>1. ClusterInv => WorkersExplained
    BY DEF ClusterInv
  <1> QED BY <1>1, ClusterInvariance, PTL

\* gracefulShutdown() cuts off requests; a response that was written is cut off
\* only by its timeout, a kill, or because app.ts or the primary ended the worker.
THEOREM CutsAreExplained == ClusterSpec => []CutExplained
  <1>1. ClusterInv => CutExplained
    BY DEF ClusterInv
  <1> QED BY <1>1, ClusterInvariance, PTL

-----------------------------------------------------------------------------
(***************************************************************************)
(* Accounts: revoked tokens, counted attempts and the security logs, for   *)
(* any number of workers, users, requests and restarts.  The three share   *)
(* only the number of requests.                                            *)
(***************************************************************************)

\* Nothing is there of a request that has not come.
Arrived == \A r \in Requests : r > requests => op[r] = None

\* The worker that has refreshed a token remembers it, until it is restarted.
TokenInv ==
    \A s \in Requests :
        refresh[s] # None =>
            /\ refresh[s].at <= restarts[refresh[s].by]
            /\ refresh[s].stage = "done" /\ refresh[s].at = restarts[refresh[s].by] =>
                <<"jti", refresh[s].of>> \in tokenBlacklist[refresh[s].by]

\* As long as no timer has emptied a count, it has all attempts with a timer.
CountInv ==
    \A p \in Procs : \A k \in Limited :
        /\ timers[p][k] <= requests
        /\ ~ emptied[p][k] => timers[p][k] <= attempts[p][k]

Finished(r) == op[r] # None /\ op[r].stage = "done"

\* The log has the entry of r, or enough entries that are not older in front of
\* where it was.
Keeps(log, r) ==
    \E j \in 1 .. Len(log) + 1 :
        /\ \A i \in 1 .. Len(log) : i < j => log[i][2] >= r
        /\ \/ j > LOG_LIMIT
           \/ j <= Len(log) /\ log[j] = HandlerEntry(r)

\* Two handlers of one user that run are both known to be concurrent.  The
\* entry of one that has finished alone is kept by the log, and by every copy
\* of the log that a handler still holds; that handler has come later.
LogInv ==
    /\ \A r, s \in Requests :
        Running(r) /\ Running(s) /\ op[r].user = op[s].user /\ r # s
            => r \in concurrent
    /\ \A r \in Requests :
        Finished(r) /\ r \notin concurrent =>
            /\ Keeps(securityLog[op[r].user], r)
            /\ \A s \in Requests : Running(s) /\ op[s].user = op[r].user
                    => s > r /\ Keeps(op[s].log, r)

AccountsInv == AccountsTypeOK /\ Arrived /\ TokenInv /\ CountInv /\ LogInv

LEMMA AccountsInitInv == AccountsInit => AccountsInv
  <1> SUFFICES ASSUME AccountsInit PROVE AccountsInv
    OBVIOUS
  <1> USE AccountsAssumption
  <1>1. AccountsTypeOK
    BY DEF AccountsInit, AccountsTypeOK
  <1>2. Arrived /\ TokenInv
    BY DEF AccountsInit, Arrived, TokenInv
  <1>3. CountInv /\ LogInv
    BY DEF AccountsInit, CountInv, LogInv, Running, Finished
  <1> QED BY <1>1, <1>2, <1>3 DEF AccountsInv

-----------------------------------------------------------------------------
\* What the actions do to each of the three parts.

LEMMA TokensKept ==
    ASSUME AccountsTypeOK, [AccountsNext]_accountsVars
    PROVE  \/ UNCHANGED <<issued, refresh, restarts, tokenBlacklist>>
           \/ \E p \in Procs : Issue(p) \/ Restart(p)
           \/ \E p \in Procs, t \in Requests : RefreshAccessToken(p, t) \/ Logout(p, t)
           \/ \E r \in Requests : RevokeRefreshed(r)
  BY DEF AccountsNext, accountsVars, tokens, memory, CleanRateLimitMap, AttemptExpires,
         Login, CreateUser, FindByPk, UpdateUser, SaveLog, UpdatePreferences,
         DeleteUser, WriteLog, OpFails

LEMMA CountsKept ==
    ASSUME AccountsTypeOK, Arrived, [AccountsNext]_accountsVars
    PROVE  /\ requests' \in {requests, requests + 1} /\ requests' \in 0 .. MaxRequests
           /\ \/ UNCHANGED <<attempts, timers, emptied>>
              \/ \E p \in Procs, k \in Limited : AttemptExpires(p, k)
              \/ \E p \in Procs : Restart(p)
              \/ /\ requests' = requests + 1 /\ UNCHANGED emptied
                 /\ \E p \in Procs, k \in Limited : Attempt(p, k)
  <1> USE AccountsAssumption
  <1>1. /\ requests' \in {requests, requests + 1} /\ requests' \in 0 .. MaxRequests
    <2>1. Arrives \/ UNCHANGED requests
      BY DEF AccountsNext, accountsVars, Issue, CleanRateLimitMap, Restart, Login,
             RefreshAccessToken, RevokeRefreshed, Logout, AttemptExpires, CreateUser, FindByPk,
             UpdateUser, SaveLog, UpdatePreferences, DeleteUser, WriteLog, OpFails
    <2> QED BY <2>1 DEF Arrives, AccountsTypeOK
  <1>2. ASSUME NEW p \in Procs, NEW u \in UserIds, Login(p, u) \/ CreateUser(p, u)
        PROVE  \/ UNCHANGED <<attempts, timers, emptied>>
               \/ /\ requests' = requests + 1 /\ UNCHANGED emptied
                  /\ \E k \in Limited : Attempt(p, k)
    BY <1>2 DEF Login, CreateUser, VerifyPassword, HashNewPassword, Limited, Arrives
  <1> QED
    BY <1>1, <1>2
    DEF AccountsNext, accountsVars, memory, Issue, CleanRateLimitMap, RefreshAccessToken,
        RevokeRefreshed, Logout, Revoke, FindByPk, UpdateUser, SaveLog, UpdatePreferences, DeleteUser,
        WriteLog, OpFails

\* Logs: what is put in front of one, and what is cut off behind it.
LEMMA Prepended ==
    ASSUME NEW e \in Entry, NEW log \in Seq(Entry)
    PROVE  /\ <<e>> \o log \in Seq(Entry) /\ Len(<<e>> \o log) = Len(log) + 1
           /\ (<<e>> \o log)[1] = e
           /\ \A i \in 1 .. Len(log) : (<<e>> \o log)[i + 1] = log[i]
  <1>1. <<e>> \in Seq(Entry) /\ Len(<<e>>) = 1 /\ <<e>>[1] = e
    OBVIOUS
  <1> QED BY <1>1, ConcatProperties

LEMMA CappedIs ==
    ASSUME NEW log \in Seq(Entry)
    PROVE  /\ Capped(log) \in Seq(Entry)
           /\ Len(Capped(log)) = IF Len(log) < LOG_LIMIT THEN Len(log) ELSE LOG_LIMIT
           /\ \A i \in 1 .. Len(Capped(log)) : Capped(log)[i] = log[i]
  <1> DEFINE n == IF Len(log) < LOG_LIMIT THEN Len(log) ELSE LOG_LIMIT
  <1>1. n \in 0 .. Len(log) /\ Len(log) \in Nat
    BY AccountsAssumption
  <1>2. \A i \in 1 .. n : log[i] \in Entry
    BY <1>1
  <1>3. Capped(log) = SubSeq(log, 1, n)
    BY DEF Capped
  <1> HIDE DEF n
  <1>4. /\ SubSeq(log, 1, n) \in Seq(Entry) /\ Len(SubSeq(log, 1, n)) = n
        /\ \A i \in 1 .. n : SubSeq(log, 1, n)[i] = log[i]
    BY <1>1, <1>2
  <1> QED BY <1>3, <1>4 DEF n

LEMMA KeptBehind ==
    ASSUME NEW log \in Seq(Entry), NEW e \in Entry, NEW r \in Requests,
           Keeps(log, r), e[2] >= r
    PROVE  Keeps(<<e>> \o log, r)
  <1> USE AccountsAssumption
  <1>1. PICK j \in 1 .. Len(log) + 1 :
            /\ \A i \in 1 .. Len(log) : i < j => log[i][2] >= r
            /\ \/ j > LOG_LIMIT
               \/ j <= Len(log) /\ log[j] = HandlerEntry(r)
    BY DEF Keeps
  <1> DEFINE new == <<e>> \o log
  <1>2. /\ Len(new) = Len(log) + 1 /\ Len(log) \in Nat /\ new[1] = e
        /\ \A i \in 1 .. Len(log) : new[i + 1] = log[i]
    BY Prepended
  <1> HIDE DEF new
  <1>3. ASSUME NEW i \in 1 .. Len(new), i < j + 1
        PROVE  new[i][2] >= r
    <2>1. CASE i = 1
      BY <1>2, <2>1
    <2>2. CASE i # 1
      <3>1. i - 1 \in 1 .. Len(log) /\ i - 1 < j /\ (i - 1) + 1 = i
        BY <1>2, <1>3, <2>2
      <3>2. new[(i - 1) + 1] = log[i - 1]
        BY <1>2, <3>1
      <3> QED BY <1>1, <3>1, <3>2
    <2> QED BY <2>1, <2>2
  <1>4. j + 1 \in 1 .. Len(new) + 1
    BY <1>2
  <1>5. \/ j + 1 > LOG_LIMIT
        \/ j + 1 <= Len(new) /\ new[j + 1] = HandlerEntry(r)
    BY <1>1, <1>2
  <1>6. Keeps(new, r)
    BY <1>3, <1>4, <1>5 DEF Keeps
  <1> QED BY <1>6 DEF new

LEMMA KeptInFront ==
    ASSUME NEW log \in Seq(Entry), NEW r \in Requests, Keeps(log, r)
    PROVE  Keeps(Capped(log), r)
  <1> USE AccountsAssumption
  <1>1. PICK j \in 1 .. Len(log) + 1 :
            /\ \A i \in 1 .. Len(log) : i < j => log[i][2] >= r
            /\ \/ j > LOG_LIMIT
               \/ j <= Len(log) /\ log[j] = HandlerEntry(r)
    BY DEF Keeps
  <1> DEFINE new == Capped(log)
  <1>2. /\ Len(log) \in Nat
        /\ Len(new) = IF Len(log) < LOG_LIMIT THEN Len(log) ELSE LOG_LIMIT
        /\ \A i \in 1 .. Len(new) : new[i] = log[i]
    BY CappedIs
  <1> HIDE DEF new
  <1>3. CASE j <= Len(new)
    <2>1. j \in 1 .. Len(new) + 1 /\ j <= Len(log) /\ j <= LOG_LIMIT
      BY <1>2, <1>3
    <2>2. new[j] = HandlerEntry(r)
      BY <1>1, <1>2, <1>3, <2>1
    <2>3. \A i \in 1 .. Len(new) : i < j => new[i][2] >= r
      BY <1>1, <1>2
    <2>4. Keeps(new, r)
      BY <1>3, <2>1, <2>2, <2>3 DEF Keeps
    <2> QED BY <2>4 DEF new
  <1>4. CASE j > Len(new)
    <2>1. Len(new) = LOG_LIMIT /\ j > LOG_LIMIT
      BY <1>1, <1>2, <1>4
    <2>2. LOG_LIMIT + 1 \in 1 .. Len(new) + 1 /\ LOG_LIMIT + 1 > LOG_LIMIT
      BY <2>1
    <2>3. \A i \in 1 .. Len(new) : i < LOG_LIMIT + 1 => new[i][2] >= r
      BY <1>1, <1>2, <2>1
    <2>4. Keeps(new, r)
      BY <2>2, <2>3 DEF Keeps
    <2> QED BY <2>4 DEF new
  <1> QED BY <1>2, <1>3, <1>4

\* r writes a log that keeps what its copy keeps of older handlers; when it ends,
\* its own entry too.
Writes(r) ==
    \E log \in Seq(Entry), next \in {"written", "done"} :
        /\ next = "done" => Keeps(log, r)
        /\ \A q \in Requests : q <= r /\ Keeps(op[r].log, q) => Keeps(log, q)
        /\ WriteLog(r, log, next)

LEMMA EntriesOf ==
    ASSUME NEW r \in Requests
    PROVE  /\ HandlerEntry(r) \in Entry /\ HookEntry(r) \in Entry
           /\ HandlerEntry(r)[2] = r /\ HookEntry(r)[2] = r
  BY DEF HandlerEntry, HookEntry, Entry

LEMMA WithHandlerEntry ==
    ASSUME NEW r \in Requests, NEW log \in Seq(Entry)
    PROVE  /\ <<HandlerEntry(r)>> \o log \in Seq(Entry)
           /\ Keeps(<<HandlerEntry(r)>> \o log, r)
           /\ \A q \in Requests : q <= r /\ Keeps(log, q)
                    => Keeps(<<HandlerEntry(r)>> \o log, q)
  <1> USE AccountsAssumption DEF Requests
  <1> DEFINE new == <<HandlerEntry(r)>> \o log
  <1>1. new \in Seq(Entry) /\ Len(new) = Len(log) + 1 /\ Len(log) \in Nat
        /\ new[1] = HandlerEntry(r)
    BY EntriesOf, Prepended
  <1>2. \A q \in Requests : q <= r /\ Keeps(log, q) => Keeps(new, q)
    BY EntriesOf, KeptBehind
  <1> HIDE DEF new
  <1>3. Keeps(new, r)
    <2>1. 1 \in 1 .. Len(new) + 1 /\ 1 <= Len(new)
      BY <1>1
    <2>2. \A i \in 1 .. Len(new) : i < 1 => new[i][2] >= r
      BY <1>1
    <2> QED BY <1>1, <2>1, <2>2 DEF Keeps
  <1> QED BY <1>1, <1>2, <1>3 DEF new

LEMMA WithHookEntry ==
    ASSUME NEW r \in Requests, NEW log \in Seq(Entry)
    PROVE  /\ HookLog(r, log) \in Seq(Entry)
           /\ \A q \in Requests : q <= r /\ Keeps(log, q) => Keeps(HookLog(r, log), q)
  <1> USE AccountsAssumption DEF Requests
  <1> DEFINE new == <<HookEntry(r)>> \o log
  <1>1. new \in Seq(Entry)
    BY EntriesOf, Prepended
  <1>2. \A q \in Requests : q <= r /\ Keeps(log, q) => Keeps(new, q)
    BY EntriesOf, KeptBehind
  <1>3. HookLog(r, log) = Capped(new)
    BY DEF HookLog
  <1> HIDE DEF new
  <1> QED BY <1>1, <1>2, <1>3, CappedIs, KeptInFront

LEMMA HandlerWrites ==
    ASSUME AccountsTypeOK, NEW r \in Requests,
           UpdateUser(r) \/ SaveLog(r) \/ UpdatePreferences(r) \/ DeleteUser(r)
    PROVE  /\ Running(r) /\ requests' = requests
           /\ \/ Writes(r)
              \/ /\ op' = [op EXCEPT ![r].stage = "written"]
                 /\ UNCHANGED <<securityLog, concurrent>>
  <1>1. Running(r) /\ op[r] # None
    BY DEF UpdateUser, SaveLog, UpdatePreferences, DeleteUser, At, Running
  <1>2. op[r].log \in Seq(Entry)
    BY <1>1 DEF AccountsTypeOK, Op
  <1> DEFINE own == <<HandlerEntry(r)>> \o op[r].log
             both == HookLog(r, own)
             hook == HookLog(r, op[r].log)
  <1>3. requests' = requests
    BY DEF UpdateUser, SaveLog, UpdatePreferences, DeleteUser, WriteLog
  <1>4. \/ WriteLog(r, own, "done") \/ WriteLog(r, both, "done")
        \/ WriteLog(r, hook, "written")
        \/ /\ op' = [op EXCEPT ![r].stage = "written"]
           /\ UNCHANGED <<securityLog, concurrent>>
    BY DEF UpdateUser, SaveLog, UpdatePreferences, DeleteUser
  <1>5. /\ own \in Seq(Entry) /\ Keeps(own, r)
        /\ \A q \in Requests : q <= r /\ Keeps(op[r].log, q) => Keeps(own, q)
    BY <1>2, WithHandlerEntry
  <1>6. /\ hook \in Seq(Entry)
        /\ \A q \in Requests : q <= r /\ Keeps(op[r].log, q) => Keeps(hook, q)
    BY <1>2, WithHookEntry
  <1> HIDE DEF own, hook
  <1>7. /\ both \in Seq(Entry)
        /\ \A q \in Requests : q <= r /\ Keeps(own, q) => Keeps(both, q)
    BY <1>5, WithHookEntry
  <1>8. Keeps(both, r)
    <2>1. r <= r
      BY DEF Requests
    <2> QED BY <1>5, <1>7, <2>1
  <1>9. \A q \in Requests : q <= r /\ Keeps(op[r].log, q) => Keeps(both, q)
    BY <1>5, <1>7
  <1> HIDE DEF both
  <1>10. CASE WriteLog(r, own, "done")
    BY <1>1, <1>3, <1>5, <1>10 DEF Writes
  <1>11. CASE WriteLog(r, both, "done")
    BY <1>1, <1>3, <1>7, <1>8, <1>9, <1>11 DEF Writes
  <1>12. CASE WriteLog(r, hook, "written")
    BY <1>1, <1>3, <1>6, <1>12 DEF Writes
  <1> QED BY <1>1, <1>3, <1>4, <1>10, <1>11, <1>12

LEMMA LogsKept ==
    ASSUME AccountsTypeOK, Arrived, [AccountsNext]_accountsVars
    PROVE  \/ UNCHANGED <<op, securityLog, concurrent>>
           \/ \E u \in UserIds, kind \in {"update", "preferences", "delete"} :
                FindByPk(kind, u)
           \/ \E r \in Requests :
                /\ Running(r) /\ requests' = requests
                /\ \/ Writes(r)
                   \/ /\ op' = [op EXCEPT ![r].stage = "written"]
                      /\ UNCHANGED <<securityLog, concurrent>>
                   \/ OpFails(r)
  <1>1. ASSUME NEW r \in Requests, UpdateUser(r) \/ SaveLog(r)
                                     \/ UpdatePreferences(r) \/ DeleteUser(r)
        PROVE  /\ Running(r) /\ requests' = requests
               /\ \/ Writes(r)
                  \/ /\ op' = [op EXCEPT ![r].stage = "written"]
                     /\ UNCHANGED <<securityLog, concurrent>>
    BY <1>1, HandlerWrites
  <1> QED
    BY <1>1
    DEF AccountsNext, accountsVars, rows, Issue, CleanRateLimitMap, RefreshAccessToken,
        RevokeRefreshed, Logout, Restart, AttemptExpires, Login, CreateUser, OpFails

-----------------------------------------------------------------------------
LEMMA TokenStep ==
    ASSUME AccountsTypeOK, TokenInv, [AccountsNext]_accountsVars
    PROVE  /\ issued' \in SUBSET Requests
           /\ restarts' \in [Procs -> 0 .. MaxRestarts]
           /\ refresh' \in [Requests -> Refresh \cup {None}]
           /\ tokenBlacklist' \in [Procs -> SUBSET Revocation]
           /\ TokenInv'
  <1> USE AccountsAssumption
  <1> DEFINE Goal == /\ issued' \in SUBSET Requests
                     /\ restarts' \in [Procs -> 0 .. MaxRestarts]
                     /\ refresh' \in [Requests -> Refresh \cup {None}]
                     /\ tokenBlacklist' \in [Procs -> SUBSET Revocation]
                     /\ TokenInv'
  <1>0. \A s \in Requests : refresh[s] # None =>
            /\ refresh[s] \in Refresh /\ refresh[s].of \in Requests
            /\ refresh[s].by \in Procs /\ refresh[s].at \in Nat
    BY DEF AccountsTypeOK, Refresh
  <1>1. CASE UNCHANGED <<issued, refresh, restarts, tokenBlacklist>>
    BY <1>1 DEF TokenInv, AccountsTypeOK
  <1>2. ASSUME NEW p \in Procs, Issue(p)
        PROVE  Goal
    <2>1. issued' \in SUBSET Requests /\ UNCHANGED <<refresh, restarts, tokenBlacklist>>
      BY <1>2 DEF Issue, Arrives, memory, AccountsTypeOK, Requests
    <2> QED BY <2>1 DEF TokenInv, AccountsTypeOK
  <1>3. ASSUME NEW p \in Procs, NEW t \in Requests, RefreshAccessToken(p, t)
        PROVE  Goal
    <2> DEFINE o == [of |-> t, by |-> p, at |-> restarts[p], stage |-> "verified"]
    <2>1. /\ o \in Refresh /\ o.by = p /\ o.at = restarts[p] /\ o.stage = "verified"
          /\ restarts[p] \in Nat
      BY DEF Refresh, AccountsTypeOK
    <2> HIDE DEF o
    <2>2. /\ refresh' = [refresh EXCEPT ![requests'] = o]
          /\ UNCHANGED <<restarts, issued, tokenBlacklist>>
      BY <1>3 DEF RefreshAccessToken, memory, o
    <2>3. refresh' \in [Requests -> Refresh \cup {None}]
      BY <2>1, <2>2 DEF AccountsTypeOK
    <2>4. \A s \in Requests : refresh'[s] = refresh[s] \/ refresh'[s] = o
      BY <2>2 DEF AccountsTypeOK
    <2>5. ASSUME NEW s \in Requests, refresh'[s] # None
          PROVE  /\ refresh'[s].at <= restarts'[refresh'[s].by]
                 /\ refresh'[s].stage = "done"
                    /\ refresh'[s].at = restarts'[refresh'[s].by] =>
                    <<"jti", refresh'[s].of>> \in tokenBlacklist'[refresh'[s].by]
      <3>1. CASE refresh'[s] = refresh[s]
        BY <2>2, <2>5, <3>1 DEF TokenInv
      <3>2. CASE refresh'[s] = o
        BY <2>1, <2>2, <3>2
      <3> QED BY <2>4, <3>1, <3>2
    <2>6. TokenInv'
      BY <2>5 DEF TokenInv
    <2> QED BY <2>2, <2>3, <2>6 DEF AccountsTypeOK
  <1>4. ASSUME NEW p \in Procs, NEW t \in Requests, Logout(p, t)
        PROVE  Goal
    <2>1. /\ tokenBlacklist' \in [Procs -> SUBSET Revocation]
          /\ \A q \in Procs : tokenBlacklist[q] \subseteq tokenBlacklist'[q]
      BY <1>4 DEF Logout, Revoke, Revocation, AccountsTypeOK
    <2>2. UNCHANGED <<issued, refresh, restarts>>
      BY <1>4 DEF Logout, tokens
    <2> QED BY <1>0, <2>1, <2>2 DEF TokenInv, AccountsTypeOK
  <1>5. ASSUME NEW p \in Procs, Restart(p)
        PROVE  Goal
    <2>1. /\ tokenBlacklist' \in [Procs -> SUBSET Revocation]
          /\ restarts' \in [Procs -> 0 .. MaxRestarts]
          /\ restarts'[p] > restarts[p]
          /\ \A q \in Procs \ {p} : /\ tokenBlacklist'[q] = tokenBlacklist[q]
                                    /\ restarts'[q] = restarts[q]
      BY <1>5 DEF Restart, AccountsTypeOK
    <2>2. ASSUME NEW s \in Requests
          PROVE  /\ refresh'[s] \in Refresh \cup {None}
                 /\ refresh'[s] # None =>
                    /\ refresh[s] # None /\ refresh'[s].of = refresh[s].of
                    /\ refresh'[s].by = refresh[s].by /\ refresh'[s].at = refresh[s].at
                    /\ refresh'[s].stage = "done" => refresh[s].stage = "done"
      <3>1. refresh'[s] = IF Ended(p, refresh[s]) THEN [refresh[s] EXCEPT !.stage = "dead"]
                          ELSE refresh[s]
        BY <1>5 DEF Restart
      <3>2. CASE Ended(p, refresh[s])
        <4>1. refresh[s] # None /\ refresh[s] \in Refresh
          BY <1>0, <3>2 DEF Ended
        <4> QED BY <3>1, <3>2, <4>1 DEF Refresh
      <3>3. CASE ~ Ended(p, refresh[s])
        BY <3>1, <3>3 DEF AccountsTypeOK
      <3> QED BY <3>2, <3>3
    <2>3. refresh' \in [Requests -> Refresh \cup {None}]
      <3>1. DOMAIN refresh' = Requests /\ refresh' = [s \in Requests |-> refresh'[s]]
        BY <1>5 DEF Restart
      <3> QED BY <2>2, <3>1
    <2>4. ASSUME NEW s \in Requests, refresh'[s] # None
          PROVE  /\ refresh'[s].at <= restarts'[refresh'[s].by]
                 /\ refresh'[s].stage = "done"
                    /\ refresh'[s].at = restarts'[refresh'[s].by] =>
                    <<"jti", refresh'[s].of>> \in tokenBlacklist'[refresh'[s].by]
      <3>1. refresh[s].at <= restarts[refresh[s].by]
        BY <2>2, <2>4 DEF TokenInv
      <3>2. CASE refresh[s].by = p
        BY <1>0, <2>1, <2>2, <2>4, <3>1, <3>2 DEF AccountsTypeOK
      <3>3. CASE refresh[s].by # p
        BY <1>0, <2>1, <2>2, <2>4, <3>3 DEF TokenInv
      <3> QED BY <3>2, <3>3
    <2>5. TokenInv'
      BY <2>4 DEF TokenInv
    <2>6. UNCHANGED issued
      BY <1>5 DEF Restart
    <2> QED BY <2>1, <2>3, <2>5, <2>6 DEF AccountsTypeOK
  <1>6. ASSUME NEW r \in Requests, RevokeRefreshed(r)
        PROVE  Goal
    <2> DEFINE o == [refresh[r] EXCEPT !.stage = "done"]
               p == refresh[r].by
               t == <<"jti", refresh[r].of>>
    <2>1. refresh[r] # None /\ refresh[r] \in Refresh /\ p \in Procs /\ t \in Revocation
      BY <1>0, <1>6 DEF RevokeRefreshed, Revocation
    <2>2. o \in Refresh /\ o.of = refresh[r].of /\ o.by = p /\ o.at = refresh[r].at
      BY <2>1 DEF Refresh
    <2>3. /\ refresh' = [refresh EXCEPT ![r] = o]
          /\ tokenBlacklist' = [tokenBlacklist EXCEPT ![p] = @ \cup {t}]
          /\ UNCHANGED restarts /\ issued' = issued \cup {r}
      BY <1>6 DEF RevokeRefreshed, Revoke
    <2>4. refresh[r].at <= restarts[p]
      BY <2>1 DEF TokenInv
    <2> HIDE DEF o
    <2>5. refresh'[r] = o /\ \A s \in Requests \ {r} : refresh'[s] = refresh[s]
      BY <2>3 DEF AccountsTypeOK
    <2>6. refresh' \in [Requests -> Refresh \cup {None}]
      BY <2>2, <2>3 DEF AccountsTypeOK
    <2> HIDE DEF p, t
    <2>7. /\ tokenBlacklist' \in [Procs -> SUBSET Revocation]
          /\ \A q \in Procs : tokenBlacklist[q] \subseteq tokenBlacklist'[q]
          /\ t \in tokenBlacklist'[p]
      BY <2>1, <2>3 DEF AccountsTypeOK
    <2>8. ASSUME NEW s \in Requests, refresh'[s] # None
          PROVE  /\ refresh'[s].at <= restarts'[refresh'[s].by]
                 /\ refresh'[s].stage = "done"
                    /\ refresh'[s].at = restarts'[refresh'[s].by] =>
                    <<"jti", refresh'[s].of>> \in tokenBlacklist'[refresh'[s].by]
      <3>1. CASE s = r
        <4>1. t = <<"jti", refresh'[s].of>> /\ p = refresh'[s].by
          BY <2>2, <2>5, <3>1 DEF t
        <4> QED BY <2>2, <2>3, <2>4, <2>5, <2>7, <3>1, <4>1
      <3>2. CASE s # r
        BY <1>0, <2>3, <2>5, <2>7, <2>8, <3>2 DEF TokenInv
      <3> QED BY <3>1, <3>2
    <2>9. TokenInv'
      BY <2>8 DEF TokenInv
    <2> QED BY <2>3, <2>6, <2>7, <2>9 DEF AccountsTypeOK
  <1> HIDE DEF Goal
  <1>7. Goal
    BY <1>2, <1>3, <1>4, <1>5, <1>6, <1>1, TokensKept DEF Goal
  <1> QED BY <1>7 DEF Goal

\* A token that refreshAccessToken() finds valid has not been refreshed by this
\* worker in this life of it.
LEMMA RefreshStep ==
    ASSUME AccountsTypeOK, TokenInv, [AccountsNext]_accountsVars,
           NEW r \in Requests, NEW s \in Requests,
           refresh[r] = None, refresh'[r] # None,
           refresh[s] # None, refresh[s].stage = "done"
    PROVE  ~ SameUse(refresh'[r], refresh[s])
  <1>1. PICK p \in Procs, t \in Requests : RefreshAccessToken(p, t)
    <2>1. ASSUME NEW p \in Procs, Issue(p) \/ Restart(p)
          PROVE  FALSE
      BY <2>1, NoneIsNoRecord DEF Issue, Restart, Ended
    <2>2. ASSUME NEW p \in Procs, NEW t \in Requests, Logout(p, t)
          PROVE  FALSE
      BY <2>2 DEF Logout, tokens
    <2>3. ASSUME NEW q \in Requests, RevokeRefreshed(q)
          PROVE  FALSE
      BY <2>3 DEF RevokeRefreshed, AccountsTypeOK
    <2> QED BY <2>1, <2>2, <2>3, TokensKept
  <1> DEFINE o == [of |-> t, by |-> p, at |-> restarts[p], stage |-> "verified"]
  <1>2. refresh' = [refresh EXCEPT ![requests'] = o] /\ <<"jti", t>> \notin tokenBlacklist[p]
    BY <1>1 DEF RefreshAccessToken, Valid
  <1>3. o.of = t /\ o.by = p /\ o.at = restarts[p]
    OBVIOUS
  <1> HIDE DEF o
  <1>4. refresh'[r] = o
    BY <1>2 DEF AccountsTypeOK
  <1> QED BY <1>2, <1>3, <1>4 DEF SameUse, TokenInv

-----------------------------------------------------------------------------
LEMMA CountStep ==
    ASSUME AccountsTypeOK, Arrived, CountInv, [AccountsNext]_accountsVars
    PROVE  /\ requests' \in 0 .. MaxRequests
           /\ attempts' \in [Procs -> [Limited -> 0 .. MAX_ATTEMPTS]]
           /\ timers' \in [Procs -> [Limited -> 0 .. MaxRequests]]
           /\ emptied' \in [Procs -> [Limited -> BOOLEAN]]
           /\ CountInv'
  <1> USE AccountsAssumption
  <1>0. requests' \in 0 .. MaxRequests /\ requests' \in Nat /\ requests <= requests'
    BY CountsKept DEF AccountsTypeOK
  <1>1. CASE UNCHANGED <<attempts, timers, emptied>>
    BY <1>0, <1>1 DEF CountInv, AccountsTypeOK
  \* One entry of one worker changes.
  <1>2. ASSUME NEW p \in Procs, NEW k \in Limited,
               NEW a \in 0 .. MAX_ATTEMPTS, NEW n \in 0 .. MaxRequests, NEW e \in BOOLEAN,
               attempts' = [attempts EXCEPT ![p][k] = a],
               timers' = [timers EXCEPT ![p][k] = n],
               emptied' = [emptied EXCEPT ![p][k] = e],
               n <= requests', ~ e => n <= a
        PROVE  /\ attempts' \in [Procs -> [Limited -> 0 .. MAX_ATTEMPTS]]
               /\ timers' \in [Procs -> [Limited -> 0 .. MaxRequests]]
               /\ emptied' \in [Procs -> [Limited -> BOOLEAN]]
               /\ CountInv'
    <2>1. /\ attempts' \in [Procs -> [Limited -> 0 .. MAX_ATTEMPTS]]
          /\ timers' \in [Procs -> [Limited -> 0 .. MaxRequests]]
          /\ emptied' \in [Procs -> [Limited -> BOOLEAN]]
      BY <1>2 DEF AccountsTypeOK
    <2>2. ASSUME NEW q \in Procs, NEW j \in Limited
          PROVE  /\ timers'[q][j] <= requests'
                 /\ ~ emptied'[q][j] => timers'[q][j] <= attempts'[q][j]
      <3>1. CASE q = p /\ j = k
        BY <1>2, <3>1 DEF AccountsTypeOK
      <3>2. CASE ~ (q = p /\ j = k)
        <4>1. /\ attempts'[q][j] = attempts[q][j] /\ timers'[q][j] = timers[q][j]
              /\ emptied'[q][j] = emptied[q][j] /\ timers[q][j] \in Nat
          BY <1>2, <3>2 DEF AccountsTypeOK
        <4> QED BY <1>0, <4>1 DEF CountInv, AccountsTypeOK
      <3> QED BY <3>1, <3>2
    <2> QED BY <2>1, <2>2 DEF CountInv
  <1>3. ASSUME NEW p \in Procs, NEW k \in Limited, AttemptExpires(p, k)
        PROVE  /\ attempts' \in [Procs -> [Limited -> 0 .. MAX_ATTEMPTS]]
               /\ timers' \in [Procs -> [Limited -> 0 .. MaxRequests]]
               /\ emptied' \in [Procs -> [Limited -> BOOLEAN]]
               /\ CountInv'
    <2> DEFINE n == timers[p][k] - 1
               e == timers[p][k] > 1
    <2>1. /\ n \in 0 .. MaxRequests /\ 0 \in 0 .. MAX_ATTEMPTS /\ e \in BOOLEAN
          /\ n <= requests' /\ (~ e => n <= 0)
      BY <1>0, <1>3 DEF AttemptExpires, CountInv, AccountsTypeOK
    <2>2. /\ attempts' = [attempts EXCEPT ![p][k] = 0]
          /\ timers' = [timers EXCEPT ![p][k] = n]
          /\ emptied' = [emptied EXCEPT ![p][k] = e]
      BY <1>3 DEF AttemptExpires
    <2> HIDE DEF n, e
    <2> QED BY <1>2, <2>1, <2>2
  <1>4. ASSUME NEW p \in Procs, NEW k \in Limited, Attempt(p, k),
               requests' = requests + 1, UNCHANGED emptied
        PROVE  /\ attempts' \in [Procs -> [Limited -> 0 .. MAX_ATTEMPTS]]
               /\ timers' \in [Procs -> [Limited -> 0 .. MaxRequests]]
               /\ emptied' \in [Procs -> [Limited -> BOOLEAN]]
               /\ CountInv'
    <2>1. PICK a \in 0 .. MAX_ATTEMPTS, n \in 0 .. MaxRequests, e \in BOOLEAN :
                a = attempts[p][k] + 1 /\ n = timers[p][k] + 1 /\ e = emptied[p][k]
      <3>1. /\ attempts[p][k] + 1 \in 0 .. MAX_ATTEMPTS
            /\ timers[p][k] + 1 \in 0 .. MaxRequests /\ emptied[p][k] \in BOOLEAN
        BY <1>0, <1>4 DEF Attempt, CountInv, AccountsTypeOK
      <3> QED BY <3>1
    <2>2. n <= requests' /\ (~ e => n <= a)
      BY <1>0, <1>4, <2>1 DEF Attempt, CountInv, AccountsTypeOK
    <2>3. /\ attempts' = [attempts EXCEPT ![p][k] = a]
          /\ timers' = [timers EXCEPT ![p][k] = n]
      BY <1>4, <2>1 DEF Attempt
    <2>4. emptied' = [emptied EXCEPT ![p][k] = e]
      BY <1>4, <2>1 DEF AccountsTypeOK
    <2> QED BY <1>2, <2>2, <2>3, <2>4
  <1>5. ASSUME NEW p \in Procs, Restart(p)
        PROVE  /\ attempts' \in [Procs -> [Limited -> 0 .. MAX_ATTEMPTS]]
               /\ timers' \in [Procs -> [Limited -> 0 .. MaxRequests]]
               /\ emptied' \in [Procs -> [Limited -> BOOLEAN]]
               /\ CountInv'
    <2>1. /\ attempts' \in [Procs -> [Limited -> 0 .. MAX_ATTEMPTS]]
          /\ timers' \in [Procs -> [Limited -> 0 .. MaxRequests]]
          /\ emptied' \in [Procs -> [Limited -> BOOLEAN]]
      BY <1>5 DEF Restart, AccountsTypeOK
    <2>2. ASSUME NEW q \in Procs, NEW j \in Limited
          PROVE  \/ timers'[q][j] = 0 /\ attempts'[q][j] = 0
                 \/ /\ timers'[q][j] = timers[q][j] /\ attempts'[q][j] = attempts[q][j]
                    /\ emptied'[q][j] = emptied[q][j]
      BY <1>5 DEF Restart, AccountsTypeOK
    <2>3. requests' = requests
      BY <1>5 DEF Restart
    <2>4. ASSUME NEW q \in Procs, NEW j \in Limited
          PROVE  /\ timers'[q][j] <= requests'
                 /\ ~ emptied'[q][j] => timers'[q][j] <= attempts'[q][j]
      <3>1. CASE timers'[q][j] = 0 /\ attempts'[q][j] = 0
        BY <1>0, <3>1
      <3>2. CASE ~ (timers'[q][j] = 0 /\ attempts'[q][j] = 0)
        BY <2>2, <2>3, <3>2 DEF CountInv
      <3> QED BY <3>1, <3>2
    <2> QED BY <2>1, <2>4 DEF CountInv
  <1> QED BY <1>0, <1>1, <1>3, <1>4, <1>5, CountsKept

-----------------------------------------------------------------------------
\* Steps that leave the log and the handlers' copies alone but may end a handler.
LEMMA LogsStay ==
    ASSUME AccountsTypeOK, LogInv, NEW r \in Requests, Running(r),
           UNCHANGED <<securityLog, concurrent>>,
           \/ op' = [op EXCEPT ![r].stage = "written"]
           \/ op' = [op EXCEPT ![r] = [@ EXCEPT !.stage = "failed", !.log = <<>>]]
    PROVE  op' \in [Requests -> Op \cup {None}] /\ LogInv'
  <1>1. op[r] \in Op /\ op[r] # None
    BY DEF AccountsTypeOK, Running
  <1>2. PICK o \in Op : /\ op' = [op EXCEPT ![r] = o] /\ o.user = op[r].user
                        /\ \/ o.stage = "written" /\ o.log = op[r].log
                           \/ o.stage = "failed"
    <2>1. CASE op' = [op EXCEPT ![r].stage = "written"]
      <3> DEFINE o == [op[r] EXCEPT !.stage = "written"]
      <3>1. o \in Op /\ o.user = op[r].user /\ o.stage = "written" /\ o.log = op[r].log
        BY <1>1 DEF Op
      <3>2. op' = [op EXCEPT ![r] = o]
        BY <2>1 DEF AccountsTypeOK
      <3> HIDE DEF o
      <3> QED BY <3>1, <3>2
    <2>2. CASE op' = [op EXCEPT ![r] = [@ EXCEPT !.stage = "failed", !.log = <<>>]]
      <3>1. PICK e \in Seq(Entry) : e = <<>>
        <4>1. <<>> \in Seq(Entry)
          OBVIOUS
        <4> QED BY <4>1, Zenon
      <3> DEFINE o == [op[r] EXCEPT !.stage = "failed", !.log = e]
      <3>2. o \in Op /\ o.user = op[r].user /\ o.stage = "failed"
        BY <1>1 DEF Op
      <3>3. op' = [op EXCEPT ![r] = o]
        BY <2>2, <3>1
      <3> HIDE DEF o
      <3> QED BY <3>2, <3>3
    <2> QED BY <2>1, <2>2
  <1>3. op' \in [Requests -> Op \cup {None}] /\ op'[r] = o
        /\ \A q \in Requests \ {r} : op'[q] = op[q]
    BY <1>2 DEF AccountsTypeOK
  <1>4. \A q \in Requests : /\ Running(q)' => Running(q) /\ op'[q].log = op[q].log
                            /\ Finished(q)' => Finished(q)
                            /\ op'[q] # None => op[q] # None /\ op'[q].user = op[q].user
    <2>1. /\ op'[r].user = op[r].user /\ op[r] # None /\ ~ Finished(r)'
          /\ \/ op'[r].log = op[r].log
             \/ op'[r].stage = "failed"
      BY <1>1, <1>2, <1>3 DEF Finished
    <2>2. \A q \in Requests \ {r} : op'[q] = op[q]
      BY <1>3
    <2> QED BY <2>1, <2>2 DEF Running, Finished
  <1> QED BY <1>3, <1>4 DEF LogInv, Running, Finished

LEMMA LogStep ==
    ASSUME AccountsTypeOK, Arrived, LogInv, [AccountsNext]_accountsVars
    PROVE  /\ op' \in [Requests -> Op \cup {None}]
           /\ securityLog' \in [UserIds -> Seq(Entry)]
           /\ concurrent' \in SUBSET Requests
           /\ \A r \in Requests : r > requests' => op'[r] = None
           /\ LogInv'
  <1> USE AccountsAssumption
  <1>0. requests' \in Nat /\ requests <= requests'
    BY CountsKept DEF AccountsTypeOK
  <1>1. CASE UNCHANGED <<op, securityLog, concurrent>>
    <2>1. LogInv'
      BY <1>1 DEF LogInv, Running, Finished
    <2> QED BY <1>0, <1>1, <2>1 DEF AccountsTypeOK, Arrived, Requests
  <1>2. ASSUME NEW u \in UserIds, NEW kind \in {"update", "preferences", "delete"},
               FindByPk(kind, u)
        PROVE  /\ op' \in [Requests -> Op \cup {None}]
               /\ securityLog' \in [UserIds -> Seq(Entry)]
               /\ concurrent' \in SUBSET Requests
               /\ \A r \in Requests : r > requests' => op'[r] = None
               /\ LogInv'
    <2> DEFINE o == [kind |-> kind, user |-> u, stage |-> "read", log |-> securityLog[u]]
               others == {s \in Requests : Running(s) /\ op[s].user = u}
    <2>1. PICK n \in Requests : requests' = n /\ n = requests + 1 /\ UNCHANGED securityLog
      BY <1>2 DEF FindByPk, Arrives, AccountsTypeOK, Requests, rows
    <2>2. o \in Op /\ o # None
      BY NoneIsNoRecord DEF Op, AccountsTypeOK
    <2>3. /\ op' = [op EXCEPT ![n] = o]
          /\ concurrent' = IF others = {} THEN concurrent
                           ELSE concurrent \cup others \cup {n}
      BY <1>2, <2>1 DEF FindByPk
    <2>4. o.user = u /\ o.stage = "read" /\ o.log = securityLog[u]
      OBVIOUS
    <2>5. op[n] = None
      BY <2>1 DEF Arrived, AccountsTypeOK
    <2> HIDE DEF o
    <2>6. op' \in [Requests -> Op \cup {None}] /\ concurrent' \in SUBSET Requests
      BY <2>1, <2>2, <2>3 DEF AccountsTypeOK
    <2>7. op'[n] = o /\ \A q \in Requests \ {n} : op'[q] = op[q]
      BY <2>1, <2>3 DEF AccountsTypeOK
    <2>8. \A r \in Requests : r > requests' => op'[r] = None
      BY <2>1, <2>7 DEF Arrived, Requests, AccountsTypeOK
    <2>9. concurrent \subseteq concurrent'
      BY <2>3
    <2>10. /\ Running(n)' /\ ~ Finished(n)' /\ ~ Running(n) /\ ~ Finished(n)
           /\ \A q \in Requests \ {n} : /\ Running(q)' <=> Running(q)
                                        /\ Finished(q)' <=> Finished(q)
      <3>1. Running(n)' /\ ~ Finished(n)'
        BY <2>2, <2>4, <2>7 DEF Running, Finished
      <3>2. ~ Running(n) /\ ~ Finished(n)
        BY <2>5 DEF Running, Finished
      <3>3. \A q \in Requests \ {n} : (Running(q)' <=> Running(q)) /\ (Finished(q)' <=> Finished(q))
        BY <2>7 DEF Running, Finished
      <3> QED BY <3>1, <3>2, <3>3
    <2>11. ASSUME NEW r \in Requests, NEW s \in Requests, Running(r)', Running(s)',
                  op'[r].user = op'[s].user, r # s
           PROVE  r \in concurrent'
      <3>1. CASE r # n /\ s # n
        BY <2>7, <2>9, <2>10, <2>11, <3>1 DEF LogInv
      <3>2. CASE r = n
        <4>1. s \in others
          BY <2>4, <2>7, <2>10, <2>11, <3>2
        <4> QED BY <2>3, <3>2, <4>1
      <3>3. CASE s = n
        <4>1. r \in others
          BY <2>4, <2>7, <2>10, <2>11, <3>3
        <4> QED BY <2>3, <4>1
      <3> QED BY <3>1, <3>2, <3>3
    <2>12. ASSUME NEW r \in Requests, Finished(r)', r \notin concurrent'
           PROVE  /\ Keeps(securityLog'[op'[r].user], r)
                  /\ \A s \in Requests : Running(s)' /\ op'[s].user = op'[r].user
                        => s > r /\ Keeps(op'[s].log, r)
      <3>1. r # n /\ Finished(r) /\ op'[r] = op[r] /\ r \notin concurrent
        BY <2>7, <2>9, <2>10, <2>12
      <3>2. Keeps(securityLog[op[r].user], r) /\ n > r
        <4>1. r <= requests
          BY <3>1 DEF Arrived, Finished, Requests, AccountsTypeOK
        <4> QED BY <2>1, <3>1, <4>1 DEF LogInv, AccountsTypeOK, Requests
      <3>3. ASSUME NEW s \in Requests, Running(s)', op'[s].user = op'[r].user
            PROVE  s > r /\ Keeps(op'[s].log, r)
        <4>1. CASE s = n
          BY <2>4, <2>7, <3>1, <3>2, <3>3, <4>1
        <4>2. CASE s # n
          BY <2>7, <2>10, <3>1, <3>3, <4>2 DEF LogInv
        <4> QED BY <4>1, <4>2
      <3> QED BY <2>1, <3>1, <3>2, <3>3
    <2> QED BY <2>1, <2>6, <2>8, <2>11, <2>12 DEF LogInv, AccountsTypeOK
  <1>3. ASSUME NEW r \in Requests, Running(r), requests' = requests, Writes(r)
        PROVE  /\ op' \in [Requests -> Op \cup {None}]
               /\ securityLog' \in [UserIds -> Seq(Entry)]
               /\ concurrent' \in SUBSET Requests
               /\ \A q \in Requests : q > requests' => op'[q] = None
               /\ LogInv'
    <2>1. PICK log \in Seq(Entry), next \in {"written", "done"} :
                /\ next = "done" => Keeps(log, r)
                /\ \A q \in Requests : q <= r /\ Keeps(op[r].log, q) => Keeps(log, q)
                /\ WriteLog(r, log, next)
      BY <1>3 DEF Writes
    <2> DEFINE u == op[r].user
               kept == IF next = "done" THEN <<>> ELSE log
               o == [op[r] EXCEPT !.stage = next, !.log = kept]
    <2>2. op[r] \in Op /\ u \in UserIds /\ kept \in Seq(Entry)
      BY <1>3, <2>1 DEF AccountsTypeOK, Running, Op
    <2>3. /\ securityLog' = [securityLog EXCEPT ![u] = log]
          /\ op' = [op EXCEPT ![r] = o]
          /\ UNCHANGED concurrent
      BY <2>1 DEF WriteLog
    <2> HIDE DEF kept
    <2>4. o \in Op /\ o.user = u /\ o.stage = next /\ o.log = kept
      BY <2>2 DEF Op
    <2> HIDE DEF o
    <2>5. /\ op'[r] \in Op /\ op'[r].user = u /\ op'[r].stage = next
          /\ op'[r].log = kept
          /\ \A q \in Requests \ {r} : op'[q] = op[q]
      BY <2>3, <2>4 DEF AccountsTypeOK
    <2>6. /\ op' \in [Requests -> Op \cup {None}]
          /\ securityLog' \in [UserIds -> Seq(Entry)]
      BY <2>2, <2>3, <2>5 DEF AccountsTypeOK
    <2>7. op[r] # None /\ op'[r] # None
      BY <1>3, <2>5, NoneIsNoRecord DEF Running
    <2>8. \A q \in Requests : q > requests' => op'[q] = None
      BY <1>3, <2>5, <2>7 DEF Arrived
    <2>9. /\ securityLog'[u] = log
          /\ \A v \in UserIds \ {u} : securityLog'[v] = securityLog[v]
      BY <2>2, <2>3 DEF AccountsTypeOK
    <2>10. \A q \in Requests : /\ Running(q)' => Running(q)
                               /\ op'[q] # None => op[q] # None /\ op'[q].user = op[q].user
      BY <1>3, <2>5, <2>7 DEF Running
    <2>11. ASSUME NEW q \in Requests, Finished(q)', q \notin concurrent'
           PROVE  /\ Keeps(securityLog'[op'[q].user], q)
                  /\ \A s \in Requests : Running(s)' /\ op'[s].user = op'[q].user
                        => s > q /\ Keeps(op'[s].log, q)
      <3>1. CASE q = r
        <4>1. Keeps(log, r)
          BY <2>1, <2>5, <2>11, <3>1 DEF Finished
        <4>2. ASSUME NEW s \in Requests, Running(s)', op'[s].user = op'[q].user
              PROVE  FALSE
          <5>1. s # r
            BY <2>5, <2>11, <3>1, <4>2 DEF Running, Finished
          <5>2. r \in concurrent
            BY <1>3, <2>5, <2>10, <3>1, <4>2, <5>1 DEF LogInv, Running
          <5> QED BY <2>3, <2>11, <3>1, <5>2
        <4> QED BY <2>5, <2>9, <3>1, <4>1, <4>2
      <3>2. CASE q # r
        <4>1. Finished(q) /\ op'[q] = op[q] /\ q \notin concurrent
          BY <2>3, <2>5, <2>11, <3>2 DEF Finished
        <4>2. Keeps(securityLog[op[q].user], q)
          BY <4>1 DEF LogInv
        <4>3. op[q].user = u => r > q /\ Keeps(log, q)
          <5>1. op[q].user = u => r > q /\ Keeps(op[r].log, q)
            BY <1>3, <4>1 DEF LogInv
          <5> QED BY <2>1, <5>1 DEF Requests
        <4>4. op[q].user \in UserIds
          BY <4>1 DEF Finished, AccountsTypeOK, Op
        <4>5. ASSUME NEW s \in Requests, Running(s)', op'[s].user = op'[q].user
              PROVE  s > q /\ Keeps(op'[s].log, q)
          <5>1. CASE s = r
            BY <2>5, <4>1, <4>3, <4>5, <5>1 DEF kept, Running
          <5>2. CASE s # r
            BY <2>5, <2>10, <4>1, <4>5, <5>2 DEF LogInv
          <5> QED BY <5>1, <5>2
        <4> QED BY <2>9, <4>1, <4>2, <4>3, <4>4, <4>5
      <3> QED BY <3>1, <3>2
    <2>12. ASSUME NEW q \in Requests, NEW s \in Requests, Running(q)', Running(s)',
                  op'[q].user = op'[s].user, q # s
           PROVE  q \in concurrent'
      BY <2>3, <2>10, <2>12 DEF LogInv, Running
    <2> QED BY <2>3, <2>6, <2>8, <2>11, <2>12 DEF LogInv, AccountsTypeOK
  <1>4. ASSUME NEW r \in Requests, Running(r), requests' = requests,
               \/ /\ op' = [op EXCEPT ![r].stage = "written"]
                  /\ UNCHANGED <<securityLog, concurrent>>
               \/ OpFails(r)
        PROVE  /\ op' \in [Requests -> Op \cup {None}]
               /\ securityLog' \in [UserIds -> Seq(Entry)]
               /\ concurrent' \in SUBSET Requests
               /\ \A q \in Requests : q > requests' => op'[q] = None
               /\ LogInv'
    <2>1. /\ UNCHANGED <<securityLog, concurrent>>
          /\ \/ op' = [op EXCEPT ![r].stage = "written"]
             \/ op' = [op EXCEPT ![r] = [@ EXCEPT !.stage = "failed", !.log = <<>>]]
      BY <1>4 DEF OpFails, rows
    <2>2. op[r] # None
      BY <1>4 DEF Running
    <2>3. \A q \in Requests \ {r} : op'[q] = op[q]
      BY <2>1 DEF AccountsTypeOK
    <2>4. \A q \in Requests : q > requests' => op'[q] = None
      BY <1>4, <2>2, <2>3 DEF Arrived
    <2>5. op' \in [Requests -> Op \cup {None}] /\ LogInv'
      BY <1>4, <2>1, LogsStay
    <2> QED BY <2>1, <2>4, <2>5 DEF AccountsTypeOK
  <1> QED BY <1>1, <1>2, <1>3, <1>4, LogsKept

-----------------------------------------------------------------------------
\* A user that was deleted is not revived by any step.
LEMMA ActiveStep ==
    ASSUME AccountsTypeOK, [AccountsNext]_accountsVars
    PROVE  /\ active' \in [UserIds -> BOOLEAN]
           /\ rateLimitMap' \in [Procs -> [UserIds -> 0 .. MAX_ATTEMPTS]]
           /\ \A u \in UserIds : ~ active[u] => ~ active'[u]
  <1> USE AccountsAssumption
  <1>1. \/ UNCHANGED active
        \/ \E r \in Requests : /\ op[r] # None
                               /\ active' = [active EXCEPT ![op[r].user] = FALSE]
    BY DEF AccountsNext, accountsVars, rows, Issue, CleanRateLimitMap, Restart, At,
           RefreshAccessToken, RevokeRefreshed, Logout, AttemptExpires, Login, CreateUser, FindByPk,
           UpdateUser, SaveLog, UpdatePreferences, DeleteUser, OpFails
  <1>2. \/ UNCHANGED rateLimitMap
        \/ \E p \in Procs :
            \/ rateLimitMap' = [rateLimitMap EXCEPT ![p] = [u \in UserIds |-> 0]]
            \/ \E u \in UserIds : /\ rateLimitMap[p][u] < MAX_ATTEMPTS
                                  /\ rateLimitMap' = [rateLimitMap EXCEPT ![p][u] = @ + 1]
    BY DEF AccountsNext, accountsVars, memory, Issue, CleanRateLimitMap, Restart,
           RefreshAccessToken, RevokeRefreshed, Logout, AttemptExpires, Login, CreateUser, FindByPk,
           UpdateUser, SaveLog, UpdatePreferences, DeleteUser, WriteLog, OpFails
  <1>3. /\ active' \in [UserIds -> BOOLEAN]
        /\ \A u \in UserIds : ~ active[u] => ~ active'[u]
    BY <1>1 DEF AccountsTypeOK
  <1>4. rateLimitMap' \in [Procs -> [UserIds -> 0 .. MAX_ATTEMPTS]]
    <2>1. CASE UNCHANGED rateLimitMap
      BY <2>1 DEF AccountsTypeOK
    <2>2. ASSUME NEW p \in Procs,
                 rateLimitMap' = [rateLimitMap EXCEPT ![p] = [u \in UserIds |-> 0]]
          PROVE  rateLimitMap' \in [Procs -> [UserIds -> 0 .. MAX_ATTEMPTS]]
      BY <2>2 DEF AccountsTypeOK
    <2>3. ASSUME NEW p \in Procs, NEW u \in UserIds, rateLimitMap[p][u] < MAX_ATTEMPTS,
                 rateLimitMap' = [rateLimitMap EXCEPT ![p][u] = @ + 1]
          PROVE  rateLimitMap' \in [Procs -> [UserIds -> 0 .. MAX_ATTEMPTS]]
      <3>1. rateLimitMap[p][u] + 1 \in 0 .. MAX_ATTEMPTS
        BY <2>3 DEF AccountsTypeOK
      <3> QED BY <2>3, <3>1 DEF AccountsTypeOK
    <2> QED BY <1>2, <2>1, <2>2, <2>3
  <1> QED BY <1>3, <1>4

LEMMA AccountsNextInv == AccountsInv /\ [AccountsNext]_accountsVars => AccountsInv'
  <1> SUFFICES ASSUME AccountsInv, [AccountsNext]_accountsVars PROVE AccountsInv'
    OBVIOUS
  <1> USE DEF AccountsInv
  <1>1. AccountsTypeOK'
    BY TokenStep, CountStep, LogStep, ActiveStep DEF AccountsTypeOK
  <1>2. Arrived'
    BY LogStep DEF Arrived
  <1> QED BY <1>1, <1>2, TokenStep, CountStep, LogStep

\* The inductive invariant of Accounts.
THEOREM AccountsInvariance == AccountsSpec => []AccountsInv
  BY AccountsInitInv, AccountsNextInv, PTL DEF AccountsSpec

\* The rows and the memory of jwt.service, password.service and UserController
\* keep their shape: a count stays within its limit.
THEOREM AccountsTypeCorrect == AccountsSpec => []AccountsTypeOK
  <1>1. AccountsInv => AccountsTypeOK
    BY DEF AccountsInv
  <1> QED BY <1>1, AccountsInvariance, PTL

\* A worker whose refreshAccessToken() has returned accepts the token no more.
THEOREM TokensAreRefreshedOnce == AccountsSpec => RefreshOnce
  <1>1. AccountsInv /\ [AccountsNext]_accountsVars =>
            [\A r, s \in Requests :
                /\ refresh[r] = None /\ refresh'[r] # None
                /\ refresh[s] # None /\ refresh[s].stage = "done"
                => ~ SameUse(refresh'[r], refresh[s])]_accountsVars
    BY RefreshStep DEF AccountsInv
  <1> QED BY <1>1, AccountsInvariance, PTL DEF AccountsSpec, RefreshOnce

\* RateLimited holds its limit until the timer of one attempt forgets others.
THEOREM AttemptsAreExplained == AccountsSpec => []AttemptsExplained
  <1>1. AccountsInv => AttemptsExplained
    <2> SUFFICES ASSUME AccountsInv, NEW p \in Procs, NEW k \in Limited,
                        timers[p][k] > MAX_ATTEMPTS, ~ emptied[p][k]
                 PROVE  FALSE
      BY DEF AttemptsExplained
    <2>1. timers[p][k] <= attempts[p][k]
      BY DEF AccountsInv, CountInv
    <2> QED BY <2>1, AccountsAssumption DEF AccountsInv, AccountsTypeOK
  <1> QED BY <1>1, AccountsInvariance, PTL

\* A handler of UserController that ran alone has its entry in the log until the
\* hook cuts the log off behind LOG_LIMIT entries that are not older.
THEOREM LogLossIsExplained == AccountsSpec => []LogLossExplained
  <1>1. AccountsInv => LogLossExplained
    <2> SUFFICES ASSUME AccountsInv, NEW r \in Requests, Finished(r), r \notin concurrent
                 PROVE  \/ \E i \in 1 .. Len(securityLog[op[r].user]) :
                                securityLog[op[r].user][i] = HandlerEntry(r)
                        \/ PushedOut(r, securityLog[op[r].user])
      BY DEF LogLossExplained, Finished
    <2> DEFINE log == securityLog[op[r].user]
    <2>1. Keeps(log, r)
      BY DEF AccountsInv, LogInv
    <2>2. Len(log) \in Nat
      BY DEF AccountsInv, AccountsTypeOK, Finished, Op
    <2> HIDE DEF log
    <2>3. \/ \E i \in 1 .. Len(log) : log[i] = HandlerEntry(r)
          \/ PushedOut(r, log)
      BY <2>1, <2>2, AccountsAssumption DEF Keeps, PushedOut
    <2> QED BY <2>3 DEF log
  <1> QED BY <1>1, AccountsInvariance, PTL

\* deleteUser() is final, although updateUser() may have read the row before.
THEOREM DeletedUsersStay == AccountsSpec => DeletedStays
  <1>1. AccountsTypeOK /\ [AccountsNext]_accountsVars =>
            [\A u \in UserIds : ~ active[u] => ~ active'[u]]_accountsVars
    BY ActiveStep
  <1> QED BY <1>1, AccountsTypeCorrect, PTL DEF AccountsSpec, DeletedStays

=============================================================================
