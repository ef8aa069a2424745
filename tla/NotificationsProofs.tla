------------------------ MODULE NotificationsProofs ------------------------
(***************************************************************************)
(* Notifications keeps what it was given, for any number of notifications, *)
(* copies, workers and broken connections: the invariant ties every frame  *)
(* on a wire, every send under way and every count of attempts to the      *)
(* place of the message they are about.                                    *)
(***************************************************************************)
EXTENDS Notifications, FiniteSetTheorems, TLAPS

Ack(m) == [kind |-> "ack", msg |-> m]
Pub(m) == [kind |-> "publish", msg |-> m]
Req(m) == [kind |-> "requeue", msg |-> m]

\* The shape of the variables.
Shape ==
    /\ BrokerTypeOK
    /\ stage \in [Workers -> [Messages -> Stages]]
    /\ retryCount \in [Workers -> [Messages -> 0 .. MaxRetries]]
    /\ sent \in [Notifs -> Nat]
    /\ troubles \in [Notifs -> Nat]
    /\ cut \subseteq Notifs
    /\ breaks \in 0 .. MaxBreaks

\* A worker acknowledges only what it holds and is done with, once, and a copy
\* is published by one worker, after the original was posted.
WireAt(w, m) ==
    /\ Req(m) \notin wire[w]
    /\ Ack(m) \in wire[w] => place[m] = w /\ stage[w][m] = "idle"
    /\ Pub(m) \in wire[w] =>
          /\ place[m] \in {"none", "gone"}
          /\ Posted(m[1])
          /\ \A v \in Workers \ {w} : Pub(m) \notin wire[v]

WireOK ==
    \A w \in Workers :
        /\ wire[w] # {} => link[w] = "up"
        /\ \A x \in Messages : WireAt(w, x)

\* Messages are held over live connections, and what is being sent over one is
\* held; what was sent has arrived.
HeldOK ==
    \A w \in Workers, m \in Messages :
        /\ place[m] = w => link[w] = "up"
        /\ stage[w][m] # "idle" =>
              /\ link[w] # "down" /\ place[m] # "none"
              /\ link[w] = "up" => place[m] = w
        /\ stage[w][m] = "sent" => sent[m[1]] > 0

\* Attempts are counted only for ids that are done with: no worker that can
\* still take messages finds a count above zero.
CountOK ==
    \A w \in Workers, m \in Messages :
        retryCount[w][m] # 0 =>
            /\ link[w] # "down"
            /\ link[w] = "up" =>
                  \/ Ack(m) \in wire[w]
                  \/ place[m] = "gone" /\ \A v \in Workers : Pub(m) \notin wire[v]

\* A copy that no acknowledgement on its way can remove.
Safe(c) == Alive(c) /\ \A w \in Workers : Ack(c) \notin wire[w]

Kept ==
    \A n \in Notifs :
        /\ sent[n] > 0 => Posted(n)
        /\ Posted(n) => sent[n] > 0 \/ n \in cut \/ \E c \in CopiesOf(n) : Safe(c)

IInv == Shape /\ WireOK /\ HeldOK /\ CountOK /\ Kept

-----------------------------------------------------------------------------
(* Lemmas *)

LEMMA FrameFacts ==
  /\ \A m \in Messages : Ack(m) \in Frames /\ Pub(m) \in Frames
  /\ \A f \in Frames :
        /\ f.msg \in Messages
        /\ f = Ack(f.msg) \/ f = Pub(f.msg) \/ f = Req(f.msg)
        /\ f = Ack(f.msg) => f.kind = "ack"
        /\ f = Pub(f.msg) => f.kind = "publish"
  BY DEF Frames, Ack, Pub, Req

LEMMA FramesDiffer ==
  \A m \in Messages, c \in Messages :
      /\ Ack(m) = Ack(c) => m = c
      /\ Pub(m) = Pub(c) => m = c
      /\ Ack(m) # Pub(c) /\ Req(m) # Ack(c) /\ Req(m) # Pub(c)
  BY DEF Ack, Pub, Req

\* The copies of a notification are messages.
LEMMA CopyFacts ==
  /\ \A n \in Notifs : CopiesOf(n) \subseteq Messages
  /\ \A n \in Notifs : \A c \in CopiesOf(n) : c[1] = n
  /\ \A m \in Messages : m[1] \in Notifs /\ m \in CopiesOf(m[1])
  BY NotificationsAssumption DEF CopiesOf

LEMMA InitInv == Init => IInv
  <1> SUFFICES ASSUME Init PROVE IInv
    OBVIOUS
  <1>1. Shape
    BY NotificationsAssumption DEF Init, Shape, BrokerTypeOK, Stages
  <1>2. WireOK /\ HeldOK /\ CountOK
    BY NotificationsAssumption DEF Init, WireOK, WireAt, HeldOK, CountOK
  <1>3. Kept
    BY CopyFacts DEF Init, Kept, Posted
  <1> QED
    BY <1>1, <1>2, <1>3 DEF IInv

\* What the frames on a wire say of their messages.
LEMMA AckHeld ==
  ASSUME IInv
  PROVE  \A w \in Workers, m \in Messages :
            Ack(m) \in wire[w] => place[m] = w /\ stage[w][m] = "idle" /\ link[w] = "up"
  BY DEF IInv, WireOK, WireAt

LEMMA PubHeld ==
  ASSUME IInv
  PROVE  \A w \in Workers, m \in Messages :
            Pub(m) \in wire[w] =>
                /\ place[m] \in {"none", "gone"}
                /\ Posted(m[1])
                /\ link[w] = "up"
                /\ \A v \in Workers \ {w} : Pub(m) \notin wire[v]
  BY DEF IInv, WireOK, WireAt

LEMMA PostInv == ASSUME IInv, NEW n \in Notifs, Post(n) PROVE IInv'
  <1>1. PICK p \in CopiesOf(n) : place' = [place EXCEPT ![p] = "ready"]
    BY NotificationsAssumption DEF Post, CopiesOf
  <1>2. place[p] = "none" /\ p \in Messages /\ p[1] = n
    BY <1>1, CopyFacts DEF Post
  <1>3. UNCHANGED <<wire, link, stage, retryCount, sent, troubles, cut, breaks>>
    BY DEF Post, workerVars, historyVars
  <1>4. Shape'
    BY <1>1, <1>2, <1>3 DEF IInv, Shape, BrokerTypeOK
  <1>5. \A w \in Workers : Ack(p) \notin wire[w] /\ Pub(p) \notin wire[w]
    <2>1. ~Posted(n)
      BY DEF Post, Posted
    <2>2. "none" \notin Workers
      BY NotificationsAssumption
    <2> QED
      BY <1>2, <2>1, <2>2, AckHeld, PubHeld
  <1>6. \A m \in Messages : place'[m] = IF m = p THEN "ready" ELSE place[m]
    BY <1>1, <1>2 DEF IInv, Shape, BrokerTypeOK
  <1>7. \A x \in Notifs : Posted(x) => Posted(x)'
    BY <1>6, CopyFacts DEF Posted
  <1>8. WireOK'
    BY <1>3, <1>5, <1>6, <1>7, CopyFacts DEF IInv, WireOK, WireAt
  <1>9. HeldOK'
    BY <1>2, <1>3, <1>6, NotificationsAssumption DEF IInv, HeldOK
  <1>10. CountOK'
    BY <1>2, <1>3, <1>5, <1>6 DEF IInv, CountOK
  <1>11. Safe(p)'
    BY <1>2, <1>3, <1>5, <1>6 DEF Safe, Alive, Publishing
  <1>12. ASSUME NEW c \in Messages, Safe(c) PROVE Safe(c)'
    BY <1>3, <1>6, <1>11, <1>12 DEF Safe, Alive, Publishing
  <1>13. Kept'
    <2> SUFFICES ASSUME NEW x \in Notifs, Posted(x)', ~(sent[x] > 0), x \notin cut
                 PROVE  \E c \in CopiesOf(x) : Safe(c)'
      BY <1>3, <1>7 DEF IInv, Kept
    <2>1. CASE x = n
      BY <2>1, <1>11
    <2>2. CASE x # n
      <3>1. Posted(x)
        BY <2>2, <1>6, <1>2, CopyFacts DEF Posted
      <3> QED
        BY <3>1, <1>12, CopyFacts DEF IInv, Kept
    <2> QED
      BY <2>1, <2>2
  <1> QED
    BY <1>4, <1>8, <1>9, <1>10, <1>13 DEF IInv

\* A notification stays kept when what was safe stays so, or is made up for.
LEMMA KeptStep ==
  ASSUME IInv,
         \A n \in Notifs : Posted(n)' <=> Posted(n),
         \A n \in Notifs : sent'[n] = sent[n] \/ (sent'[n] > 0 /\ Posted(n)),
         cut \subseteq cut',
         \A n \in Notifs : \A c \in CopiesOf(n) :
            Safe(c) => n \in cut' \/ sent'[n] > 0 \/ \E d \in CopiesOf(n) : Safe(d)'
  PROVE  Kept'
  BY DEF IInv, Kept

LEMMA StartInv == ASSUME IInv, NEW w \in Workers, Start(w) PROVE IInv'
  <1>1. link[w] = "down" /\ link' = [link EXCEPT ![w] = "up"]
    BY DEF Start, Connect
  <1>2. UNCHANGED <<place, wire, stage, retryCount, sent, troubles, cut, breaks>>
    BY DEF Start, Connect, workerVars, historyVars
  <1>3. \A v \in Workers : link'[v] = IF v = w THEN "up" ELSE link[v]
    BY <1>1 DEF IInv, Shape, BrokerTypeOK
  <1>4. Shape'
    BY <1>1, <1>2 DEF IInv, Shape, BrokerTypeOK
  <1>5. WireOK'
    BY <1>2, <1>3 DEF IInv, WireOK, WireAt, Posted
  <1>6. HeldOK'
    BY <1>1, <1>2, <1>3 DEF IInv, HeldOK
  <1>7. CountOK'
    BY <1>1, <1>2, <1>3 DEF IInv, CountOK
  <1>8. Kept'
    BY <1>2 DEF IInv, Kept, Posted, Safe, Alive, Publishing
  <1> QED
    BY <1>4, <1>5, <1>6, <1>7, <1>8 DEF IInv

\* Over a live connection, no message is turned away by the limit: what the
\* worker takes from the queue, or is sending, it counts no attempts for.
LEMMA NotCounted ==
  ASSUME IInv, NEW w \in Workers, NEW m \in Messages, link[w] = "up",
         place[m] = "ready" \/ stage[w][m] # "idle"
  PROVE  retryCount[w][m] = 0
  <1>1. place[m] \in {"ready", w} /\ "gone" \notin Workers /\ "ready" \notin Workers
    BY NotificationsAssumption DEF IInv, HeldOK
  <1>2. place[m] # "gone"
    BY <1>1
  <1>3. Ack(m) \notin wire[w]
    BY <1>1, AckHeld
  <1> QED
    BY <1>2, <1>3 DEF IInv, CountOK

LEMMA ProcessInv ==
  ASSUME IInv, NEW w \in Workers, NEW m \in Messages, Process(w, m)
  PROVE  IInv'
  <1>1. link[w] = "up" /\ place[m] = "ready" /\ place' = [place EXCEPT ![m] = w]
    BY DEF Process, Deliver
  <1>2. retryCount[w][m] = 0 /\ ~(retryCount[w][m] >= MaxRetries)
    BY <1>1, NotCounted, NotificationsAssumption
  <1>3. /\ stage' = [stage EXCEPT ![w][m] = "sending"]
        /\ UNCHANGED <<wire, link, retryCount, sent, troubles, cut, breaks>>
    BY <1>2 DEF Process
  <1>4. \A x \in Messages : place'[x] = IF x = m THEN w ELSE place[x]
    BY <1>1 DEF IInv, Shape, BrokerTypeOK
  <1>5. \A v \in Workers, x \in Messages :
          stage'[v][x] = IF v = w /\ x = m THEN "sending" ELSE stage[v][x]
    BY <1>3 DEF IInv, Shape
  <1>6. "ready" \notin Workers /\ "gone" \notin Workers /\ "none" \notin Workers
    BY NotificationsAssumption
  <1>7. \A v \in Workers : Ack(m) \notin wire[v] /\ Pub(m) \notin wire[v]
    BY <1>1, <1>6, AckHeld, PubHeld
  <1>8. Shape'
    <2>1. place' \in [Messages -> {"none", "ready", "gone"} \cup Workers]
      BY <1>1 DEF IInv, Shape, BrokerTypeOK
    <2>2. stage' \in [Workers -> [Messages -> Stages]]
      BY <1>3 DEF IInv, Shape, Stages
    <2> QED
      BY <1>3, <2>1, <2>2 DEF IInv, Shape, BrokerTypeOK
  <1>9. \A n \in Notifs : Posted(n) <=> Posted(n)'
    BY <1>1, <1>4, <1>6 DEF Posted
  <1>10. WireOK'
    BY <1>3, <1>4, <1>5, <1>7, <1>9, CopyFacts DEF IInv, WireOK, WireAt
  <1>11. HeldOK'
    BY <1>1, <1>3, <1>4, <1>5, <1>6 DEF IInv, HeldOK
  <1>12. CountOK'
    BY <1>1, <1>2, <1>3, <1>4, <1>6 DEF IInv, CountOK
  <1>13. Kept'
    <2>1. ASSUME NEW c \in Messages, Safe(c) PROVE Safe(c)'
      BY <1>3, <1>4, <2>1 DEF Safe, Alive, Publishing
    <2> QED
      BY <1>3, <1>9, <2>1, KeptStep, CopyFacts
  <1> QED
    BY <1>8, <1>10, <1>11, <1>12, <1>13 DEF IInv

LEMMA SendInv ==
  ASSUME IInv, NEW w \in Workers, NEW m \in Messages, Send(w, m)
  PROVE  IInv'
  <1>1. /\ stage[w][m] = "sending"
        /\ stage' = [stage EXCEPT ![w][m] = "sent"]
        /\ sent' = [sent EXCEPT ![m[1]] = @ + 1]
        /\ UNCHANGED <<place, wire, link, retryCount, troubles, cut, breaks>>
    BY DEF Send, brokerVars
  <1>2. \A v \in Workers, x \in Messages :
          stage'[v][x] = IF v = w /\ x = m THEN "sent" ELSE stage[v][x]
    BY <1>1 DEF IInv, Shape
  <1>3. /\ sent'[m[1]] > 0 /\ Posted(m[1])
        /\ \A n \in Notifs \ {m[1]} : sent'[n] = sent[n]
    <2>1. place[m] # "none"
      BY <1>1 DEF IInv, HeldOK
    <2> QED
      BY <1>1, <2>1, CopyFacts DEF IInv, Shape, Posted
  <1>4. Shape'
    <2>1. stage' \in [Workers -> [Messages -> Stages]]
      BY <1>1 DEF IInv, Shape, Stages
    <2>2. sent' \in [Notifs -> Nat]
      BY <1>1, CopyFacts DEF IInv, Shape
    <2> QED
      BY <1>1, <2>1, <2>2 DEF IInv, Shape, BrokerTypeOK
  <1>5. WireOK'
    BY <1>1, <1>2 DEF IInv, WireOK, WireAt, Posted
  <1>6. HeldOK'
    <2>1. \A n \in Notifs : sent[n] > 0 => sent'[n] > 0
      BY <1>3
    <2> QED
      BY <1>1, <1>2, <1>3, <2>1, CopyFacts DEF IInv, HeldOK
  <1>7. CountOK'
    BY <1>1 DEF IInv, CountOK
  <1>8. Kept'
    BY <1>1, <1>3, KeptStep DEF Posted, Safe, Alive, Publishing
  <1> QED
    BY <1>4, <1>5, <1>6, <1>7, <1>8 DEF IInv

LEMMA SucceedInv ==
  ASSUME IInv, NEW w \in Workers, NEW m \in Messages, Succeed(w, m)
  PROVE  IInv'
  <1>1. /\ stage[w][m] = "sent" /\ link[w] = "up"
        /\ stage' = [stage EXCEPT ![w][m] = "idle"]
        /\ wire' = [wire EXCEPT ![w] = @ \cup {Ack(m)}]
        /\ UNCHANGED <<place, link, retryCount, sent, troubles, cut, breaks>>
    BY DEF Succeed, Write, Ack, historyVars
  <1>2. \A v \in Workers, x \in Messages :
          stage'[v][x] = IF v = w /\ x = m THEN "idle" ELSE stage[v][x]
    BY <1>1 DEF IInv, Shape
  <1>3. \A v \in Workers : wire'[v] = IF v = w THEN wire[v] \cup {Ack(m)} ELSE wire[v]
    BY <1>1 DEF IInv, Shape, BrokerTypeOK
  <1>4. place[m] = w /\ sent[m[1]] > 0
    BY <1>1 DEF IInv, HeldOK
  <1>frames. \A v \in Workers, x \in Messages :
          /\ Ack(x) \in wire'[v] <=> Ack(x) \in wire[v] \/ (v = w /\ x = m)
          /\ Pub(x) \in wire'[v] <=> Pub(x) \in wire[v]
          /\ Req(x) \in wire'[v] <=> Req(x) \in wire[v]
    BY <1>3, FramesDiffer
  <1>5. Shape'
    <2>1. stage' \in [Workers -> [Messages -> Stages]]
      BY <1>1 DEF IInv, Shape, Stages
    <2>2. wire' \in [Workers -> SUBSET Frames]
      BY <1>1, FrameFacts DEF IInv, Shape, BrokerTypeOK
    <2> QED
      BY <1>1, <2>1, <2>2 DEF IInv, Shape, BrokerTypeOK
  <1>6. \A n \in Notifs : Posted(n) <=> Posted(n)'
    BY <1>1 DEF Posted
  <1>7. WireOK'
    BY <1>frames, <1>1, <1>2, <1>3, <1>4, <1>6, CopyFacts DEF IInv, WireOK, WireAt
  <1>8. HeldOK'
    BY <1>1, <1>2 DEF IInv, HeldOK
  <1>9. CountOK'
    BY <1>frames, <1>1 DEF IInv, CountOK
  <1>10. ASSUME NEW c \in Messages, c # m, Safe(c) PROVE Safe(c)'
    <2>1. \A v \in Workers : Ack(c) \notin wire'[v] /\ (Pub(c) \in wire[v] => Pub(c) \in wire'[v])
      BY <1>frames, <1>10 DEF Safe
    <2> QED
      BY <1>1, <1>10, <2>1 DEF Safe, Alive, Publishing, Pub
  <1>11. Kept'
    <2>1. \A n \in Notifs : \A c \in CopiesOf(n) : Safe(c) => sent'[n] > 0 \/ Safe(c)'
      BY <1>1, <1>4, <1>10, CopyFacts
    <2> QED
      BY <1>1, <1>6, <2>1, KeptStep
  <1> QED
    BY <1>5, <1>7, <1>8, <1>9, <1>11 DEF IInv

LEMMA FailInv ==
  ASSUME IInv, NEW w \in Workers, NEW m \in Messages, Fail(w, m)
  PROVE  IInv'
  <1>1. /\ stage[w][m] # "idle" /\ link[w] = "up"
        /\ stage' = [stage EXCEPT ![w][m] = "idle"]
        /\ troubles' = [troubles EXCEPT ![m[1]] = IF stage[w][m] = "sent" THEN @ + 1 ELSE @]
        /\ UNCHANGED <<place, link, sent, cut, breaks>>
    BY DEF Fail
  <1>2. retryCount[w][m] = 0 /\ retryCount[w][m] < MaxRetries
    BY <1>1, NotCounted, NotificationsAssumption
  <1>3. PICK c \in CopiesOf(m[1]) :
          /\ Fresh(c)
          /\ wire' = [wire EXCEPT ![w] = @ \cup {Ack(m), Pub(c)}]
          /\ retryCount' = [x \in Workers |->
                [retryCount[x] EXCEPT ![c] = 0, ![m] = IF x = w THEN @ + 1 ELSE @]]
    BY <1>2 DEF Fail, Ack, Pub
  <1>4. \A v \in Workers, x \in Messages :
          stage'[v][x] = IF v = w /\ x = m THEN "idle" ELSE stage[v][x]
    BY <1>1 DEF IInv, Shape
  <1>5. \A v \in Workers :
          wire'[v] = IF v = w THEN wire[v] \cup {Ack(m), Pub(c)} ELSE wire[v]
    BY <1>3 DEF IInv, Shape, BrokerTypeOK
  <1>6. place[m] = w /\ w \notin {"none", "gone"}
    BY <1>1, NotificationsAssumption DEF IInv, HeldOK
  <1>7. /\ c \in Messages /\ c[1] = m[1] /\ c # m
        /\ place[c] \in {"none", "gone"}
        /\ \A v \in Workers : Pub(c) \notin wire[v] /\ stage[v][c] = "idle"
    BY <1>3, <1>6, CopyFacts DEF Fresh, Alive, Publishing, Pub
  <1>frames. \A v \in Workers, x \in Messages :
          /\ Ack(x) \in wire'[v] <=> Ack(x) \in wire[v] \/ (v = w /\ x = m)
          /\ Pub(x) \in wire'[v] <=> Pub(x) \in wire[v] \/ (v = w /\ x = c)
          /\ Req(x) \in wire'[v] <=> Req(x) \in wire[v]
    BY <1>5, <1>7, FramesDiffer
  <1>8. \A v \in Workers : Ack(c) \notin wire[v]
    BY <1>7, AckHeld, NotificationsAssumption
  <1>9. \A v \in Workers, x \in Messages :
          retryCount'[v][x] = IF x = c THEN 0 ELSE
                              IF x = m /\ v = w THEN 1 ELSE retryCount[v][x]
    BY <1>2, <1>3, <1>7 DEF IInv, Shape
  <1>10. Shape'
    <2>1. stage' \in [Workers -> [Messages -> Stages]]
      BY <1>1 DEF IInv, Shape, Stages
    <2>2. wire' \in [Workers -> SUBSET Frames]
      BY <1>3, <1>7, FrameFacts DEF IInv, Shape, BrokerTypeOK
    <2>3. retryCount' \in [Workers -> [Messages -> 0 .. MaxRetries]]
      <3>1. \A v \in Workers, x \in Messages : retryCount'[v][x] \in 0 .. MaxRetries
        BY <1>9, NotificationsAssumption DEF IInv, Shape
      <3>2. \A v \in Workers : retryCount'[v] \in [Messages -> 0 .. MaxRetries]
        <4> TAKE v \in Workers
        <4>1. retryCount'[v] =
                [retryCount[v] EXCEPT ![c] = 0, ![m] = IF v = w THEN @ + 1 ELSE @]
          BY <1>3
        <4>2. \A x \in Messages : retryCount'[v][x] \in 0 .. MaxRetries
          BY <3>1
        <4>3. retryCount'[v] = [x \in Messages |-> retryCount'[v][x]]
          BY <4>1 DEF IInv, Shape
        <4> QED
          BY <4>2, <4>3
      <3> QED
        BY <1>3, <3>2
    <2>4. troubles' \in [Notifs -> Nat]
      BY <1>1, CopyFacts DEF IInv, Shape
    <2> QED
      BY <1>1, <2>1, <2>2, <2>3, <2>4 DEF IInv, Shape, BrokerTypeOK
  <1>11. \A n \in Notifs : Posted(n) <=> Posted(n)'
    BY <1>1 DEF Posted
  <1>12. Posted(m[1])
    BY <1>6, CopyFacts DEF Posted
  <1>13. WireOK'
    <2> SUFFICES ASSUME NEW v \in Workers, NEW x \in Messages
                 PROVE  (wire'[v] # {} => link'[v] = "up") /\ WireAt(v, x)'
      BY DEF WireOK
    <2>1. wire'[v] # {} => link[v] = "up"
      BY <1>1, <1>5 DEF IInv, WireOK, WireAt
    <2>2. Req(x) \notin wire'[v]
      BY <1>frames DEF IInv, WireOK, WireAt
    <2>3. Ack(x) \in wire'[v] => place[x] = v /\ stage'[v][x] = "idle"
      BY <1>4, <1>frames, <1>6, AckHeld
    <2>4. Pub(x) \in wire'[v] => \/ x = c /\ v = w
                                 \/ x # c /\ Pub(x) \in wire[v]
      BY <1>frames, <1>7
    <2>5. \A u \in Workers : Pub(x) \in wire'[u] => Pub(x) \in wire[u] \/ (x = c /\ u = w)
      BY <1>frames
    <2>6. Pub(x) \in wire'[v] => /\ place[x] \in {"none", "gone"}
                                 /\ Posted(x[1])
                                 /\ \A u \in Workers \ {v} : Pub(x) \notin wire'[u]
      BY <1>7, <1>12, <2>4, <2>5, PubHeld
    <2> QED
      BY <1>1, <1>11, <2>1, <2>2, <2>3, <2>6, CopyFacts DEF WireAt
  <1>14. HeldOK'
    BY <1>1, <1>4 DEF IInv, HeldOK
  <1>15. CountOK'
    BY <1>1, <1>frames, <1>9 DEF IInv, CountOK
  <1>16. Safe(c)'
    <2>1. Pub(c) \in wire'[w] /\ \A v \in Workers : Ack(c) \notin wire'[v]
      BY <1>frames, <1>7, <1>8
    <2> QED
      BY <1>7, <2>1 DEF Safe, Alive, Publishing, Pub
  <1>17. ASSUME NEW d \in Messages, d # m, Safe(d) PROVE Safe(d)'
    <2>1. \A v \in Workers : Ack(d) \notin wire'[v] /\ (Pub(d) \in wire[v] => Pub(d) \in wire'[v])
      BY <1>frames, <1>17 DEF Safe
    <2> QED
      BY <1>1, <1>17, <2>1 DEF Safe, Alive, Publishing, Pub
  <1>18. Kept'
    <2>1. \A n \in Notifs : \A d \in CopiesOf(n) :
            Safe(d) => \E e \in CopiesOf(n) : Safe(e)'
      BY <1>3, <1>16, <1>17, CopyFacts
    <2> QED
      BY <1>1, <1>11, <2>1, KeptStep
  <1> QED
    BY <1>10, <1>13, <1>14, <1>15, <1>18 DEF IInv

LEMMA BrokerReadsInv ==
  ASSUME IInv, NEW w \in Workers, NEW f \in Frames, BrokerReads(w, f)
  PROVE  IInv'
  <1>1. /\ f \in wire[w] /\ wire' = [wire EXCEPT ![w] = @ \ {f}]
        /\ place' = [place EXCEPT ![f.msg] = IF f.kind = "ack" THEN "gone" ELSE "ready"]
        /\ UNCHANGED <<link, stage, retryCount, sent, troubles, cut, breaks>>
    BY DEF BrokerReads, Read, workerVars, historyVars
  <1>0. PICK m \in Messages : m = f.msg
    BY FrameFacts
  <1>2. m \in Messages /\ (\/ f = Ack(m) /\ f.kind = "ack"
                           \/ f = Pub(m) /\ f.kind = "publish")
    <2>1. m \in Messages /\ (f = Ack(m) \/ f = Pub(m) \/ f = Req(m))
      BY <1>0, FrameFacts
    <2>2. f # Req(m)
      BY <1>1, <2>1 DEF IInv, WireOK, WireAt
    <2>3. (f = Ack(m) => f.kind = "ack") /\ (f = Pub(m) => f.kind = "publish")
      BY <1>0, FrameFacts
    <2> QED
      BY <2>1, <2>2, <2>3
  <1>3. \A v \in Workers : wire'[v] = IF v = w THEN wire[v] \ {f} ELSE wire[v]
    BY <1>1 DEF IInv, Shape, BrokerTypeOK
  <1>4. \A x \in Messages :
          place'[x] = IF x = m THEN (IF f.kind = "ack" THEN "gone" ELSE "ready") ELSE place[x]
    BY <1>0, <1>1, <1>2 DEF IInv, Shape, BrokerTypeOK
  <1>5. \A v \in Workers, x \in Messages :
          /\ Ack(x) \in wire'[v] <=> Ack(x) \in wire[v] /\ ~(v = w /\ f = Ack(x))
          /\ Pub(x) \in wire'[v] <=> Pub(x) \in wire[v] /\ ~(v = w /\ f = Pub(x))
          /\ Req(x) \in wire'[v] => Req(x) \in wire[v]
    BY <1>3
  <1>6. Shape'
    <2>1. place' \in [Messages -> {"none", "ready", "gone"} \cup Workers]
      BY <1>1, <1>2, <1>0 DEF IInv, Shape, BrokerTypeOK
    <2>2. wire' \in [Workers -> SUBSET Frames]
      BY <1>1 DEF IInv, Shape, BrokerTypeOK
    <2> QED
      BY <1>1, <2>1, <2>2 DEF IInv, Shape, BrokerTypeOK
  <1>7. "ready" \notin Workers /\ "gone" \notin Workers /\ "none" \notin Workers
    BY NotificationsAssumption
  <1>8. CASE f = Ack(m) /\ f.kind = "ack"
    <2>1. place[m] = w /\ stage[w][m] = "idle" /\ link[w] = "up"
      BY <1>1, <1>2, <1>8, AckHeld
    <2>2. \A v \in Workers : Pub(m) \notin wire[v]
      BY <1>2, <1>7, <2>1, PubHeld
    <2>3. \A v \in Workers, x \in Messages :
            /\ Ack(x) \in wire'[v] <=> Ack(x) \in wire[v] /\ ~(v = w /\ x = m)
            /\ Pub(x) \in wire'[v] <=> Pub(x) \in wire[v]
      BY <1>2, <1>5, <1>8, FramesDiffer
    <2>4. \A v \in Workers : Ack(m) \notin wire'[v]
      BY <1>2, <2>1, <2>3, AckHeld
    <2>5. \A n \in Notifs : Posted(n) <=> Posted(n)'
      BY <1>4, <1>7, <1>8, <2>1, CopyFacts DEF Posted
    <2>6. WireOK'
      <3>1. ASSUME NEW v \in Workers, NEW x \in Messages
            PROVE  (wire'[v] # {} => link'[v] = "up") /\ WireAt(v, x)'
        <4>1. wire'[v] # {} => link[v] = "up"
          BY <1>3 DEF IInv, WireOK, WireAt
        <4>2. Req(x) \notin wire'[v]
          BY <1>5 DEF IInv, WireOK, WireAt
        <4>3. Ack(x) \in wire'[v] => place'[x] = v /\ stage[v][x] = "idle"
          BY <1>4, <2>3, <2>4, AckHeld
        <4>4. Pub(x) \in wire'[v] => /\ place'[x] \in {"none", "gone"}
                                     /\ Posted(x[1])
                                     /\ \A u \in Workers \ {v} : Pub(x) \notin wire'[u]
          BY <1>4, <2>2, <2>3, PubHeld
        <4> QED
          BY <1>1, <2>5, <4>1, <4>2, <4>3, <4>4, CopyFacts DEF WireAt
      <3> QED
        BY <3>1 DEF WireOK, WireAt
    <2>7. HeldOK'
      BY <1>1, <1>4, <1>7, <1>8, <2>1 DEF IInv, HeldOK
    <2>8. CountOK'
      BY <1>1, <1>4, <1>8, <2>2, <2>3 DEF IInv, CountOK
    <2>9. ASSUME NEW c \in Messages, Safe(c) PROVE Safe(c)'
      <3>1. c # m
        BY <1>1, <1>8, <2>9 DEF Safe
      <3> QED
        BY <1>4, <2>3, <2>9, <3>1 DEF Safe, Alive, Publishing, Pub
    <2>10. Kept'
      BY <1>1, <2>5, <2>9, KeptStep, CopyFacts
    <2> QED
      BY <1>6, <2>6, <2>7, <2>8, <2>10 DEF IInv
  <1>9. CASE f = Pub(m) /\ f.kind = "publish"
    <2>1. /\ place[m] \in {"none", "gone"} /\ link[w] = "up" /\ Posted(m[1])
          /\ \A v \in Workers \ {w} : Pub(m) \notin wire[v]
      BY <1>1, <1>2, <1>9, PubHeld
    <2>2. \A v \in Workers : Ack(m) \notin wire[v]
      BY <1>2, <1>7, <2>1, AckHeld
    <2>3. \A v \in Workers, x \in Messages :
            /\ Ack(x) \in wire'[v] <=> Ack(x) \in wire[v]
            /\ Pub(x) \in wire'[v] <=> Pub(x) \in wire[v] /\ ~(v = w /\ x = m)
      BY <1>2, <1>5, <1>9, FramesDiffer
    <2>4. \A v \in Workers : Pub(m) \notin wire'[v]
      BY <1>2, <2>1, <2>3
    <2>5. \A n \in Notifs : Posted(n) <=> Posted(n)'
      <3> TAKE n \in Notifs
      <3>1. CASE n = m[1]
        BY <1>2, <1>4, <1>9, <2>1, <3>1, CopyFacts DEF Posted
      <3>2. CASE n # m[1]
        BY <1>2, <1>4, <3>2, CopyFacts DEF Posted
      <3> QED
        BY <3>1, <3>2
    <2>6. WireOK'
      <3>1. ASSUME NEW v \in Workers, NEW x \in Messages
            PROVE  (wire'[v] # {} => link'[v] = "up") /\ WireAt(v, x)'
        <4>1. wire'[v] # {} => link[v] = "up"
          BY <1>3 DEF IInv, WireOK, WireAt
        <4>2. Req(x) \notin wire'[v]
          BY <1>5 DEF IInv, WireOK, WireAt
        <4>3. Ack(x) \in wire'[v] => place'[x] = v /\ stage[v][x] = "idle"
          BY <1>4, <2>2, <2>3, AckHeld
        <4>4. Pub(x) \in wire'[v] => /\ place'[x] \in {"none", "gone"}
                                     /\ Posted(x[1])
                                     /\ \A u \in Workers \ {v} : Pub(x) \notin wire'[u]
          BY <1>4, <2>3, <2>4, PubHeld
        <4> QED
          BY <1>1, <2>5, <4>1, <4>2, <4>3, <4>4, CopyFacts DEF WireAt
      <3> QED
        BY <3>1 DEF WireOK, WireAt
    <2>7. HeldOK'
      BY <1>1, <1>4, <1>7, <1>9, <2>1 DEF IInv, HeldOK
    <2>8. CountOK'
      BY <1>1, <1>2, <1>4, <1>9, <2>2, <2>3 DEF IInv, CountOK
    <2>9. ASSUME NEW c \in Messages, Safe(c) PROVE Safe(c)'
      BY <1>4, <1>9, <2>3, <2>9 DEF Safe, Alive, Publishing, Pub
    <2>10. Kept'
      BY <1>1, <2>5, <2>9, KeptStep, CopyFacts
    <2> QED
      BY <1>6, <2>6, <2>7, <2>8, <2>10 DEF IInv
  <1> QED
    BY <1>2, <1>8, <1>9

\* The end of a connection: what the broker and the other workers see of it.
LEMMA DisconnectFacts ==
  ASSUME IInv, NEW w \in Workers, NEW s \in {"down", "lost"}, Disconnect(w, s),
         \A u \in Workers \ {w} : stage'[u] = stage[u]
  PROVE  /\ BrokerTypeOK' /\ WireOK'
         /\ \A v \in Workers : /\ wire'[v] = IF v = w THEN {} ELSE wire[v]
                               /\ link'[v] = IF v = w THEN s ELSE link[v]
         /\ \A x \in Messages : place'[x] = IF place[x] = w THEN "ready" ELSE place[x]
         /\ \A n \in Notifs : Posted(n) <=> Posted(n)'
         /\ \A c \in Messages : Safe(c) => Safe(c)' \/ c \in Publishing(w)
  <1>1. \A v \in Workers : /\ wire'[v] = IF v = w THEN {} ELSE wire[v]
                           /\ link'[v] = IF v = w THEN s ELSE link[v]
    BY DEF Disconnect, IInv, Shape, BrokerTypeOK
  <1>2. \A x \in Messages : place'[x] = IF place[x] = w THEN "ready" ELSE place[x]
    BY DEF Disconnect
  <1>3. BrokerTypeOK'
    <2>1. place' \in [Messages -> {"none", "ready", "gone"} \cup Workers]
      BY DEF Disconnect, IInv, Shape, BrokerTypeOK
    <2>2. wire' \in [Workers -> SUBSET Frames] /\ link' \in [Workers -> {"down", "up", "lost"}]
      BY DEF Disconnect, IInv, Shape, BrokerTypeOK
    <2> QED
      BY <2>1, <2>2 DEF BrokerTypeOK
  <1>4. \A n \in Notifs : Posted(n) <=> Posted(n)'
    BY <1>2, CopyFacts, NotificationsAssumption DEF Posted
  <1>5. ASSUME NEW c \in Messages, Safe(c), c \notin Publishing(w) PROVE Safe(c)'
    <2>1. \A v \in Workers : Ack(c) \notin wire'[v] /\ (Pub(c) \in wire[v] => Pub(c) \in wire'[v])
      BY <1>1, <1>5 DEF Safe, Publishing, Pub
    <2>2. place[c] \in {"ready"} \cup Workers => place'[c] \in {"ready"} \cup Workers
      BY <1>2
    <2> QED
      BY <1>5, <2>1, <2>2 DEF Safe, Alive, Publishing, Pub
  <1>6. ASSUME NEW v \in Workers, NEW x \in Messages PROVE WireAt(v, x)'
    <2>1. wire'[v] # {} => v # w
      BY <1>1
    <2>2. Ack(x) \in wire'[v] => place'[x] = v /\ stage'[v][x] = "idle"
      BY <1>1, <1>2, <2>1, AckHeld
    <2>3. Pub(x) \in wire'[v] => /\ place'[x] \in {"none", "gone"}
                                 /\ Posted(x[1])'
                                 /\ \A u \in Workers \ {v} : Pub(x) \notin wire'[u]
      <3>1. w \notin {"none", "gone"}
        BY NotificationsAssumption
      <3>2. Pub(x) \in wire'[v] => Pub(x) \in wire[v] /\ place[x] # w
        BY <1>1, <3>1, PubHeld
      <3>3. Pub(x) \in wire[v] => /\ place[x] \in {"none", "gone"} /\ Posted(x[1])'
                                  /\ \A u \in Workers \ {v} : Pub(x) \notin wire[u]
        BY <1>4, CopyFacts, PubHeld
      <3> QED
        BY <1>1, <1>2, <3>2, <3>3
    <2>4. Req(x) \notin wire'[v]
      BY <1>1 DEF IInv, WireOK, WireAt
    <2> QED
      BY <2>1, <2>2, <2>3, <2>4 DEF WireAt
  <1>7. WireOK'
    <2>1. \A v \in Workers : wire'[v] # {} => link'[v] = "up"
      BY <1>1 DEF IInv, WireOK
    <2>2. \A v \in Workers, x \in Messages : WireAt(v, x)'
      BY <1>6
    <2> QED
      BY <2>1, <2>2 DEF WireOK
  <1> QED
    BY <1>1, <1>2, <1>3, <1>4, <1>5, <1>7

\* What is cut off is about notifications.
LEMMA CutFacts ==
  ASSUME NEW w \in Workers
  PROVE  /\ {m[1] : m \in Publishing(w)} \subseteq Notifs
         /\ \A c \in Publishing(w) : c[1] \in {m[1] : m \in Publishing(w)}
  <1>1. \A m \in Publishing(w) : m[1] \in Notifs
    BY CopyFacts DEF Publishing
  <1> QED
    BY <1>1

\* The troubles of a lost connection are counted.
LEMMA TroublesCounted ==
  ASSUME IInv, NEW w \in Workers
  PROVE  [n \in Notifs |-> troubles[n] + Cardinality(Unacked(w) \cap CopiesOf(n))]
            \in [Notifs -> Nat]
  <1> SUFFICES ASSUME NEW n \in Notifs
               PROVE  troubles[n] + Cardinality(Unacked(w) \cap CopiesOf(n)) \in Nat
    OBVIOUS
  <1>1. IsFiniteSet(CopiesOf(n))
    BY FS_Singleton, FS_Product, NotificationsAssumption DEF CopiesOf
  <1>2. IsFiniteSet(Unacked(w) \cap CopiesOf(n))
    BY <1>1, FS_Intersection
  <1>3. Cardinality(Unacked(w) \cap CopiesOf(n)) \in Nat
    BY <1>2, FS_CardinalityType
  <1>4. troubles[n] \in Nat
    BY DEF IInv, Shape
  <1> QED
    BY <1>3, <1>4

LEMMA LoseConnectionInv ==
  ASSUME IInv, NEW w \in Workers, LoseConnection(w)
  PROVE  IInv'
  <1>1. /\ link[w] = "up" /\ Disconnect(w, "lost") /\ breaks < MaxBreaks /\ breaks' = breaks + 1
        /\ cut' = cut \cup {m[1] : m \in Publishing(w)}
        /\ troubles' = [n \in Notifs |-> troubles[n] + Cardinality(Unacked(w) \cap CopiesOf(n))]
        /\ UNCHANGED <<stage, retryCount, sent>>
    BY DEF LoseConnection, Broken, workerVars
  <1>2. /\ BrokerTypeOK' /\ WireOK'
        /\ \A v \in Workers : /\ wire'[v] = IF v = w THEN {} ELSE wire[v]
                              /\ link'[v] = IF v = w THEN "lost" ELSE link[v]
        /\ \A x \in Messages : place'[x] = IF place[x] = w THEN "ready" ELSE place[x]
        /\ \A n \in Notifs : Posted(n) <=> Posted(n)'
        /\ \A c \in Messages : Safe(c) => Safe(c)' \/ c \in Publishing(w)
    BY <1>1, DisconnectFacts
  <1>3. "ready" \notin Workers /\ "gone" \notin Workers
    BY NotificationsAssumption
  <1>4. Shape'
    <2>1. cut' \subseteq Notifs
      BY <1>1, CutFacts DEF IInv, Shape
    <2>2. breaks' \in 0 .. MaxBreaks
      BY <1>1, NotificationsAssumption DEF IInv, Shape
    <2>3. troubles' \in [Notifs -> Nat]
      BY <1>1, TroublesCounted
    <2> QED
      BY <1>1, <1>2, <2>1, <2>2, <2>3 DEF IInv, Shape
  <1>6. HeldOK'
    BY <1>1, <1>2, <1>3 DEF IInv, HeldOK
  <1>7. CountOK'
    BY <1>1, <1>2, <1>3 DEF IInv, CountOK
  <1>8. Kept'
    <2>1. \A n \in Notifs : \A c \in CopiesOf(n) : Safe(c) => n \in cut' \/ Safe(c)'
      BY <1>1, <1>2, CopyFacts, CutFacts
    <2> QED
      BY <1>1, <1>2, <2>1, KeptStep
  <1> QED
    BY <1>2, <1>4, <1>6, <1>7, <1>8 DEF IInv

LEMMA RestartInv ==
  ASSUME IInv, NEW w \in Workers, Restart(w)
  PROVE  IInv'
  <1>1. /\ link[w] # "down" /\ Disconnect(w, "down")
        /\ stage' = [stage EXCEPT ![w] = [m \in Messages |-> "idle"]]
        /\ retryCount' = [retryCount EXCEPT ![w] = [m \in Messages |-> 0]]
        /\ UNCHANGED sent
    BY DEF Restart
  <1>2. /\ breaks' \in 0 .. MaxBreaks /\ troubles' \in [Notifs -> Nat]
        /\ cut \subseteq cut' /\ cut' \subseteq Notifs
        /\ \A c \in Publishing(w) : c[1] \in cut'
    <2>1. CASE link[w] = "up"
      <3>1. /\ breaks < MaxBreaks /\ breaks' = breaks + 1
            /\ cut' = cut \cup {m[1] : m \in Publishing(w)}
            /\ troubles' = [n \in Notifs |-> troubles[n] + Cardinality(Unacked(w) \cap CopiesOf(n))]
        BY <2>1 DEF Restart, Broken
      <3>2. breaks' \in 0 .. MaxBreaks
        BY <3>1, NotificationsAssumption DEF IInv, Shape
      <3>4. troubles' \in [Notifs -> Nat]
        BY <3>1, TroublesCounted
      <3>3. cut' \subseteq Notifs
        BY <3>1, CutFacts DEF IInv, Shape
      <3> QED
        BY <3>1, <3>2, <3>3, <3>4, CutFacts
    <2>2. CASE link[w] # "up"
      <3>1. UNCHANGED <<breaks, cut, troubles>>
        BY <2>2 DEF Restart
      <3>2. Publishing(w) = {}
        BY <2>2, PubHeld DEF Publishing, Pub
      <3> QED
        BY <3>1, <3>2 DEF IInv, Shape
    <2> QED
      BY <2>1, <2>2
  <1>3. /\ BrokerTypeOK' /\ WireOK'
        /\ \A v \in Workers : /\ wire'[v] = IF v = w THEN {} ELSE wire[v]
                              /\ link'[v] = IF v = w THEN "down" ELSE link[v]
        /\ \A x \in Messages : place'[x] = IF place[x] = w THEN "ready" ELSE place[x]
        /\ \A n \in Notifs : Posted(n) <=> Posted(n)'
        /\ \A c \in Messages : Safe(c) => Safe(c)' \/ c \in Publishing(w)
    <2>1. \A v \in Workers \ {w} : stage'[v] = stage[v]
      BY <1>1 DEF IInv, Shape
    <2> QED
      BY <1>1, <2>1, DisconnectFacts
  <1>4. \A v \in Workers, x \in Messages :
          /\ stage'[v][x] = IF v = w THEN "idle" ELSE stage[v][x]
          /\ retryCount'[v][x] = IF v = w THEN 0 ELSE retryCount[v][x]
    BY <1>1 DEF IInv, Shape
  <1>5. "ready" \notin Workers /\ "gone" \notin Workers
    BY NotificationsAssumption
  <1>6. Shape'
    <2>1. stage' \in [Workers -> [Messages -> Stages]]
      BY <1>1 DEF IInv, Shape, Stages
    <2>2. retryCount' \in [Workers -> [Messages -> 0 .. MaxRetries]]
      BY <1>1, NotificationsAssumption DEF IInv, Shape
    <2> QED
      BY <1>1, <1>2, <1>3, <2>1, <2>2 DEF IInv, Shape
  <1>8. HeldOK'
    BY <1>1, <1>3, <1>4, <1>5 DEF IInv, HeldOK
  <1>9. CountOK'
    BY <1>3, <1>4, <1>5 DEF IInv, CountOK
  <1>10. Kept'
    <2>1. \A n \in Notifs : \A c \in CopiesOf(n) : Safe(c) => n \in cut' \/ Safe(c)'
      BY <1>2, <1>3, CopyFacts
    <2> QED
      BY <1>1, <1>2, <1>3, <2>1, KeptStep
  <1> QED
    BY <1>3, <1>6, <1>8, <1>9, <1>10 DEF IInv

LEMMA NextInv == IInv /\ [Next]_vars => IInv'
  <1>1. ASSUME IInv, UNCHANGED vars PROVE IInv'
    <2>1. UNCHANGED <<place, wire, link, stage, retryCount, sent, troubles, cut, breaks>>
      BY <1>1 DEF vars, brokerVars, workerVars, historyVars
    <2>2. Shape'
      BY <1>1, <2>1 DEF IInv, Shape, BrokerTypeOK
    <2>3. WireOK'
      BY <1>1, <2>1 DEF IInv, WireOK, WireAt, Posted
    <2>4. HeldOK' /\ CountOK'
      BY <1>1, <2>1 DEF IInv, HeldOK, CountOK
    <2>5. Kept'
      BY <1>1, <2>1 DEF IInv, Kept, Posted, Safe, Alive, Publishing
    <2> QED
      BY <2>2, <2>3, <2>4, <2>5 DEF IInv
  <1> QED
    BY <1>1, PostInv, StartInv, LoseConnectionInv, RestartInv, BrokerReadsInv, ProcessInv,
       SendInv, SucceedInv, FailInv DEF Next

LEMMA Invariant == Spec => []IInv
  BY InitInv, NextInv, PTL DEF Spec

-----------------------------------------------------------------------------
(* Theorems *)

\* The variables keep their shape, and what is being sent over a live
\* connection is still the worker's: processNotification is awaited before the
\* acknowledgement, and no count of attempts goes past one.
THEOREM NotificationsTypeCorrect == Spec => []TypeOK
  <1>1. IInv => TypeOK
    <2> SUFFICES ASSUME IInv PROVE TypeOK
      OBVIOUS
    <2>1. \A w \in Workers, m \in Messages :
            stage[w][m] # "idle" => link[w] = "lost" \/ place[m] = w
      BY DEF IInv, Shape, BrokerTypeOK, HeldOK
    <2> QED
      BY <2>1 DEF IInv, Shape, TypeOK
  <1> QED
    BY <1>1, Invariant, PTL

\* A notification that was published is sent, or still waits somewhere, unless
\* its copy was cut off with a connection; handleNotificationError never gives
\* one up.
THEOREM LossesAreExplained == Spec => []LossExplained
  <1>1. IInv => LossExplained
    BY DEF IInv, Kept, Safe, Waiting, LossExplained
  <1> QED
    BY <1>1, Invariant, PTL

-----------------------------------------------------------------------------
(* Duplicates *)

\* The copies of n that will be handed to a worker, and the sends of n that a
\* worker has begun: what may still reach the receiver.
Queued(n) ==
    {c \in CopiesOf(n) : place[c] = "ready" \/ \E w \in Workers : Pub(c) \in wire[w]}
Begun(n) == {t \in Workers \X CopiesOf(n) : stage[t[1]][t[2]] = "sending"}

\* Each of them, and each send that happened, is the first or follows a trouble.
PaidFor(n) ==
    /\ IsFiniteSet(Queued(n))
    /\ IsFiniteSet(Begun(n))
    /\ sent[n] + Cardinality(Queued(n)) + Cardinality(Begun(n)) <= 1 + troubles[n]

DupInv == \A n \in Notifs : PaidFor(n)

LEMMA CardLess ==
  ASSUME NEW A, IsFiniteSet(A), NEW x \in A, NEW C \in SUBSET (A \ {x})
  PROVE  IsFiniteSet(C) /\ Cardinality(C) <= Cardinality(A) - 1
  <1>1. IsFiniteSet(A \ {x}) /\ Cardinality(A \ {x}) = Cardinality(A) - 1
    BY FS_RemoveElement
  <1> QED
    BY <1>1, FS_Subset

LEMMA CardMore ==
  ASSUME NEW A, IsFiniteSet(A), NEW B, IsFiniteSet(B), NEW C \in SUBSET (A \cup B)
  PROVE  IsFiniteSet(C) /\ Cardinality(C) <= Cardinality(A) + Cardinality(B)
  <1>1. /\ IsFiniteSet(A \cup B) /\ IsFiniteSet(A \cap B)
        /\ Cardinality(A \cup B) = Cardinality(A) + Cardinality(B) - Cardinality(A \cap B)
    BY FS_Union, FS_Intersection
  <1>2. IsFiniteSet(C) /\ Cardinality(C) <= Cardinality(A \cup B)
    BY <1>1, FS_Subset
  <1>3. /\ Cardinality(A \cap B) \in Nat /\ Cardinality(A) \in Nat
        /\ Cardinality(B) \in Nat /\ Cardinality(C) \in Nat
    BY <1>1, <1>2, FS_CardinalityType
  <1> QED
    BY <1>1, <1>2, <1>3

LEMMA CardOneMore ==
  ASSUME NEW A, IsFiniteSet(A), NEW x, NEW C \in SUBSET (A \cup {x})
  PROVE  IsFiniteSet(C) /\ Cardinality(C) <= Cardinality(A) + 1
  BY CardMore, FS_Singleton

\* The numbers that the promise adds up.
LEMMA PaidNumbers ==
  ASSUME IInv, DupInv, NEW n \in Notifs
  PROVE  /\ PaidFor(n) /\ sent[n] \in Nat /\ troubles[n] \in Nat
         /\ Cardinality(Queued(n)) \in Nat /\ Cardinality(Begun(n)) \in Nat
  BY FS_CardinalityType DEF IInv, Shape, DupInv, PaidFor

\* Nothing new is owed.
LEMMA NothingOwed ==
  ASSUME IInv, DupInv, NEW n \in Notifs,
         Queued(n)' \subseteq Queued(n), Begun(n)' \subseteq Begun(n),
         sent'[n] = sent[n], troubles'[n] \in Nat, troubles'[n] >= troubles[n]
  PROVE  PaidFor(n)'
  <1>1. /\ IsFiniteSet(Queued(n)') /\ Cardinality(Queued(n)') <= Cardinality(Queued(n))
        /\ IsFiniteSet(Begun(n)') /\ Cardinality(Begun(n)') <= Cardinality(Begun(n))
    BY PaidNumbers, FS_Subset DEF PaidFor
  <1>2. Cardinality(Queued(n)') \in Nat /\ Cardinality(Begun(n)') \in Nat
    BY <1>1, FS_CardinalityType
  <1> QED
    BY <1>1, <1>2, PaidNumbers DEF PaidFor

LEMMA DupInit == Init => DupInv
  <1> SUFFICES ASSUME Init, NEW n \in Notifs PROVE PaidFor(n)
    BY DEF DupInv
  <1>1. Queued(n) = {}
    <2>1. \A c \in CopiesOf(n) : place[c] = "none"
      BY CopyFacts DEF Init
    <2> QED
      BY <2>1 DEF Init, Queued
  <1>2. Begun(n) = {}
    BY CopyFacts DEF Init, Begun
  <1> QED
    BY <1>1, <1>2, FS_EmptySet DEF Init, PaidFor

LEMMA PostPaid ==
  ASSUME IInv, DupInv, NEW n \in Notifs, Post(n)
  PROVE  DupInv'
  <1>1. PICK p \in CopiesOf(n) : place' = [place EXCEPT ![p] = "ready"]
    BY NotificationsAssumption DEF Post, CopiesOf
  <1>2. UNCHANGED <<wire, link, stage, retryCount, sent, troubles, cut, breaks>>
    BY DEF Post, workerVars, historyVars
  <1>3. \A m \in Messages : place'[m] = IF m = p THEN "ready" ELSE place[m]
    BY <1>1, CopyFacts DEF IInv, Shape, BrokerTypeOK
  <1>4. ~Posted(n) /\ sent[n] = 0
    <2>1. ~Posted(n)
      BY DEF Post, Posted
    <2> QED
      BY <2>1 DEF IInv, Kept, Shape
  <1>5. Queued(n) = {} /\ Begun(n) = {}
    <2>1. \A c \in CopiesOf(n) : /\ c \in Messages /\ c[1] = n /\ place[c] = "none"
      BY CopyFacts DEF Post
    <2>2. \A c \in CopiesOf(n), w \in Workers : Pub(c) \notin wire[w]
      BY <1>4, <2>1, PubHeld
    <2>3. \A c \in CopiesOf(n), w \in Workers : stage[w][c] = "idle"
      BY <2>1 DEF IInv, HeldOK
    <2> QED
      BY <2>1, <2>2, <2>3 DEF Queued, Begun
  <1>6. PaidFor(n)'
    <2>1. Queued(n)' \in SUBSET {p} /\ Begun(n)' = {}
      BY <1>2, <1>3, <1>5, CopyFacts DEF Queued, Begun
    <2>2. IsFiniteSet(Queued(n)') /\ Cardinality(Queued(n)') <= 1
      <3>1. IsFiniteSet({p}) /\ Cardinality({p}) = 1
        BY FS_Singleton
      <3> QED
        BY <2>1, <3>1, FS_Subset
    <2>3. Cardinality(Queued(n)') \in Nat
      BY <2>2, FS_CardinalityType
    <2> QED
      BY <1>2, <1>4, <2>1, <2>2, <2>3, FS_EmptySet, PaidNumbers DEF PaidFor
  <1>7. ASSUME NEW x \in Notifs, x # n PROVE PaidFor(x)'
    <2>1. Queued(x)' \subseteq Queued(x) /\ Begun(x)' \subseteq Begun(x)
      BY <1>2, <1>3, <1>7, CopyFacts DEF Queued, Begun
    <2> QED
      BY <1>2, <2>1, NothingOwed, PaidNumbers
  <1> QED
    BY <1>6, <1>7 DEF DupInv

\* A step that leaves what is owed of all other notifications alone.
LEMMA OthersPaid ==
  ASSUME IInv, DupInv, NEW m \in Messages, PaidFor(m[1])',
         \A x \in Notifs \ {m[1]} :
            /\ Queued(x)' \subseteq Queued(x) /\ Begun(x)' \subseteq Begun(x)
            /\ sent'[x] = sent[x] /\ troubles'[x] = troubles[x]
  PROVE  DupInv'
  <1>1. ASSUME NEW x \in Notifs, x # m[1] PROVE PaidFor(x)'
    BY <1>1, NothingOwed, PaidNumbers
  <1> QED
    BY <1>1 DEF DupInv

LEMMA ProcessPaid ==
  ASSUME IInv, DupInv, NEW w \in Workers, NEW m \in Messages, Process(w, m)
  PROVE  DupInv'
  <1>1. link[w] = "up" /\ place[m] = "ready" /\ place' = [place EXCEPT ![m] = w]
    BY DEF Process, Deliver
  <1>2. ~(retryCount[w][m] >= MaxRetries)
    BY <1>1, NotCounted, NotificationsAssumption
  <1>3. stage' = [stage EXCEPT ![w][m] = "sending"] /\ UNCHANGED <<wire, sent, troubles>>
    BY <1>2 DEF Process
  <1>4. \A x \in Messages : place'[x] = IF x = m THEN w ELSE place[x]
    BY <1>1 DEF IInv, Shape, BrokerTypeOK
  <1>5. \A v \in Workers, x \in Messages :
          stage'[v][x] = IF v = w /\ x = m THEN "sending" ELSE stage[v][x]
    BY <1>3 DEF IInv, Shape
  <1>6. w # "ready" /\ \A v \in Workers : Pub(m) \notin wire[v]
    BY <1>1, NotificationsAssumption, PubHeld
  <1>7. m \in Queued(m[1]) /\ Queued(m[1])' \in SUBSET (Queued(m[1]) \ {m})
    BY <1>1, <1>3, <1>4, <1>6, CopyFacts DEF Queued
  <1>8. Begun(m[1])' \in SUBSET (Begun(m[1]) \cup {<<w, m>>})
    BY <1>5, CopyFacts DEF Begun
  <1>9. \A x \in Notifs \ {m[1]} : Queued(x)' \subseteq Queued(x) /\ Begun(x)' \subseteq Begun(x)
    BY <1>3, <1>4, <1>5, CopyFacts DEF Queued, Begun
  <1>10. PaidFor(m[1])'
    <2>1. /\ IsFiniteSet(Queued(m[1])')
          /\ Cardinality(Queued(m[1])') <= Cardinality(Queued(m[1])) - 1
      BY <1>7, CardLess, PaidNumbers, CopyFacts DEF PaidFor
    <2>2. /\ IsFiniteSet(Begun(m[1])')
          /\ Cardinality(Begun(m[1])') <= Cardinality(Begun(m[1])) + 1
      BY <1>8, CardOneMore, PaidNumbers, CopyFacts DEF PaidFor
    <2>3. Cardinality(Queued(m[1])') \in Nat /\ Cardinality(Begun(m[1])') \in Nat
      BY <2>1, <2>2, FS_CardinalityType
    <2> QED
      BY <1>3, <2>1, <2>2, <2>3, PaidNumbers, CopyFacts DEF PaidFor
  <1> QED
    BY <1>3, <1>9, <1>10, OthersPaid

LEMMA SendPaid ==
  ASSUME IInv, DupInv, NEW w \in Workers, NEW m \in Messages, Send(w, m)
  PROVE  DupInv'
  <1>1. /\ stage[w][m] = "sending"
        /\ stage' = [stage EXCEPT ![w][m] = "sent"]
        /\ sent' = [sent EXCEPT ![m[1]] = @ + 1]
        /\ UNCHANGED <<place, wire, troubles>>
    BY DEF Send, brokerVars
  <1>2. \A v \in Workers, x \in Messages :
          stage'[v][x] = IF v = w /\ x = m THEN "sent" ELSE stage[v][x]
    BY <1>1 DEF IInv, Shape
  <1>3. \A x \in Notifs : sent'[x] = IF x = m[1] THEN sent[x] + 1 ELSE sent[x]
    BY <1>1 DEF IInv, Shape
  <1>4. \A x \in Notifs : Queued(x)' = Queued(x)
    BY <1>1 DEF Queued
  <1>5. <<w, m>> \in Begun(m[1]) /\ Begun(m[1])' \in SUBSET (Begun(m[1]) \ {<<w, m>>})
    BY <1>1, <1>2, CopyFacts DEF Begun
  <1>6. \A x \in Notifs \ {m[1]} : Begun(x)' \subseteq Begun(x)
    BY <1>2, CopyFacts DEF Begun
  <1>7. PaidFor(m[1])'
    <2>1. /\ IsFiniteSet(Begun(m[1])')
          /\ Cardinality(Begun(m[1])') <= Cardinality(Begun(m[1])) - 1
      BY <1>5, CardLess, PaidNumbers, CopyFacts DEF PaidFor
    <2>2. Cardinality(Begun(m[1])') \in Nat
      BY <2>1, FS_CardinalityType
    <2> QED
      BY <1>1, <1>3, <1>4, <2>1, <2>2, PaidNumbers, CopyFacts DEF PaidFor
  <1> QED
    BY <1>1, <1>3, <1>4, <1>6, <1>7, OthersPaid

LEMMA SucceedPaid ==
  ASSUME IInv, DupInv, NEW w \in Workers, NEW m \in Messages, Succeed(w, m)
  PROVE  DupInv'
  <1>1. /\ stage' = [stage EXCEPT ![w][m] = "idle"]
        /\ wire' = [wire EXCEPT ![w] = @ \cup {Ack(m)}]
        /\ UNCHANGED <<place, sent, troubles>>
    BY DEF Succeed, Write, Ack, historyVars
  <1>2. \A v \in Workers, x \in Messages :
          stage'[v][x] = IF v = w /\ x = m THEN "idle" ELSE stage[v][x]
    BY <1>1 DEF IInv, Shape
  <1>3. \A v \in Workers, x \in Messages : Pub(x) \in wire'[v] <=> Pub(x) \in wire[v]
    BY <1>1, FramesDiffer DEF IInv, Shape, BrokerTypeOK
  <1>4. \A x \in Notifs : Queued(x)' \subseteq Queued(x) /\ Begun(x)' \subseteq Begun(x)
    BY <1>1, <1>2, <1>3, CopyFacts DEF Queued, Begun
  <1> QED
    BY <1>1, <1>4, NothingOwed, PaidNumbers DEF DupInv

LEMMA FailPaid ==
  ASSUME IInv, DupInv, NEW w \in Workers, NEW m \in Messages, Fail(w, m)
  PROVE  DupInv'
  <1>1. /\ stage[w][m] \in {"sending", "sent"} /\ link[w] = "up"
        /\ stage' = [stage EXCEPT ![w][m] = "idle"]
        /\ troubles' = [troubles EXCEPT ![m[1]] = IF stage[w][m] = "sent" THEN @ + 1 ELSE @]
        /\ UNCHANGED <<place, sent>>
    BY DEF Fail
  <1>2. retryCount[w][m] < MaxRetries
    BY <1>1, NotCounted, NotificationsAssumption
  <1>3. PICK c \in CopiesOf(m[1]) : wire' = [wire EXCEPT ![w] = @ \cup {Ack(m), Pub(c)}]
    BY <1>2 DEF Fail, Ack, Pub
  <1>4. \A v \in Workers, x \in Messages :
          stage'[v][x] = IF v = w /\ x = m THEN "idle" ELSE stage[v][x]
    BY <1>1 DEF IInv, Shape
  <1>5. \A v \in Workers, x \in Messages :
          Pub(x) \in wire'[v] <=> Pub(x) \in wire[v] \/ (v = w /\ x = c)
    BY <1>3, FramesDiffer, CopyFacts DEF IInv, Shape, BrokerTypeOK
  <1>6. \A x \in Notifs : troubles'[x] =
          IF x = m[1] /\ stage[w][m] = "sent" THEN troubles[x] + 1 ELSE troubles[x]
    BY <1>1 DEF IInv, Shape
  <1>7. Queued(m[1])' \in SUBSET (Queued(m[1]) \cup {c})
    BY <1>1, <1>5, CopyFacts DEF Queued
  <1>8. /\ Begun(m[1])' \in SUBSET Begun(m[1])
        /\ stage[w][m] = "sending" => /\ <<w, m>> \in Begun(m[1])
                                      /\ Begun(m[1])' \in SUBSET (Begun(m[1]) \ {<<w, m>>})
    BY <1>4, CopyFacts DEF Begun
  <1>9. \A x \in Notifs \ {m[1]} : Queued(x)' \subseteq Queued(x) /\ Begun(x)' \subseteq Begun(x)
    BY <1>1, <1>3, <1>4, <1>5, CopyFacts DEF Queued, Begun
  <1>10. PaidFor(m[1])'
    <2>1. /\ IsFiniteSet(Queued(m[1])')
          /\ Cardinality(Queued(m[1])') <= Cardinality(Queued(m[1])) + 1
      BY <1>7, CardOneMore, PaidNumbers, CopyFacts DEF PaidFor
    <2>2. /\ IsFiniteSet(Begun(m[1])')
          /\ Cardinality(Begun(m[1])') <= Cardinality(Begun(m[1]))
      BY <1>8, FS_Subset, PaidNumbers, CopyFacts DEF PaidFor
    <2>3. stage[w][m] = "sending" => Cardinality(Begun(m[1])') <= Cardinality(Begun(m[1])) - 1
      BY <1>8, CardLess, PaidNumbers, CopyFacts DEF PaidFor
    <2>4. Cardinality(Queued(m[1])') \in Nat /\ Cardinality(Begun(m[1])') \in Nat
      BY <2>1, <2>2, FS_CardinalityType
    <2> QED
      BY <1>1, <1>6, <2>1, <2>2, <2>3, <2>4, PaidNumbers, CopyFacts DEF PaidFor
  <1> QED
    BY <1>1, <1>6, <1>9, <1>10, OthersPaid

LEMMA BrokerReadsPaid ==
  ASSUME IInv, DupInv, NEW w \in Workers, NEW f \in Frames, BrokerReads(w, f)
  PROVE  DupInv'
  <1>1. /\ f \in wire[w] /\ wire' = [wire EXCEPT ![w] = @ \ {f}]
        /\ place' = [place EXCEPT ![f.msg] = IF f.kind = "ack" THEN "gone" ELSE "ready"]
        /\ UNCHANGED <<stage, sent, troubles>>
    BY DEF BrokerReads, Read, workerVars, historyVars
  <1>2. PICK m \in Messages : m = f.msg
    BY FrameFacts
  <1>3. (f = Ack(m) /\ f.kind = "ack") \/ f = Pub(m)
    <2>1. f # Req(m)
      BY <1>1 DEF IInv, WireOK, WireAt
    <2> QED
      BY <1>2, <2>1, FrameFacts
  <1>4. \A x \in Messages :
          place'[x] = IF x = m THEN (IF f.kind = "ack" THEN "gone" ELSE "ready") ELSE place[x]
    BY <1>1, <1>2 DEF IInv, Shape, BrokerTypeOK
  <1>5. \A v \in Workers : wire'[v] \subseteq wire[v]
    BY <1>1 DEF IInv, Shape, BrokerTypeOK
  <1>6. \A x \in Notifs : Queued(x)' \subseteq Queued(x)
    <2>1. ASSUME NEW c \in Messages, place'[c] = "ready" \/ \E v \in Workers : Pub(c) \in wire'[v]
          PROVE  place[c] = "ready" \/ \E v \in Workers : Pub(c) \in wire[v]
      BY <1>1, <1>3, <1>4, <1>5, <2>1
    <2> QED
      BY <2>1, CopyFacts DEF Queued
  <1>7. \A x \in Notifs : Begun(x)' = Begun(x)
    BY <1>1 DEF Begun
  <1> QED
    BY <1>1, <1>6, <1>7, NothingOwed, PaidNumbers DEF DupInv

\* A live connection ends: what the broker takes back is one trouble each.
LEMMA BreakPaid ==
  ASSUME IInv, DupInv, NEW w \in Workers, NEW s \in {"down", "lost"}, Disconnect(w, s),
         link[w] = "up" => Broken(w),
         link[w] # "up" => UNCHANGED troubles,
         \A n \in Notifs : Begun(n)' \subseteq Begun(n),
         UNCHANGED sent
  PROVE  DupInv'
  <1> SUFFICES ASSUME NEW n \in Notifs PROVE PaidFor(n)'
    BY DEF DupInv
  <1>1. \A x \in Messages : place'[x] = IF place[x] = w THEN "ready" ELSE place[x]
    BY DEF Disconnect
  <1>2. \A v \in Workers : wire'[v] \subseteq wire[v]
    BY DEF Disconnect, IInv, Shape, BrokerTypeOK
  <1>3. Queued(n)' \in SUBSET (Queued(n) \cup (Unacked(w) \cap CopiesOf(n)))
    BY <1>1, <1>2, CopyFacts DEF Queued, Unacked
  <1>4. CASE link[w] # "up"
    <2>1. Unacked(w) = {}
      BY <1>4 DEF IInv, HeldOK, Unacked
    <2> QED
      BY <1>3, <1>4, <2>1, NothingOwed, PaidNumbers
  <1>5. CASE link[w] = "up"
    <2>1. troubles'[n] = troubles[n] + Cardinality(Unacked(w) \cap CopiesOf(n))
      BY <1>5 DEF Broken
    <2>2. IsFiniteSet(Unacked(w) \cap CopiesOf(n))
      <3>1. IsFiniteSet(CopiesOf(n))
        BY FS_Singleton, FS_Product, NotificationsAssumption DEF CopiesOf
      <3> QED
        BY <3>1, FS_Intersection
    <2>3. /\ IsFiniteSet(Queued(n)')
          /\ Cardinality(Queued(n)') <=
                Cardinality(Queued(n)) + Cardinality(Unacked(w) \cap CopiesOf(n))
      BY <1>3, <2>2, CardMore, PaidNumbers DEF PaidFor
    <2>4. IsFiniteSet(Begun(n)') /\ Cardinality(Begun(n)') <= Cardinality(Begun(n))
      BY FS_Subset, PaidNumbers DEF PaidFor
    <2>5. /\ Cardinality(Queued(n)') \in Nat /\ Cardinality(Begun(n)') \in Nat
          /\ Cardinality(Unacked(w) \cap CopiesOf(n)) \in Nat
      BY <2>2, <2>3, <2>4, FS_CardinalityType
    <2> QED
      BY <2>1, <2>3, <2>4, <2>5, PaidNumbers DEF PaidFor
  <1> QED
    BY <1>4, <1>5

LEMMA DupNext == IInv /\ DupInv /\ [Next]_vars => DupInv'
  <1> SUFFICES ASSUME IInv, DupInv, [Next]_vars PROVE DupInv'
    OBVIOUS
  <1>1. ASSUME NEW w \in Workers, LoseConnection(w) PROVE DupInv'
    <2>1. link[w] = "up" /\ Disconnect(w, "lost") /\ Broken(w) /\ UNCHANGED <<stage, sent>>
      BY <1>1 DEF LoseConnection, workerVars
    <2>2. \A n \in Notifs : Begun(n)' \subseteq Begun(n)
      BY <2>1 DEF Begun
    <2> QED
      BY <2>1, <2>2, BreakPaid
  <1>2. ASSUME NEW w \in Workers, Restart(w) PROVE DupInv'
    <2>1. /\ Disconnect(w, "down") /\ UNCHANGED sent
          /\ stage' = [stage EXCEPT ![w] = [m \in Messages |-> "idle"]]
          /\ link[w] = "up" => Broken(w)
          /\ link[w] # "up" => UNCHANGED troubles
      BY <1>2 DEF Restart
    <2>2. \A v \in Workers, x \in Messages :
            stage'[v][x] = IF v = w THEN "idle" ELSE stage[v][x]
      BY <2>1 DEF IInv, Shape
    <2>3. \A n \in Notifs : Begun(n)' \subseteq Begun(n)
      BY <2>2, CopyFacts DEF Begun
    <2> QED
      BY <2>1, <2>3, BreakPaid
  <1>3. ASSUME NEW w \in Workers, Start(w) PROVE DupInv'
    <2>1. UNCHANGED <<place, wire, stage, sent, troubles>>
      BY <1>3 DEF Start, Connect, workerVars, historyVars
    <2>2. \A n \in Notifs : Queued(n)' = Queued(n) /\ Begun(n)' = Begun(n)
      BY <2>1 DEF Queued, Begun
    <2> QED
      BY <2>1, <2>2, NothingOwed, PaidNumbers DEF DupInv
  <1>4. CASE UNCHANGED vars
    <2>1. UNCHANGED <<place, wire, stage, sent, troubles>>
      BY <1>4 DEF vars, brokerVars, workerVars, historyVars
    <2>2. \A n \in Notifs : Queued(n)' = Queued(n) /\ Begun(n)' = Begun(n)
      BY <2>1 DEF Queued, Begun
    <2> QED
      BY <2>1, <2>2, NothingOwed, PaidNumbers DEF DupInv
  <1> QED
    BY <1>1, <1>2, <1>3, <1>4, PostPaid, ProcessPaid, SendPaid, SucceedPaid, FailPaid,
       BrokerReadsPaid DEF Next

\* A notification reaches its receiver a second time only after a response was
\* lost or the broker delivered a copy again, however many copies, workers and
\* broken connections there are.
THEOREM DuplicatesAreExplained == Spec => []DuplicatesExplained
  <1>1. IInv /\ DupInv => DuplicatesExplained
    <2> SUFFICES ASSUME IInv, DupInv, NEW n \in Notifs PROVE sent[n] <= 1 + troubles[n]
      BY DEF DuplicatesExplained
    <2> QED
      BY PaidNumbers DEF PaidFor
  <1> QED
    BY <1>1, DupInit, DupNext, Invariant, PTL DEF Spec

-----------------------------------------------------------------------------
(* The refinement *)

\* A step that changes none of what the promise speaks of.
LEMMA Stutters ==
  ASSUME \A n \in Notifs : /\ sent'[n] > 0 <=> sent[n] > 0
                           /\ Posted(n)' <=> Posted(n)
                           /\ Waiting(n)' <=> Waiting(n),
         cut' = cut
  PROVE  UNCHANGED Tasks!vars
  BY DEF Tasks!vars

\* What waits was posted.
LEMMA WaitingPosted == IInv => \A n \in Notifs : Waiting(n) => Posted(n)
  <1> SUFFICES ASSUME IInv, NEW n \in Notifs, NEW m \in CopiesOf(n), Alive(m) PROVE Posted(n)
    BY DEF Waiting
  <1>1. m \in Messages /\ m[1] = n
    BY CopyFacts
  <1>2. CASE place[m] \in {"ready"} \cup Workers
    BY <1>2, NotificationsAssumption DEF Posted
  <1>3. CASE \E w \in Workers : Pub(m) \in wire[w]
    BY <1>1, <1>3, PubHeld
  <1> QED
    BY <1>1, <1>2, <1>3 DEF Alive, Publishing, Pub

\* A step in which notifications may lose their last copy.
LEMMA Troubled ==
  ASSUME IInv, IInv', cut \subseteq cut',
         \A n \in Notifs : /\ sent'[n] = sent[n]
                           /\ Posted(n)' <=> Posted(n)
                           /\ Waiting(n)' => Waiting(n)
  PROVE  Tasks!Next
  <1>0. PICK S \in SUBSET Notifs : S = cut' \ cut
    BY DEF IInv, Shape
  <1> DEFINE L == {n \in Notifs : ~(sent[n] > 0) /\ Waiting(n) /\ ~Waiting(n)'}
  <1>1. cut' = cut \cup S
    BY <1>0
  <1>2. \A n \in L : Posted(n)
    BY WaitingPosted
  <1>3. L \subseteq cut'
    BY <1>2 DEF IInv, Kept, Waiting, Safe
  <1>4. Tasks!Trouble(S)
    BY <1>1, <1>2, <1>3 DEF Tasks!Trouble
  <1> HIDE DEF L
  <1> QED
    BY <1>4 DEF Tasks!Next

LEMMA TasksInit == Init => Tasks!Init
  <1> SUFFICES ASSUME Init PROVE Tasks!Init
    OBVIOUS
  <1>1. \A n \in Notifs : ~(sent[n] > 0) /\ ~Posted(n) /\ ~Waiting(n)
    <2>1. \A m \in Messages : place[m] = "none" /\ ~Alive(m)
      BY NotificationsAssumption DEF Init, Alive, Publishing
    <2> QED
      BY <2>1, CopyFacts DEF Init, Posted, Waiting
  <1> QED
    BY <1>1 DEF Init, Tasks!Init

\* Every step is one of the promise, or changes nothing that it speaks of.
LEMMA TasksStep ==
  ASSUME IInv, IInv', [Next]_vars
  PROVE  Tasks!Next \/ UNCHANGED Tasks!vars
  <1>1. ASSUME NEW n \in Notifs, Post(n) PROVE Tasks!Next
    <2>1. PICK p \in CopiesOf(n) : place' = [place EXCEPT ![p] = "ready"]
      BY <1>1, NotificationsAssumption DEF Post, CopiesOf
    <2>2. UNCHANGED <<wire, sent, cut>> /\ p \in Messages /\ place[p] = "none"
      BY <1>1, <2>1, CopyFacts DEF Post, historyVars
    <2>3. \A x \in Messages : place'[x] = IF x = p THEN "ready" ELSE place[x]
      BY <2>1, <2>2 DEF IInv, Shape, BrokerTypeOK
    <2>4. ~Posted(n) /\ ~Waiting(n) /\ Posted(n)' /\ Waiting(n)'
      <3>1. ~Posted(n) /\ ~Waiting(n)
        BY <1>1, WaitingPosted DEF Post, Posted
      <3>2. place'[p] = "ready"
        BY <2>2, <2>3
      <3> QED
        BY <2>1, <3>1, <3>2 DEF Posted, Waiting, Alive
    <2>5. ASSUME NEW x \in Notifs, x # n
          PROVE  (Posted(x)' <=> Posted(x)) /\ (Waiting(x)' <=> Waiting(x))
      <3>1. \A c \in CopiesOf(x) : place'[c] = place[c]
        BY <2>1, <2>3, <2>5, CopyFacts
      <3> QED
        BY <2>2, <3>1 DEF Posted, Waiting, Alive, Publishing
    <2>6. ~(sent[n] > 0)
      BY <2>4 DEF IInv, Kept
    <2> QED
      BY <2>2, <2>4, <2>5, <2>6 DEF Tasks!Next, Tasks!Post
  <1>2. ASSUME NEW w \in Workers, Start(w) PROVE UNCHANGED Tasks!vars
    BY <1>2, Stutters DEF Start, Connect, historyVars, Posted, Waiting, Alive, Publishing
  <1>3. ASSUME NEW w \in Workers, NEW m \in Messages, Process(w, m) PROVE UNCHANGED Tasks!vars
    <2>1. link[w] = "up" /\ place[m] = "ready" /\ place' = [place EXCEPT ![m] = w]
      BY <1>3 DEF Process, Deliver
    <2>2. ~(retryCount[w][m] >= MaxRetries)
      BY <2>1, NotCounted, NotificationsAssumption
    <2>3. UNCHANGED <<wire, sent, cut>>
      BY <1>3, <2>2 DEF Process
    <2>4. \A x \in Messages : place'[x] = IF x = m THEN w ELSE place[x]
      BY <2>1 DEF IInv, Shape, BrokerTypeOK
    <2>5. \A x \in Messages : (Alive(x)' <=> Alive(x)) /\ (place'[x] = "none" <=> place[x] = "none")
      BY <2>1, <2>3, <2>4, NotificationsAssumption DEF Alive, Publishing
    <2> QED
      BY <2>3, <2>5, Stutters, CopyFacts DEF Posted, Waiting
  <1>4. ASSUME NEW w \in Workers, NEW m \in Messages, Send(w, m)
        PROVE  Tasks!Next \/ UNCHANGED Tasks!vars
    <2>1. /\ stage[w][m] = "sending" /\ UNCHANGED <<place, wire, cut>>
          /\ sent' = [sent EXCEPT ![m[1]] = @ + 1]
      BY <1>4 DEF Send, brokerVars
    <2>2. \A n \in Notifs : (Posted(n)' <=> Posted(n)) /\ (Waiting(n)' <=> Waiting(n))
      BY <2>1 DEF Posted, Waiting, Alive, Publishing
    <2>3. m[1] \in Notifs /\ Posted(m[1])
      BY <2>1, CopyFacts DEF IInv, HeldOK, Posted
    <2>4. /\ sent'[m[1]] > 0
          /\ \A n \in Notifs \ {m[1]} : sent'[n] = sent[n]
      BY <2>1, <2>3 DEF IInv, Shape
    <2>5. CASE sent[m[1]] > 0
      BY <2>1, <2>2, <2>4, <2>5, Stutters
    <2>6. CASE ~(sent[m[1]] > 0)
      <3>1. Tasks!Do(m[1])
        BY <2>1, <2>2, <2>3, <2>4, <2>6 DEF Tasks!Do
      <3> QED
        BY <2>3, <3>1 DEF Tasks!Next
    <2> QED
      BY <2>5, <2>6
  <1>5. ASSUME NEW w \in Workers, NEW m \in Messages, Succeed(w, m) PROVE UNCHANGED Tasks!vars
    <2>1. wire' = [wire EXCEPT ![w] = @ \cup {Ack(m)}] /\ UNCHANGED <<place, sent, cut>>
      BY <1>5 DEF Succeed, Write, Ack, historyVars
    <2>2. \A v \in Workers, x \in Messages : Pub(x) \in wire'[v] <=> Pub(x) \in wire[v]
      BY <2>1, FramesDiffer DEF IInv, Shape, BrokerTypeOK
    <2>3. \A x \in Messages : Alive(x)' <=> Alive(x)
      BY <2>1, <2>2 DEF Alive, Publishing, Pub
    <2> QED
      BY <2>1, <2>3, Stutters, CopyFacts DEF Posted, Waiting
  <1>6. ASSUME NEW w \in Workers, NEW m \in Messages, Fail(w, m) PROVE UNCHANGED Tasks!vars
    <2>1. stage[w][m] # "idle" /\ link[w] = "up" /\ UNCHANGED <<place, sent, cut>>
      BY <1>6 DEF Fail
    <2>2. place[m] = w /\ retryCount[w][m] < MaxRetries
      BY <2>1, NotCounted, NotificationsAssumption DEF IInv, HeldOK
    <2>3. PICK c \in CopiesOf(m[1]) : wire' = [wire EXCEPT ![w] = @ \cup {Ack(m), Pub(c)}]
      BY <1>6, <2>2 DEF Fail, Ack, Pub
    <2>4. \A v \in Workers, x \in Messages :
            Pub(x) \in wire'[v] <=> Pub(x) \in wire[v] \/ (v = w /\ x = c)
      BY <2>3, FramesDiffer, CopyFacts DEF IInv, Shape, BrokerTypeOK
    <2>5. \A x \in Messages : Alive(x)' <=> Alive(x) \/ x = c
      BY <2>1, <2>4 DEF Alive, Publishing, Pub
    <2>6. \A n \in Notifs : Waiting(n)' <=> Waiting(n)
      <3> TAKE n \in Notifs
      <3>1. CASE n = m[1]
        <4>1. Alive(m)
          BY <2>2 DEF Alive
        <4> QED
          BY <3>1, <2>5, <4>1, CopyFacts DEF Waiting
      <3>2. CASE n # m[1]
        BY <3>2, <2>3, <2>5, CopyFacts DEF Waiting
      <3> QED
        BY <3>1, <3>2
    <2> QED
      BY <2>1, <2>6, Stutters DEF Posted
  <1>7. ASSUME NEW w \in Workers, NEW f \in Frames, BrokerReads(w, f) PROVE Tasks!Next
    <2>1. /\ f \in wire[w] /\ wire' = [wire EXCEPT ![w] = @ \ {f}]
          /\ place' = [place EXCEPT ![f.msg] = IF f.kind = "ack" THEN "gone" ELSE "ready"]
          /\ UNCHANGED <<sent, cut>>
      BY <1>7 DEF BrokerReads, Read, historyVars
    <2>2. f.msg \in Messages /\ (f = Ack(f.msg) \/ f = Pub(f.msg)) /\ f # Req(f.msg)
      <3>1. f.msg \in Messages /\ (f = Ack(f.msg) \/ f = Pub(f.msg) \/ f = Req(f.msg))
        BY FrameFacts
      <3>2. f # Req(f.msg)
        BY <2>1, <3>1 DEF IInv, WireOK, WireAt
      <3> QED
        BY <3>1, <3>2
    <2>3. \A v \in Workers, x \in Messages : Pub(x) \in wire'[v] => Pub(x) \in wire[v]
      BY <2>1 DEF IInv, Shape, BrokerTypeOK
    <2>4. Alive(f.msg)
      BY <2>1, <2>2, AckHeld DEF Alive, Publishing, Pub
    <2>5. Posted(f.msg[1])
      BY <2>2, <2>4, WaitingPosted, CopyFacts DEF Waiting
    <2>6. \A x \in Messages : x # f.msg => place'[x] = place[x]
      BY <2>1, <2>2 DEF IInv, Shape, BrokerTypeOK
    <2>7. \A x \in Messages : Alive(x)' => Alive(x)
      BY <2>3, <2>4, <2>6 DEF Alive, Publishing, Pub
    <2>8. \A n \in Notifs : Posted(n)' <=> Posted(n)
      <3>1. place'[f.msg] # "none"
        BY <2>1, <2>2 DEF IInv, Shape, BrokerTypeOK
      <3>2. \A n \in Notifs : Posted(n) => Posted(n)'
        BY <2>6, <3>1, CopyFacts DEF Posted
      <3>3. \A n \in Notifs : n # f.msg[1] /\ Posted(n)' => Posted(n)
        BY <2>6, CopyFacts DEF Posted
      <3> QED
        BY <2>5, <3>2, <3>3
    <2> QED
      BY <2>1, <2>7, <2>8, Troubled, CopyFacts DEF Waiting
  <1>8. ASSUME NEW w \in Workers, LoseConnection(w) \/ Restart(w) PROVE Tasks!Next
    <2>1. PICK s \in {"down", "lost"} : Disconnect(w, s)
      BY <1>8 DEF LoseConnection, Restart
    <2>2. sent' = sent /\ cut \subseteq cut'
      BY <1>8 DEF LoseConnection, Restart, Broken
    <2>3. \A x \in Messages : place'[x] = IF place[x] = w THEN "ready" ELSE place[x]
      BY <2>1 DEF Disconnect
    <2>4. \A n \in Notifs : Posted(n)' <=> Posted(n)
      BY <2>3, CopyFacts, NotificationsAssumption DEF Posted
    <2>5. \A v \in Workers : wire'[v] \subseteq wire[v]
      BY <2>1 DEF Disconnect, IInv, Shape, BrokerTypeOK
    <2>6. \A x \in Messages : Alive(x)' => Alive(x)
      BY <2>3, <2>5 DEF Alive, Publishing
    <2> QED
      BY <2>2, <2>4, <2>6, Troubled, CopyFacts DEF Waiting
  <1>9. CASE UNCHANGED vars
    BY <1>9, Stutters DEF vars, brokerVars, historyVars, Posted, Waiting, Alive, Publishing
  <1> QED
    BY <1>1, <1>2, <1>3, <1>4, <1>5, <1>6, <1>7, <1>8, <1>9 DEF Next

\* The notification worker keeps the promise of a task queue: every behaviour
\* of it is one of TaskQueue, where only what was cut off is ever lost.
THEOREM NotificationsKeepThePromise == Spec => ImplementsTasks
  <1>1. Init => Tasks!Init
    BY TasksInit
  <1>2. IInv /\ IInv' /\ [Next]_vars => [Tasks!Next]_Tasks!vars
    BY TasksStep
  <1> QED
    BY <1>1, <1>2, Invariant, PTL DEF Spec, ImplementsTasks, Tasks!Spec

=============================================================================
