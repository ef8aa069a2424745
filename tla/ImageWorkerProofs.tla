------------------------- MODULE ImageWorkerProofs -------------------------
(***************************************************************************)
(* The image worker counts its jobs and loses none of them without an      *)
(* excuse, for any number of jobs, workers, breaks and stops: every        *)
(* frame on a wire is about a job that its worker holds and is done with.  *)
(***************************************************************************)
EXTENDS ImageWorker, FiniteSetTheorems, TLAPS

Ack(j) == [kind |-> "ack", msg |-> j]
Pub(j) == [kind |-> "publish", msg |-> j]
Req(j) == [kind |-> "requeue", msg |-> j]

\* The jobs that need no further attention.
Settled == results \cup turnedAway \cup dropped

\* A worker answers the broker once about a job, over a live connection, when
\* it holds the job and no longer processes it; what it acknowledges is settled.
WireAt(w, j) ==
    /\ Pub(j) \notin wire[w]
    /\ Ack(j) \in wire[w] => /\ place[j] = w /\ j \notin working[w]
                             /\ Req(j) \notin wire[w]
                             /\ j \in Settled
    /\ Req(j) \in wire[w] => place[j] = w /\ j \notin working[w]

WireOK ==
    \A w \in Workers :
        /\ wire[w] # {} => link[w] = "up"
        /\ \A j \in Jobs : WireAt(w, j)

\* Jobs are held over live connections, and what is processed over one is held;
\* a process that is down processes nothing.
HeldOK ==
    \A w \in Workers, j \in Jobs :
        /\ place[j] = w => link[w] = "up"
        /\ j \in working[w] =>
              /\ link[w] # "down"
              /\ link[w] = "up" => place[j] = w

CountOK ==
    \A w \in Workers :
        /\ activeJobs[w] = Cardinality(working[w])
        /\ activeJobs[w] <= MAX_CONCURRENT_JOBS

\* What left the queue is settled, and what is settled was posted.
SettledOK ==
    \A j \in Jobs :
        /\ place[j] = "gone" => j \in Settled
        /\ j \in Settled => place[j] # "none"

IInv == TypeOK /\ WireOK /\ HeldOK /\ CountOK /\ SettledOK

-----------------------------------------------------------------------------
(* Lemmas *)

LEMMA FrameFacts ==
  /\ \A j \in Jobs : Ack(j) \in Frames /\ Req(j) \in Frames
  /\ \A f \in Frames :
        /\ f.msg \in Jobs
        /\ f = Ack(f.msg) \/ f = Pub(f.msg) \/ f = Req(f.msg)
        /\ f = Ack(f.msg) => f.kind = "ack"
        /\ f = Req(f.msg) => f.kind = "requeue"
  BY DEF Frames, Ack, Pub, Req, Jobs

LEMMA FramesDiffer ==
  \A i \in Jobs, j \in Jobs :
      /\ Ack(i) = Ack(j) => i = j
      /\ Req(i) = Req(j) => i = j
      /\ Ack(i) # Req(j) /\ Pub(i) # Ack(j) /\ Pub(i) # Req(j)
  BY DEF Ack, Pub, Req

\* Names of places are not workers.
LEMMA PlaceFacts == "none" \notin Workers /\ "ready" \notin Workers /\ "gone" \notin Workers
  BY ImageWorkerAssumption

LEMMA InitInv == Init => IInv
  <1> SUFFICES ASSUME Init PROVE IInv
    OBVIOUS
  <1>1. TypeOK
    BY ImageWorkerAssumption DEF Init, TypeOK, BrokerTypeOK, Jobs
  <1>2. WireOK /\ HeldOK /\ SettledOK
    BY PlaceFacts DEF Init, WireOK, WireAt, HeldOK, SettledOK, Settled, Jobs
  <1>3. CountOK
    BY FS_EmptySet, ImageWorkerAssumption DEF Init, CountOK
  <1> QED
    BY <1>1, <1>2, <1>3 DEF IInv

\* What a frame says of its job.
LEMMA AckHeld ==
  ASSUME IInv
  PROVE  \A w \in Workers, j \in Jobs :
            Ack(j) \in wire[w] =>
                /\ place[j] = w /\ j \notin working[w] /\ Req(j) \notin wire[w]
                /\ j \in Settled /\ link[w] = "up"
  BY DEF IInv, WireOK, WireAt

LEMMA ReqHeld ==
  ASSUME IInv
  PROVE  \A w \in Workers, j \in Jobs :
            Req(j) \in wire[w] =>
                place[j] = w /\ j \notin working[w] /\ Ack(j) \notin wire[w] /\ link[w] = "up"
  BY DEF IInv, WireOK, WireAt

LEMMA WorkingFinite == IInv => \A w \in Workers : IsFiniteSet(working[w])
  <1> SUFFICES ASSUME IInv, NEW w \in Workers PROVE IsFiniteSet(working[w])
    OBVIOUS
  <1>1. working[w] \in SUBSET Messages
    BY DEF IInv, TypeOK, Jobs
  <1> QED
    BY <1>1, FS_Subset, ImageWorkerAssumption

\* A job that is delivered is on nobody's wire and is not being processed by
\* its receiver.
LEMMA DeliverFacts ==
  ASSUME IInv, NEW w \in Workers, NEW j \in Jobs, Deliver(w, j)
  PROVE  /\ link[w] = "up" /\ place[j] = "ready" /\ j \notin working[w]
         /\ \A v \in Workers : Ack(j) \notin wire[v] /\ Req(j) \notin wire[v]
         /\ \A i \in Jobs : place'[i] = IF i = j THEN w ELSE place[i]
         /\ place' \in [Messages -> {"none", "ready", "gone"} \cup Workers]
  <1>1. link[w] = "up" /\ place[j] = "ready" /\ place' = [place EXCEPT ![j] = w]
    BY DEF Deliver
  <1>2. \A i \in Jobs : place'[i] = IF i = j THEN w ELSE place[i]
    BY <1>1 DEF IInv, TypeOK, BrokerTypeOK, Jobs
  <1>3. place' \in [Messages -> {"none", "ready", "gone"} \cup Workers]
    BY <1>1 DEF IInv, TypeOK, BrokerTypeOK
  <1>4. j \notin working[w]
    BY <1>1, PlaceFacts DEF IInv, HeldOK
  <1>5. \A v \in Workers : Ack(j) \notin wire[v] /\ Req(j) \notin wire[v]
    BY <1>1, PlaceFacts, AckHeld, ReqHeld
  <1> QED
    BY <1>1, <1>2, <1>3, <1>4, <1>5

\* Writing a frame.
LEMMA AckWrites ==
  ASSUME IInv, NEW w \in Workers, NEW j \in Jobs, wire' = Write(w, "ack", j)
  PROVE  /\ wire' \in [Workers -> SUBSET Frames]
         /\ \A v \in Workers : v # w => wire'[v] = wire[v]
         /\ \A v \in Workers, i \in Jobs :
               /\ Pub(i) \notin wire'[v]
               /\ Ack(i) \in wire'[v] <=> Ack(i) \in wire[v] \/ (v = w /\ i = j)
               /\ Req(i) \in wire'[v] <=> Req(i) \in wire[v]
  <1>1. wire' = [wire EXCEPT ![w] = @ \cup {Ack(j)}]
    BY DEF Write, Ack
  <1>2. wire' \in [Workers -> SUBSET Frames]
    BY <1>1, FrameFacts DEF IInv, TypeOK, BrokerTypeOK
  <1>3. \A v \in Workers : wire'[v] = IF v = w THEN wire[v] \cup {Ack(j)} ELSE wire[v]
    BY <1>1 DEF IInv, TypeOK, BrokerTypeOK
  <1>4. \A v \in Workers, i \in Jobs : Pub(i) \notin wire[v]
    BY DEF IInv, WireOK, WireAt
  <1> QED
    BY <1>2, <1>3, <1>4, FramesDiffer

LEMMA ReqWrites ==
  ASSUME IInv, NEW w \in Workers, NEW j \in Jobs, wire' = Write(w, "requeue", j)
  PROVE  /\ wire' \in [Workers -> SUBSET Frames]
         /\ \A v \in Workers : v # w => wire'[v] = wire[v]
         /\ \A v \in Workers, i \in Jobs :
               /\ Pub(i) \notin wire'[v]
               /\ Ack(i) \in wire'[v] <=> Ack(i) \in wire[v]
               /\ Req(i) \in wire'[v] <=> Req(i) \in wire[v] \/ (v = w /\ i = j)
  <1>1. wire' = [wire EXCEPT ![w] = @ \cup {Req(j)}]
    BY DEF Write, Req
  <1>2. wire' \in [Workers -> SUBSET Frames]
    BY <1>1, FrameFacts DEF IInv, TypeOK, BrokerTypeOK
  <1>3. \A v \in Workers : wire'[v] = IF v = w THEN wire[v] \cup {Req(j)} ELSE wire[v]
    BY <1>1 DEF IInv, TypeOK, BrokerTypeOK
  <1>4. \A v \in Workers, i \in Jobs : Pub(i) \notin wire[v]
    BY DEF IInv, WireOK, WireAt
  <1> QED
    BY <1>2, <1>3, <1>4, FramesDiffer

LEMMA PostInv == ASSUME IInv, NEW j \in Jobs, Post(j) PROVE IInv'
  <1>1. place[j] = "none" /\ place' = [place EXCEPT ![j] = "ready"]
    BY DEF Post
  <1>2. UNCHANGED <<wire, link, working, activeJobs, channel, closing, results,
                    turnedAway, dropped, breaks>>
    BY DEF Post, workerVars, historyVars
  <1>3. \A i \in Jobs : place'[i] = IF i = j THEN "ready" ELSE place[i]
    BY <1>1 DEF IInv, TypeOK, BrokerTypeOK, Jobs
  <1>4. TypeOK'
    BY <1>1, <1>2 DEF IInv, TypeOK, BrokerTypeOK
  <1>5. \A w \in Workers : Ack(j) \notin wire[w] /\ Req(j) \notin wire[w]
    BY <1>1, PlaceFacts, AckHeld, ReqHeld
  <1>6. WireOK'
    BY <1>2, <1>3, <1>5 DEF IInv, WireOK, WireAt, Settled
  <1>7. HeldOK'
    BY <1>1, <1>2, <1>3, PlaceFacts DEF IInv, HeldOK
  <1>8. CountOK' /\ SettledOK'
    BY <1>1, <1>2, <1>3 DEF IInv, CountOK, SettledOK, Settled
  <1> QED
    BY <1>4, <1>6, <1>7, <1>8 DEF IInv

LEMMA StartInv == ASSUME IInv, NEW w \in Workers, Start(w) PROVE IInv'
  <1>1. link[w] = "down" /\ link' = [link EXCEPT ![w] = "up"]
    BY DEF Start, Connect
  <1>2. /\ channel' = [channel EXCEPT ![w] = "open"]
        /\ UNCHANGED <<place, wire, working, activeJobs, closing, results,
                       turnedAway, dropped, breaks>>
    BY DEF Start, Connect, historyVars
  <1>3. \A v \in Workers : link'[v] = IF v = w THEN "up" ELSE link[v]
    BY <1>1 DEF IInv, TypeOK, BrokerTypeOK
  <1>4. TypeOK'
    BY <1>1, <1>2 DEF IInv, TypeOK, BrokerTypeOK
  <1>5. WireOK'
    BY <1>2, <1>3 DEF IInv, WireOK, WireAt, Settled
  <1>6. HeldOK'
    BY <1>1, <1>2, <1>3 DEF IInv, HeldOK
  <1>7. CountOK' /\ SettledOK'
    BY <1>2 DEF IInv, CountOK, SettledOK, Settled
  <1> QED
    BY <1>4, <1>5, <1>6, <1>7 DEF IInv

LEMMA TakeInv == ASSUME IInv, NEW w \in Workers, NEW j \in Jobs, Take(w, j) PROVE IInv'
  <1>1. /\ Deliver(w, j) /\ j \notin Malformed /\ activeJobs[w] < MAX_CONCURRENT_JOBS
        /\ working' = [working EXCEPT ![w] = @ \cup {j}]
        /\ activeJobs' = [activeJobs EXCEPT ![w] = @ + 1]
        /\ UNCHANGED <<wire, link, channel, closing, results, turnedAway, dropped, breaks>>
    BY DEF Take, historyVars
  <1>2. /\ link[w] = "up" /\ place[j] = "ready" /\ j \notin working[w]
        /\ \A v \in Workers : Ack(j) \notin wire[v] /\ Req(j) \notin wire[v]
        /\ \A i \in Jobs : place'[i] = IF i = j THEN w ELSE place[i]
        /\ place' \in [Messages -> {"none", "ready", "gone"} \cup Workers]
    BY <1>1, DeliverFacts
  <1>3. \A v \in Workers :
          /\ working'[v] = IF v = w THEN working[v] \cup {j} ELSE working[v]
          /\ activeJobs'[v] = IF v = w THEN activeJobs[v] + 1 ELSE activeJobs[v]
    BY <1>1 DEF IInv, TypeOK
  <1>4. TypeOK'
    <2>1. /\ working' \in [Workers -> SUBSET (Jobs \ Malformed)]
          /\ activeJobs' \in [Workers -> Nat]
      BY <1>1 DEF IInv, TypeOK
    <2> QED
      BY <1>1, <1>2, <2>1 DEF IInv, TypeOK, BrokerTypeOK
  <1>5. WireOK'
    BY <1>1, <1>2, <1>3 DEF IInv, WireOK, WireAt, Settled
  <1>6. HeldOK'
    BY <1>1, <1>2, <1>3, PlaceFacts DEF IInv, HeldOK
  <1>7. CountOK'
    <2>1. Cardinality(working[w] \cup {j}) = Cardinality(working[w]) + 1
      BY <1>2, WorkingFinite, FS_AddElement
    <2>2. activeJobs[w] + 1 <= MAX_CONCURRENT_JOBS
      BY <1>1, ImageWorkerAssumption DEF IInv, TypeOK
    <2> QED
      BY <1>3, <2>1, <2>2 DEF IInv, CountOK
  <1>8. SettledOK'
    BY <1>1, <1>2, PlaceFacts DEF IInv, SettledOK, Settled
  <1> QED
    BY <1>4, <1>5, <1>6, <1>7, <1>8 DEF IInv

LEMMA TakeMalformedInv ==
  ASSUME IInv, NEW w \in Workers, NEW j \in Jobs, TakeMalformed(w, j)
  PROVE  IInv'
  <1>1. /\ Deliver(w, j) /\ wire' = Write(w, "requeue", j)
        /\ UNCHANGED <<link, working, activeJobs, channel, closing, results,
                       turnedAway, dropped, breaks>>
    BY DEF TakeMalformed, workerVars, historyVars
  <1>2. /\ link[w] = "up" /\ place[j] = "ready" /\ j \notin working[w]
        /\ \A v \in Workers : Ack(j) \notin wire[v] /\ Req(j) \notin wire[v]
        /\ \A i \in Jobs : place'[i] = IF i = j THEN w ELSE place[i]
        /\ place' \in [Messages -> {"none", "ready", "gone"} \cup Workers]
    BY <1>1, DeliverFacts
  <1>3. /\ wire' \in [Workers -> SUBSET Frames]
        /\ \A v \in Workers : v # w => wire'[v] = wire[v]
        /\ \A v \in Workers, i \in Jobs :
              /\ Pub(i) \notin wire'[v]
              /\ Ack(i) \in wire'[v] <=> Ack(i) \in wire[v]
              /\ Req(i) \in wire'[v] <=> Req(i) \in wire[v] \/ (v = w /\ i = j)
    BY <1>1, ReqWrites
  <1>4. TypeOK'
    BY <1>1, <1>2, <1>3 DEF IInv, TypeOK, BrokerTypeOK
  <1>5. WireOK'
    BY <1>1, <1>2, <1>3 DEF IInv, WireOK, WireAt, Settled
  <1>6. HeldOK'
    BY <1>1, <1>2, PlaceFacts DEF IInv, HeldOK
  <1>7. CountOK' /\ SettledOK'
    BY <1>1, <1>2, PlaceFacts DEF IInv, CountOK, SettledOK, Settled
  <1> QED
    BY <1>4, <1>5, <1>6, <1>7 DEF IInv

LEMMA TurnAwayInv ==
  ASSUME IInv, NEW w \in Workers, NEW j \in Jobs, TurnAway(w, j)
  PROVE  IInv'
  <1>1. /\ Deliver(w, j)
        /\ UNCHANGED <<link, working, activeJobs, closing, results, dropped, breaks>>
    BY DEF TurnAway
  <1>2. /\ link[w] = "up" /\ place[j] = "ready" /\ j \notin working[w]
        /\ \A v \in Workers : Ack(j) \notin wire[v] /\ Req(j) \notin wire[v]
        /\ \A i \in Jobs : place'[i] = IF i = j THEN w ELSE place[i]
        /\ place' \in [Messages -> {"none", "ready", "gone"} \cup Workers]
    BY <1>1, DeliverFacts
  <1>3. HeldOK'
    BY <1>1, <1>2, PlaceFacts DEF IInv, HeldOK
  <1>4. CountOK'
    BY <1>1 DEF IInv, CountOK
  <1>5. CASE /\ channel' = [channel EXCEPT ![w] = "failing"] \/ UNCHANGED channel
             /\ wire' = Write(w, "ack", j)
             /\ turnedAway' = turnedAway \cup {j}
    <2>1. /\ wire' \in [Workers -> SUBSET Frames]
          /\ \A v \in Workers : v # w => wire'[v] = wire[v]
          /\ \A v \in Workers, i \in Jobs :
                /\ Pub(i) \notin wire'[v]
                /\ Ack(i) \in wire'[v] <=> Ack(i) \in wire[v] \/ (v = w /\ i = j)
                /\ Req(i) \in wire'[v] <=> Req(i) \in wire[v]
      BY <1>5, AckWrites
    <2>2. TypeOK'
      BY <1>1, <1>2, <1>5, <2>1 DEF IInv, TypeOK, BrokerTypeOK
    <2>3. Settled' = Settled \cup {j}
      BY <1>1, <1>5 DEF Settled
    <2>4. WireOK'
      BY <1>1, <1>2, <2>1, <2>3 DEF IInv, WireOK, WireAt
    <2>5. SettledOK'
      BY <1>2, <2>3, PlaceFacts DEF IInv, SettledOK
    <2> QED
      BY <1>3, <1>4, <2>2, <2>4, <2>5 DEF IInv
  <1>6. CASE wire' = Write(w, "requeue", j) /\ UNCHANGED <<channel, turnedAway>>
    <2>1. /\ wire' \in [Workers -> SUBSET Frames]
          /\ \A v \in Workers : v # w => wire'[v] = wire[v]
          /\ \A v \in Workers, i \in Jobs :
                /\ Pub(i) \notin wire'[v]
                /\ Ack(i) \in wire'[v] <=> Ack(i) \in wire[v]
                /\ Req(i) \in wire'[v] <=> Req(i) \in wire[v] \/ (v = w /\ i = j)
      BY <1>6, ReqWrites
    <2>2. TypeOK'
      BY <1>1, <1>2, <1>6, <2>1 DEF IInv, TypeOK, BrokerTypeOK
    <2>3. Settled' = Settled
      BY <1>1, <1>6 DEF Settled
    <2>4. WireOK'
      BY <1>1, <1>2, <2>1, <2>3 DEF IInv, WireOK, WireAt
    <2>5. SettledOK'
      BY <1>2, <2>3, PlaceFacts DEF IInv, SettledOK
    <2> QED
      BY <1>3, <1>4, <2>2, <2>4, <2>5 DEF IInv
  <1> QED
    BY <1>5, <1>6 DEF TurnAway

LEMMA FinishInv ==
  ASSUME IInv, NEW w \in Workers, NEW j \in Jobs, Finish(w, j)
  PROVE  IInv'
  <1>0. wire' = Write(w, "ack", j)
    BY DEF Finish
  <1>1. /\ j \in working[w] /\ link[w] = "up"
        /\ working' = [working EXCEPT ![w] = @ \ {j}]
        /\ activeJobs' = [activeJobs EXCEPT ![w] = @ - 1]
        /\ \/ results' = results \cup {j} /\ UNCHANGED dropped
           \/ dropped' = dropped \cup {j} /\ UNCHANGED results
        /\ UNCHANGED <<place, link, channel, closing, turnedAway, breaks>>
    BY DEF Finish
  <1>2. place[j] = w /\ j \in Jobs \ Malformed
    BY <1>1 DEF IInv, HeldOK, TypeOK
  <1>3. \A v \in Workers :
          /\ working'[v] = IF v = w THEN working[v] \ {j} ELSE working[v]
          /\ activeJobs'[v] = IF v = w THEN activeJobs[v] - 1 ELSE activeJobs[v]
    BY <1>1 DEF IInv, TypeOK
  <1>4. /\ wire' \in [Workers -> SUBSET Frames]
        /\ \A v \in Workers : v # w => wire'[v] = wire[v]
        /\ \A v \in Workers, i \in Jobs :
              /\ Pub(i) \notin wire'[v]
              /\ Ack(i) \in wire'[v] <=> Ack(i) \in wire[v] \/ (v = w /\ i = j)
              /\ Req(i) \in wire'[v] <=> Req(i) \in wire[v]
    BY <1>0, AckWrites
  <1>5. Settled' = Settled \cup {j}
    BY <1>1 DEF Settled
  <1>6. Ack(j) \notin wire[w] /\ Req(j) \notin wire[w]
    BY <1>1, AckHeld, ReqHeld
  <1>7. /\ Cardinality(working[w] \ {j}) = Cardinality(working[w]) - 1
        /\ activeJobs[w] - 1 \in Nat
    <2>1. IsFiniteSet(working[w]) /\ working[w] # {}
      BY <1>1, WorkingFinite
    <2>2. Cardinality(working[w]) # 0
      BY <2>1, FS_EmptySet
    <2>3. Cardinality(working[w] \ {j}) = Cardinality(working[w]) - 1
      BY <1>1, <2>1, FS_RemoveElement
    <2>4. activeJobs[w] \in Nat /\ activeJobs[w] = Cardinality(working[w])
      BY DEF IInv, CountOK, TypeOK
    <2> QED
      BY <2>2, <2>3, <2>4
  <1>8. TypeOK'
    <2>1. /\ working' \in [Workers -> SUBSET (Jobs \ Malformed)]
          /\ activeJobs' \in [Workers -> Nat]
      BY <1>1, <1>7 DEF IInv, TypeOK
    <2>2. results' \subseteq Jobs \ Malformed /\ dropped' \subseteq Jobs \ Malformed
      BY <1>1, <1>2 DEF IInv, TypeOK
    <2> QED
      BY <1>1, <1>4, <2>1, <2>2 DEF IInv, TypeOK, BrokerTypeOK
  <1>9. WireOK'
    <2>1. \A v \in Workers : wire'[v] # {} => link'[v] = "up"
      BY <1>1, <1>4 DEF IInv, WireOK
    <2>2. \A v \in Workers, i \in Jobs : WireAt(v, i)'
      BY <1>1, <1>2, <1>3, <1>4, <1>5, <1>6 DEF IInv, WireOK, WireAt
    <2> QED
      BY <2>1, <2>2 DEF WireOK, WireAt
  <1>10. HeldOK'
    BY <1>1, <1>3 DEF IInv, HeldOK
  <1>11. CountOK'
    <2>1. activeJobs[w] - 1 <= MAX_CONCURRENT_JOBS
      BY ImageWorkerAssumption DEF IInv, CountOK, TypeOK
    <2> QED
      BY <1>3, <1>7, <2>1 DEF IInv, CountOK
  <1>12. SettledOK'
    BY <1>1, <1>2, <1>5, PlaceFacts DEF IInv, SettledOK
  <1> QED
    BY <1>8, <1>9, <1>10, <1>11, <1>12 DEF IInv

LEMMA BrokerReadsInv ==
  ASSUME IInv, NEW w \in Workers, NEW f \in Frames, BrokerReads(w, f)
  PROVE  IInv'
  <1>1. /\ f \in wire[w] /\ wire' = [wire EXCEPT ![w] = @ \ {f}]
        /\ place' = [place EXCEPT ![f.msg] = IF f.kind = "ack" THEN "gone" ELSE "ready"]
        /\ UNCHANGED <<link, working, activeJobs, channel, closing, results,
                       turnedAway, dropped, breaks>>
    BY DEF BrokerReads, Read, workerVars, historyVars
  <1>2. PICK j \in Jobs : j = f.msg
    BY FrameFacts
  <1>3. \/ f = Ack(j) /\ f.kind = "ack" /\ Ack(j) \in wire[w]
        \/ f = Req(j) /\ f.kind = "requeue" /\ Req(j) \in wire[w]
    <2>1. f # Pub(j)
      BY <1>1 DEF IInv, WireOK, WireAt
    <2> QED
      BY <1>1, <1>2, <2>1, FrameFacts
  <1>4. place[j] = w /\ j \notin working[w] /\ ~(Ack(j) \in wire[w] /\ Req(j) \in wire[w])
    BY <1>3, AckHeld, ReqHeld
  <1>5. \A v \in Workers : wire'[v] = IF v = w THEN wire[v] \ {f} ELSE wire[v]
    BY <1>1 DEF IInv, TypeOK, BrokerTypeOK
  <1>6. \A i \in Jobs :
          place'[i] = IF i = j THEN (IF f.kind = "ack" THEN "gone" ELSE "ready") ELSE place[i]
    BY <1>1, <1>2 DEF IInv, TypeOK, BrokerTypeOK, Jobs
  <1>7. \A v \in Workers : Ack(j) \notin wire'[v] /\ Req(j) \notin wire'[v]
    <2>1. \A v \in Workers : v # w => Ack(j) \notin wire[v] /\ Req(j) \notin wire[v]
      BY <1>4, AckHeld, ReqHeld
    <2> QED
      BY <1>3, <1>4, <1>5, <2>1
  <1>8. TypeOK'
    <2>1. place' \in [Messages -> {"none", "ready", "gone"} \cup Workers]
      BY <1>1 DEF IInv, TypeOK, BrokerTypeOK
    <2>2. wire' \in [Workers -> SUBSET Frames]
      BY <1>1 DEF IInv, TypeOK, BrokerTypeOK
    <2> QED
      BY <1>1, <2>1, <2>2 DEF IInv, TypeOK, BrokerTypeOK
  <1>9. WireOK'
    <2>1. \A v \in Workers : wire'[v] \subseteq wire[v]
      BY <1>5
    <2>2. \A v \in Workers, i \in Jobs : i # j => WireAt(v, i)'
      BY <1>1, <1>6, <2>1 DEF IInv, WireOK, WireAt, Settled
    <2>3. \A v \in Workers : WireAt(v, j)'
      BY <1>7, <2>1 DEF IInv, WireOK, WireAt
    <2> QED
      BY <1>1, <2>1, <2>2, <2>3 DEF IInv, WireOK, WireAt
  <1>10. HeldOK'
    BY <1>1, <1>4, <1>6, PlaceFacts DEF IInv, HeldOK
  <1>11. CountOK'
    BY <1>1 DEF IInv, CountOK
  <1>12. SettledOK'
    <2>1. f.kind = "ack" => j \in Settled
      BY <1>3, AckHeld
    <2> QED
      BY <1>1, <1>6, <2>1 DEF IInv, SettledOK, Settled
  <1> QED
    BY <1>8, <1>9, <1>10, <1>11, <1>12 DEF IInv

\* The end of a connection: what the broker and the workers see of it.
LEMMA DisconnectFacts ==
  ASSUME IInv, NEW w \in Workers, NEW s \in {"down", "lost"}, Disconnect(w, s)
  PROVE  /\ BrokerTypeOK'
         /\ \A v \in Workers : /\ wire'[v] = IF v = w THEN {} ELSE wire[v]
                               /\ link'[v] = IF v = w THEN s ELSE link[v]
         /\ \A j \in Jobs : place'[j] = IF place[j] = w THEN "ready" ELSE place[j]
  <1>1. \A v \in Workers : /\ wire'[v] = IF v = w THEN {} ELSE wire[v]
                           /\ link'[v] = IF v = w THEN s ELSE link[v]
    BY DEF Disconnect, IInv, TypeOK, BrokerTypeOK
  <1>2. \A j \in Jobs : place'[j] = IF place[j] = w THEN "ready" ELSE place[j]
    BY DEF Disconnect, Jobs
  <1>3. place' \in [Messages -> {"none", "ready", "gone"} \cup Workers]
    BY DEF Disconnect, IInv, TypeOK, BrokerTypeOK
  <1>4. wire' \in [Workers -> SUBSET Frames] /\ link' \in [Workers -> {"down", "up", "lost"}]
    BY DEF Disconnect, IInv, TypeOK, BrokerTypeOK
  <1> QED
    BY <1>1, <1>2, <1>3, <1>4 DEF BrokerTypeOK

\* A connection ends, and what its worker was processing goes on or is gone.
LEMMA DisconnectInv ==
  ASSUME IInv, NEW w \in Workers, NEW s \in {"down", "lost"}, Disconnect(w, s),
         \A v \in Workers : v # w => working'[v] = working[v],
         working'[w] = {} \/ (s = "lost" /\ working'[w] = working[w]),
         UNCHANGED <<results, turnedAway, dropped>>
  PROVE  WireOK' /\ HeldOK' /\ SettledOK'
  <1>1. /\ \A v \in Workers : /\ wire'[v] = IF v = w THEN {} ELSE wire[v]
                              /\ link'[v] = IF v = w THEN s ELSE link[v]
        /\ \A j \in Jobs : place'[j] = IF place[j] = w THEN "ready" ELSE place[j]
    BY DisconnectFacts
  <1>2. Settled' = Settled
    BY DEF Settled
  <1>3. WireOK'
    <2>1. \A v \in Workers : wire'[v] # {} => v # w /\ link'[v] = "up"
      BY <1>1 DEF IInv, WireOK
    <2>2. \A j \in Jobs : WireAt(w, j)'
      BY <1>1 DEF WireAt
    <2>3. \A v \in Workers, j \in Jobs : v # w => WireAt(v, j)'
      BY <1>1, <1>2 DEF IInv, WireOK, WireAt
    <2> QED
      BY <2>1, <2>2, <2>3 DEF WireOK, WireAt
  <1>4. HeldOK'
    BY <1>1, PlaceFacts DEF IInv, HeldOK
  <1>5. SettledOK'
    BY <1>1, <1>2, PlaceFacts DEF IInv, SettledOK
  <1> QED
    BY <1>3, <1>4, <1>5

LEMMA EndedInv ==
  ASSUME IInv, NEW w \in Workers, Ended(w), breaks' \in 0 .. MaxBreaks,
         UNCHANGED <<results, turnedAway, dropped>>
  PROVE  IInv'
  <1>1. /\ Disconnect(w, "down")
        /\ working' = [working EXCEPT ![w] = {}]
        /\ activeJobs' = [activeJobs EXCEPT ![w] = 0]
        /\ channel' = [channel EXCEPT ![w] = "none"]
        /\ closing' = [closing EXCEPT ![w] = FALSE]
    BY DEF Ended
  <1>2. \A v \in Workers : /\ working'[v] = IF v = w THEN {} ELSE working[v]
                           /\ activeJobs'[v] = IF v = w THEN 0 ELSE activeJobs[v]
    BY <1>1 DEF IInv, TypeOK
  <1>3. TypeOK'
    <2>1. BrokerTypeOK'
      BY <1>1, DisconnectFacts
    <2>2. /\ working' \in [Workers -> SUBSET (Jobs \ Malformed)]
          /\ activeJobs' \in [Workers -> Nat]
          /\ channel' \in [Workers -> {"none", "open", "failing"}]
          /\ closing' \in [Workers -> BOOLEAN]
      BY <1>1 DEF IInv, TypeOK
    <2> QED
      BY <2>1, <2>2 DEF IInv, TypeOK
  <1>4. WireOK' /\ HeldOK' /\ SettledOK'
    BY <1>1, <1>2, DisconnectInv
  <1>5. CountOK'
    BY <1>2, FS_EmptySet, ImageWorkerAssumption DEF IInv, CountOK
  <1> QED
    BY <1>3, <1>4, <1>5 DEF IInv

LEMMA LoseConnectionInv ==
  ASSUME IInv, NEW w \in Workers, LoseConnection(w)
  PROVE  IInv'
  <1>1. /\ breaks < MaxBreaks /\ breaks' = breaks + 1 /\ Disconnect(w, "lost")
        /\ UNCHANGED <<working, activeJobs, channel, closing, results, turnedAway, dropped>>
    BY DEF LoseConnection, workerVars
  <1>2. TypeOK'
    <2>1. BrokerTypeOK'
      BY <1>1, DisconnectFacts
    <2>2. breaks' \in 0 .. MaxBreaks
      BY <1>1, ImageWorkerAssumption DEF IInv, TypeOK
    <2> QED
      BY <1>1, <2>1, <2>2 DEF IInv, TypeOK
  <1>3. WireOK' /\ HeldOK' /\ SettledOK'
    BY <1>1, DisconnectInv
  <1>4. CountOK'
    BY <1>1 DEF IInv, CountOK
  <1> QED
    BY <1>2, <1>3, <1>4 DEF IInv

LEMMA BreaksBounded ==
  ASSUME IInv, breaks' = breaks \/ (breaks < MaxBreaks /\ breaks' = breaks + 1)
  PROVE  breaks' \in 0 .. MaxBreaks
  BY ImageWorkerAssumption DEF IInv, TypeOK

\* A step that changes neither places, wires nor jobs.
LEMMA QuietInv ==
  ASSUME IInv, TypeOK',
         UNCHANGED <<place, wire, link, working, activeJobs, results, turnedAway, dropped>>
  PROVE  IInv'
  <1>1. WireOK' /\ HeldOK'
    BY DEF IInv, WireOK, WireAt, HeldOK, Settled
  <1>2. CountOK' /\ SettledOK'
    BY DEF IInv, CountOK, SettledOK, Settled
  <1> QED
    BY <1>1, <1>2 DEF IInv

LEMMA NextInv == IInv /\ [Next]_vars => IInv'
  <1> SUFFICES ASSUME IInv, [Next]_vars PROVE IInv'
    OBVIOUS
  <1>1. ASSUME NEW w \in Workers, ChannelCloses(w) PROVE IInv'
    <2>1. CASE /\ Disconnect(w, "lost")
               /\ channel' = [channel EXCEPT ![w] = "none"]
               /\ UNCHANGED <<working, activeJobs, closing>>
      <3>1. UNCHANGED <<results, turnedAway, dropped, breaks>>
        BY <1>1 DEF ChannelCloses, historyVars
      <3>2. TypeOK'
        <4>1. BrokerTypeOK'
          BY <2>1, DisconnectFacts
        <4>2. channel' \in [Workers -> {"none", "open", "failing"}]
          BY <2>1 DEF IInv, TypeOK
        <4> QED
          BY <2>1, <3>1, <4>1, <4>2 DEF IInv, TypeOK
      <3>3. WireOK' /\ HeldOK' /\ SettledOK'
        BY <2>1, <3>1, DisconnectInv
      <3>4. CountOK'
        BY <2>1 DEF IInv, CountOK
      <3> QED
        BY <3>2, <3>3, <3>4 DEF IInv
    <2>2. CASE Ended(w)
      <3>1. UNCHANGED <<results, turnedAway, dropped, breaks>>
        BY <1>1 DEF ChannelCloses, historyVars
      <3> QED
        BY <2>2, <3>1, BreaksBounded, EndedInv
    <2> QED
      BY <1>1, <2>1, <2>2 DEF ChannelCloses
  <1>2. ASSUME NEW w \in Workers, Signal(w) PROVE IInv'
    <2>1. /\ breaks < MaxBreaks /\ breaks' = breaks + 1
          /\ closing' = [closing EXCEPT ![w] = TRUE]
          /\ UNCHANGED <<place, wire, link, working, activeJobs, channel, results,
                         turnedAway, dropped>>
      BY <1>2 DEF Signal, brokerVars
    <2>2. breaks' \in 0 .. MaxBreaks
      BY <2>1, BreaksBounded
    <2>3. TypeOK'
      BY <2>1, <2>2 DEF IInv, TypeOK, BrokerTypeOK
    <2> QED
      BY <2>1, <2>3, QuietInv
  <1>3. ASSUME NEW w \in Workers, Exit(w) PROVE IInv'
    <2>1. Ended(w) /\ UNCHANGED <<results, turnedAway, dropped, breaks>>
      BY <1>3 DEF Exit
    <2> QED
      BY <2>1, BreaksBounded, EndedInv
  <1>4. ASSUME NEW w \in Workers, Crash(w) PROVE IInv'
    <2>1. /\ Ended(w) /\ UNCHANGED <<results, turnedAway, dropped>>
          /\ breaks' = breaks \/ (breaks < MaxBreaks /\ breaks' = breaks + 1)
      BY <1>4 DEF Crash
    <2> QED
      BY <2>1, BreaksBounded, EndedInv
  <1>5. CASE UNCHANGED vars
    <2>1. UNCHANGED <<place, wire, link, working, activeJobs, channel, closing, results,
                      turnedAway, dropped, breaks>>
      BY <1>5 DEF vars, brokerVars, workerVars, historyVars
    <2>2. TypeOK'
      BY <2>1 DEF IInv, TypeOK, BrokerTypeOK
    <2> QED
      BY <2>1, <2>2, QuietInv
  <1> QED
    BY <1>1, <1>2, <1>3, <1>4, <1>5, PostInv, StartInv, TakeInv, TakeMalformedInv, TurnAwayInv,
       FinishInv, BrokerReadsInv, LoseConnectionInv DEF Next

LEMMA Invariant == Spec => []IInv
  BY InitInv, NextInv, PTL DEF Spec

-----------------------------------------------------------------------------
(* Theorems *)

\* The variables keep their shape, for any number of jobs and workers: a
\* malformed job is never processed and has no result.
THEOREM ImageWorkerTypeCorrect == Spec => []TypeOK
  <1>1. IInv => TypeOK
    BY DEF IInv
  <1> QED
    BY <1>1, Invariant, PTL

\* activeJobs is exact and within MAX_CONCURRENT_JOBS on every path through the
\* consumer, and what is processed over a live connection is neither answered
\* for nor with anybody else.
THEOREM ActiveJobsAreExact == Spec => []ActiveJobsExact
  <1>1. ASSUME IInv, NEW w \in Workers, link[w] = "up", NEW j \in working[w]
        PROVE  j \in Unacked(w) /\ \A f \in wire[w] : f.msg # j
    <2>1. j \in Jobs /\ place[j] = w
      BY <1>1 DEF IInv, TypeOK, HeldOK
    <2>2. Ack(j) \notin wire[w] /\ Req(j) \notin wire[w] /\ Pub(j) \notin wire[w]
      BY <1>1, <2>1 DEF IInv, WireOK, WireAt
    <2>3. wire[w] \subseteq Frames
      BY <1>1 DEF IInv, TypeOK, BrokerTypeOK
    <2> QED
      BY <2>1, <2>2, <2>3, FrameFacts DEF Unacked, Jobs
  <1>2. IInv => ActiveJobsExact
    BY <1>1 DEF IInv, CountOK, ActiveJobsExact
  <1> QED
    BY <1>2, Invariant, PTL

-----------------------------------------------------------------------------
(* The refinement *)

\* Nothing is ever published through these wires: a job is in the queue or
\* with a worker, or it is not alive.
LEMMA AliveAt == IInv => \A j \in Jobs : Alive(j) <=> place[j] \notin {"none", "gone"}
  <1> SUFFICES ASSUME IInv, NEW j \in Jobs PROVE Alive(j) <=> place[j] \notin {"none", "gone"}
    OBVIOUS
  <1>1. \A w \in Workers : j \notin Publishing(w)
    BY DEF IInv, WireOK, WireAt, Publishing, Pub, Jobs
  <1>2. place[j] \in {"none", "ready", "gone"} \cup Workers
    BY DEF IInv, TypeOK, BrokerTypeOK, Jobs
  <1> QED
    BY <1>1, <1>2, PlaceFacts DEF Alive

LEMMA AliveAfter ==
  ASSUME IInv, IInv'
  PROVE  \A j \in Jobs : /\ Alive(j) <=> place[j] \notin {"none", "gone"}
                         /\ Alive(j)' <=> place'[j] \notin {"none", "gone"}
  <1>1. \A j \in Jobs : Alive(j) <=> place[j] \notin {"none", "gone"}
    BY AliveAt
  <1>2. (\A j \in Jobs : Alive(j) <=> place[j] \notin {"none", "gone"})'
    BY AliveAt, PTL
  <1> QED
    BY <1>1, <1>2

\* A step that changes none of what the promise speaks of.
LEMMA Stutters ==
  ASSUME IInv, IInv', UNCHANGED <<results, turnedAway, dropped>>,
         \A j \in Jobs : place'[j] = place[j]
                         \/ {place[j], place'[j]} \cap {"none", "gone"} = {}
  PROVE  UNCHANGED Tasks!vars
  <1>1. \A j \in Jobs : (Alive(j)' <=> Alive(j)) /\ (Posted(j)' <=> Posted(j))
    BY AliveAfter DEF Posted
  <1> QED
    BY <1>1 DEF Tasks!vars

\* A job is acknowledged without a result: the excuse comes before the loss.
LEMMA Excused ==
  ASSUME IInv, IInv', NEW j \in Jobs, UNCHANGED results,
         turnedAway' \cup dropped' = turnedAway \cup dropped \cup {j},
         \A i \in Jobs : place'[i] = place[i]
                         \/ {place[i], place'[i]} \cap {"none", "gone"} = {}
  PROVE  Tasks!Next
  <1>1. \A i \in Jobs : (Alive(i)' <=> Alive(i)) /\ (Posted(i)' <=> Posted(i))
    BY AliveAfter DEF Posted
  <1>2. Tasks!Trouble({j})
    <2>1. {} \in SUBSET ((turnedAway \cup dropped)')
      OBVIOUS
    <2> QED
      BY <1>1, <2>1 DEF Tasks!Trouble
  <1> QED
    BY <1>2 DEF Tasks!Next

LEMMA TasksInit == Init => Tasks!Init
  BY DEF Init, Posted, Tasks!Init

\* Every step is one of the promise, or changes nothing that it speaks of.
LEMMA TasksStep ==
  ASSUME IInv, IInv', [Next]_vars
  PROVE  Tasks!Next \/ UNCHANGED Tasks!vars
  <1>1. ASSUME NEW j \in Jobs, Post(j) PROVE Tasks!Next
    <2>1. /\ place[j] = "none" /\ place' = [place EXCEPT ![j] = "ready"]
          /\ UNCHANGED <<results, turnedAway, dropped>>
      BY <1>1 DEF Post, historyVars
    <2>2. \A i \in Jobs : place'[i] = IF i = j THEN "ready" ELSE place[i]
      BY <2>1 DEF IInv, TypeOK, BrokerTypeOK, Jobs
    <2>3. j \notin results
      BY <2>1 DEF IInv, SettledOK, Settled
    <2>4. \A i \in Jobs \ {j} : (Alive(i)' <=> Alive(i)) /\ (Posted(i)' <=> Posted(i))
      BY <2>2, AliveAfter DEF Posted
    <2>5. ~Posted(j) /\ Posted(j)' /\ Alive(j)'
      BY <2>1, <2>2, AliveAfter DEF Posted
    <2>6. Tasks!Post(j)
      BY <2>1, <2>3, <2>4, <2>5 DEF Tasks!Post
    <2> QED
      BY <2>6 DEF Tasks!Next
  <1>2. ASSUME NEW w \in Workers, Start(w) \/ Signal(w)
        PROVE  UNCHANGED Tasks!vars
    <2>1. UNCHANGED <<place, results, turnedAway, dropped>>
      BY <1>2 DEF Start, Connect, Signal, brokerVars, historyVars
    <2> QED
      BY <2>1, Stutters
  <1>3. ASSUME NEW w \in Workers,
               Exit(w) \/ LoseConnection(w) \/ Crash(w) \/ ChannelCloses(w)
        PROVE  UNCHANGED Tasks!vars
    <2>1. PICK s \in {"down", "lost"} : Disconnect(w, s)
      BY <1>3 DEF Exit, LoseConnection, Crash, ChannelCloses, Ended
    <2>2. UNCHANGED <<results, turnedAway, dropped>>
      BY <1>3 DEF Exit, LoseConnection, Crash, ChannelCloses, historyVars
    <2>3. \A j \in Jobs : place'[j] = IF place[j] = w THEN "ready" ELSE place[j]
      BY <2>1, DisconnectFacts
    <2> QED
      BY <2>2, <2>3, PlaceFacts, Stutters
  <1>4. ASSUME NEW w \in Workers, NEW f \in Frames, BrokerReads(w, f)
        PROVE  Tasks!Next
    <2>1. /\ f \in wire[w]
          /\ place' = [place EXCEPT ![f.msg] = IF f.kind = "ack" THEN "gone" ELSE "ready"]
          /\ UNCHANGED <<results, turnedAway, dropped>>
      BY <1>4 DEF BrokerReads, Read, historyVars
    <2>2. PICK j \in Jobs : j = f.msg
      BY FrameFacts
    <2>3. /\ place[j] = w
          /\ f.kind = "ack" => j \in Settled
      <3>1. f # Pub(j)
        BY <2>1 DEF IInv, WireOK, WireAt
      <3>2. f = Ack(j) \/ (f = Req(j) /\ f.kind = "requeue")
        BY <2>2, <3>1, FrameFacts
      <3> QED
        BY <2>1, <3>2, AckHeld, ReqHeld
    <2>4. \A i \in Jobs :
            place'[i] = IF i = j THEN (IF f.kind = "ack" THEN "gone" ELSE "ready") ELSE place[i]
      BY <2>1, <2>2 DEF IInv, TypeOK, BrokerTypeOK, Jobs
    <2>5. \A i \in Jobs \ {j} : (Alive(i)' <=> Alive(i)) /\ (Posted(i)' <=> Posted(i))
      BY <2>4, AliveAfter DEF Posted
    <2>6. Alive(j) /\ Posted(j) /\ Posted(j)' /\ (Alive(j)' <=> f.kind # "ack")
      BY <2>3, <2>4, PlaceFacts, AliveAfter DEF Posted
    <2> DEFINE L == IF f.kind = "ack" /\ j \notin results THEN {j} ELSE {}
    <2>7. L \in SUBSET ((turnedAway \cup dropped)')
      BY <2>1, <2>3 DEF Settled
    <2>8. Tasks!Trouble({})
      BY <2>1, <2>5, <2>6, <2>7 DEF Tasks!Trouble
    <2> HIDE DEF L
    <2> QED
      BY <2>8 DEF Tasks!Next
  <1>5. ASSUME NEW w \in Workers, NEW j \in Jobs, Take(w, j) \/ TakeMalformed(w, j)
        PROVE  UNCHANGED Tasks!vars
    <2>1. Deliver(w, j) /\ UNCHANGED <<results, turnedAway, dropped>>
      BY <1>5 DEF Take, TakeMalformed, historyVars
    <2> QED
      BY <2>1, DeliverFacts, PlaceFacts, Stutters
  <1>6. ASSUME NEW w \in Workers, NEW j \in Jobs, TurnAway(w, j)
        PROVE  Tasks!Next \/ UNCHANGED Tasks!vars
    <2>1. /\ Deliver(w, j) /\ UNCHANGED <<results, dropped>>
          /\ turnedAway' = turnedAway \cup {j} \/ turnedAway' = turnedAway
      BY <1>6 DEF TurnAway
    <2>2. \A i \in Jobs : place'[i] = place[i] \/ {place[i], place'[i]} \cap {"none", "gone"} = {}
      BY <2>1, DeliverFacts, PlaceFacts
    <2> QED
      BY <2>1, <2>2, Stutters, Excused
  <1>7. ASSUME NEW w \in Workers, NEW j \in Jobs, Finish(w, j)
        PROVE  Tasks!Next \/ UNCHANGED Tasks!vars
    <2>1. /\ j \in working[w] /\ link[w] = "up" /\ UNCHANGED <<place, turnedAway>>
          /\ \/ results' = results \cup {j} /\ UNCHANGED dropped
             \/ dropped' = dropped \cup {j} /\ UNCHANGED results
      BY <1>7 DEF Finish
    <2>2. CASE dropped' = dropped \cup {j} /\ UNCHANGED results
      BY <2>1, <2>2, Excused
    <2>3. CASE results' = results \cup {j} /\ UNCHANGED dropped
      <3>1. place[j] = w
        BY <2>1 DEF IInv, HeldOK
      <3>2. \A i \in Jobs : (Alive(i)' <=> Alive(i)) /\ (Posted(i)' <=> Posted(i))
        BY <2>1, AliveAfter DEF Posted
      <3>3. Alive(j) /\ Posted(j)
        BY <3>1, PlaceFacts, AliveAfter DEF Posted
      <3>4. CASE j \in results
        BY <2>1, <2>3, <3>4, Stutters
      <3>5. CASE j \notin results
        <4>1. Tasks!Do(j)
          BY <2>1, <2>3, <3>2, <3>3, <3>5 DEF Tasks!Do
        <4> QED
          BY <4>1 DEF Tasks!Next
      <3> QED
        BY <3>4, <3>5
    <2> QED
      BY <2>1, <2>2, <2>3
  <1>8. CASE UNCHANGED vars
    <2>1. UNCHANGED <<place, results, turnedAway, dropped>>
      BY <1>8 DEF vars, brokerVars, historyVars
    <2> QED
      BY <2>1, Stutters
  <1> QED
    BY <1>1, <1>2, <1>3, <1>4, <1>5, <1>6, <1>7, <1>8 DEF Next

\* The image worker keeps the promise of a task queue: a job that was posted is
\* kept until its result was published, and only what was turned away at
\* capacity or ended while the connection was being closed is ever lost.
THEOREM ImageWorkerKeepsThePromise == Spec => ImplementsTasks
  <1>1. Init => Tasks!Init
    BY TasksInit
  <1>2. IInv /\ IInv' /\ [Next]_vars => [Tasks!Next]_Tasks!vars
    BY TasksStep
  <1> QED
    BY <1>1, <1>2, Invariant, PTL DEF Spec, ImplementsTasks, Tasks!Spec

=============================================================================
