---------------------------- MODULE RabbitProofs ----------------------------
(***************************************************************************)
(* The safety properties of RabbitConnection, proved for every number of   *)
(* connections and every limit of attempts.  The inductive invariant says, *)
(* besides the types, where start() stands, how timers and attempts add    *)
(* up, and, as long as no two initializations met, which initialization    *)
(* the fields belong to.                                                   *)
(***************************************************************************)
EXTENDS RabbitConnection, FiniteSetTheorems, TLAPS

Used == {c \in Cs : init[c] # "unused"}

\* Before start() nothing happened; afterwards it awaits its own initialization
\* exactly as long as that runs.
StartInv ==
    /\ start = "idle" =>
          /\ byStart = none
          /\ timers = 0
          /\ ~isInitialized
          /\ \A c \in Cs : init[c] = "unused"
    /\ byStart \in Opening => start = "initializing"
    /\ byStart # none => init[byStart] # "unused"

\* A connection is nothing before connect() resolves, and the worker has
\* subscribed on one that was there.
LinkInv ==
    /\ \A c \in Cs : init[c] \in {"unused", "connecting"} => object["connection"][c] = "none"
    /\ consumer # none => start = "subscribed" /\ object["connection"][consumer] # "none"

\* As long as the service is not initialized, every connection but the first
\* has used up an attempt, and every timer will.
CountInv ==
    /\ Closing \/ isInitialized \/
          Cardinality(Used) + timers
             <= reconnectAttempts + (IF start = "idle" THEN 0 ELSE 1)
    /\ Closing \/ Cardinality(Used) <= 1 + maxAttempts

\* What holds of connection c if no two initializations met.
Tidy(c) ==
    /\ object["connection"][c] = "open" => c = field["connection"]
    /\ c \in Opening =>
          /\ ~Closing
          /\ ~isInitialized
          /\ \A d \in Opening : c = d
    /\ init[c] = "connecting" => \A d \in Cs : object["connection"][d] # "open"
    /\ init[c] \in {"connected", "asserting", "pooling"} => field["connection"] = c
    /\ init[c] \in {"asserting", "pooling"} =>
          /\ field["channel"] = c
          /\ object["channel"][c] = "open" \/ object["connection"][c] # "open"

\* Between two initializations no connection is open.
NoneOpen ==
    Closing \/ isInitialized \/ Opening # {} \/
        \A c \in Cs : object["connection"][c] # "open"

\* What a handler closes is still what the field refers to.
CloserInv ==
    \A h \in Handlers :
        closer[h].what \in Things =>
            /\ closer[h].of \in Cs
            /\ object[closer[h].what][closer[h].of] \in {"closing", "closed"}
            /\ object[closer[h].what][closer[h].of] = "closing" =>
                  closer[h].of = field[closer[h].what]

TidyInv ==
    overlapped \/
        /\ \A c \in Cs : Tidy(c)
        /\ NoneOpen
        /\ CloserInv

IInv == TypeOK /\ StartInv /\ LinkInv /\ CountInv /\ TidyInv /\ InitializedMeansUsable

-----------------------------------------------------------------------------
(* Operators *)

States == [Things -> [Cs -> ObjectStates]]
Fields == [Things -> Cs \cup {none}]

\* Setting one object changes that one only.
LEMMA SetOne ==
    ASSUME NEW O \in States, NEW t \in Things, NEW c \in Cs, NEW v \in ObjectStates
    PROVE  /\ [O EXCEPT ![t][c] = v] \in States
           /\ \A u \in Things, d \in Cs :
                 [O EXCEPT ![t][c] = v][u][d] = IF u = t /\ d = c THEN v ELSE O[u][d]
  <1> DEFINE P == [O EXCEPT ![t][c] = v]
  <1>1. O[t] \in [Cs -> ObjectStates]
    BY DEF States
  <1>2. P = [O EXCEPT ![t] = [O[t] EXCEPT ![c] = v]]
    OBVIOUS
  <1>3. [O[t] EXCEPT ![c] = v] \in [Cs -> ObjectStates]
    BY <1>1
  <1>4. P \in States
    BY <1>2, <1>3 DEF States
  <1>5. \A u \in Things, d \in Cs : P[u][d] = IF u = t /\ d = c THEN v ELSE O[u][d]
    BY <1>1, <1>2 DEF States
  <1> QED BY <1>4, <1>5

\* A connection that is gone takes its channels with it, and nothing else.
LEMMA GoneIs ==
    ASSUME object \in States, NEW c \in Cs
    PROVE  /\ Gone(c) \in States
           /\ \A u \in Things, d \in Cs :
                 Gone(c)[u][d] = IF d = c /\ object[u][d] # "none" THEN "closed" ELSE object[u][d]
  <1>1. \A u \in Things : object[u] \in [Cs -> ObjectStates]
    BY DEF States
  <1>2. \A u \in Things :
           Gone(c)[u] = [object[u] EXCEPT ![c] = IF object[u][c] = "none" THEN "none" ELSE "closed"]
    BY <1>1 DEF Gone
  <1>3. \A u \in Things : Gone(c)[u] \in [Cs -> ObjectStates]
    <2> SUFFICES ASSUME NEW u \in Things
                 PROVE  Gone(c)[u] \in [Cs -> ObjectStates]
      OBVIOUS
    <2> DEFINE v == IF object[u][c] = "none" THEN "none" ELSE "closed"
    <2>1. v \in ObjectStates
      BY DEF ObjectStates
    <2>2. Gone(c)[u] = [object[u] EXCEPT ![c] = v]
      BY <1>2
    <2> HIDE DEF v
    <2> QED BY <1>1, <2>1, <2>2
  <1>4. Gone(c) \in States
    BY <1>3 DEF Gone, States
  <1>5. \A u \in Things, d \in Cs :
           Gone(c)[u][d] = IF d = c /\ object[u][d] # "none" THEN "closed" ELSE object[u][d]
    BY <1>1, <1>2
  <1> QED BY <1>4, <1>5

\* What a step of closeConnection does: the handler waits for the next thing to
\* close, or is done, or the process dies of the second closing of a thing.
LEMMA CloseNextIs ==
    ASSUME NEW h \in Handlers, NEW F \in Fields, NEW O \in States, NEW i \in 1 .. 4,
           CloseNext(h, F, O, i)
    PROVE  \/ /\ object' = O
              /\ closer' = closer
              /\ isInitialized' = isInitialized
              /\ process' = "error"
           \/ /\ object' = O
              /\ closer' = closer
              /\ isInitialized' = FALSE
              /\ process' = "clean"
              /\ h = "service"
           \/ /\ object' = O
              /\ closer' = [closer EXCEPT ![h] = Reporting]
              /\ isInitialized' = FALSE
              /\ process' = process
           \/ \E t \in Things :
                 /\ F[t] \in Cs
                 /\ O[t][F[t]] = "open"
                 /\ object' = [O EXCEPT ![t][F[t]] = "closing"]
                 /\ closer' = [closer EXCEPT ![h] = [what |-> t, of |-> F[t]]]
                 /\ isInitialized' = isInitialized
                 /\ process' = process
  <1> DEFINE held == {j \in i .. 3 : F[Order[j]] # none}
  <1>1. CASE held = {}
    BY <1>1 DEF CloseNext, Closed
  <1>2. CASE held # {}
    <2> DEFINE m == CHOOSE j \in held : \A k \in held : j <= k
    <2>1. \E j \in held : \A k \in held : j <= k
      <3>1. held \subseteq {1, 2, 3}
        OBVIOUS
      <3> QED BY <1>2, <3>1
    <2>2. m \in held
      BY <2>1
    <2>3. m \in {1, 2, 3} /\ F[Order[m]] # none
      BY <2>2
    <2>4. Order[m] \in Things
      <3>1. Order[1] = "pool" /\ Order[2] = "channel" /\ Order[3] = "connection"
        BY DEF Order
      <3> HIDE DEF m
      <3> QED BY <2>3, <3>1 DEF Things
    <2>5. F[Order[m]] \in Cs
      BY <2>3, <2>4 DEF Fields
    <2>6. CASE O[Order[m]][F[Order[m]]] = "open"
      BY <1>2, <2>4, <2>5, <2>6 DEF CloseNext
    <2>7. CASE O[Order[m]][F[Order[m]]] # "open"
      BY <1>2, <2>7 DEF CloseNext
    <2> QED BY <2>6, <2>7
  <1> QED BY <1>1, <1>2

\* Attempts and timers grow by the same number, and attempts stay below their
\* limit.
LEMMA AttemptIs ==
    ASSUME NEW n \in Nat, reconnectAttempts \in 0 .. maxAttempts, timers \in Nat, Attempt(n)
    PROVE  /\ reconnectAttempts' \in 0 .. maxAttempts
           /\ timers' \in Nat
           /\ timers' + reconnectAttempts = timers + reconnectAttempts'
  BY RabbitConnectionAssumption DEF Attempt

\* A handler that closes something is neither idle nor reporting.
LEMMA RecordsDiffer ==
    /\ Nothing.what \notin Things
    /\ Reporting.what \notin Things
    /\ Reporting # Nothing
  <1>1. Nothing.what = "nothing" /\ Reporting.what = "reporting"
    BY DEF Nothing, Reporting
  <1> QED BY <1>1 DEF Things

-----------------------------------------------------------------------------
(* Types *)

Closers == [Handlers -> {Nothing, Reporting} \cup [what : Things, of : Cs]]

\* A step of closeConnection keeps the types.
LEMMA CloseNextTypes ==
    ASSUME NEW h \in Handlers, NEW F \in Fields, NEW O \in States, NEW i \in 1 .. 4,
           closer \in Closers, isInitialized \in BOOLEAN, process \in {"up", "clean", "error"},
           CloseNext(h, F, O, i)
    PROVE  /\ object' \in States
           /\ closer' \in Closers
           /\ isInitialized' \in BOOLEAN
           /\ process' \in {"up", "clean", "error"}
  <1>2. CASE \E t \in Things :
                 /\ F[t] \in Cs
                 /\ O[t][F[t]] = "open"
                 /\ object' = [O EXCEPT ![t][F[t]] = "closing"]
                 /\ closer' = [closer EXCEPT ![h] = [what |-> t, of |-> F[t]]]
                 /\ isInitialized' = isInitialized
                 /\ process' = process
    <2>1. PICK t \in Things :
                 /\ F[t] \in Cs
                 /\ object' = [O EXCEPT ![t][F[t]] = "closing"]
                 /\ closer' = [closer EXCEPT ![h] = [what |-> t, of |-> F[t]]]
                 /\ isInitialized' = isInitialized
                 /\ process' = process
      BY <1>2
    <2>2. "closing" \in ObjectStates
      BY DEF ObjectStates
    <2>3. object' \in States
      BY <2>1, <2>2, SetOne
    <2>4. PICK r \in [what : Things, of : Cs] : closer' = [closer EXCEPT ![h] = r]
      BY <2>1
    <2> QED BY <2>1, <2>3, <2>4 DEF Closers
  <1>3. CASE /\ object' = O
             /\ closer' = [closer EXCEPT ![h] = Reporting]
             /\ isInitialized' = FALSE
             /\ process' = process
    BY <1>3 DEF Closers
  <1>4. CASE /\ object' = O
             /\ closer' = closer
             /\ isInitialized' \in {FALSE, isInitialized}
             /\ process' \in {"clean", "error"}
    BY <1>4
  <1> QED BY <1>2, <1>3, <1>4, CloseNextIs

\* Every step keeps the variables in their types.
LEMMA TypeStep == TypeOK /\ [Next]_vars => TypeOK'
  <1> SUFFICES ASSUME TypeOK, [Next]_vars PROVE TypeOK'
    OBVIOUS
  <1> USE RabbitConnectionAssumption
  <1>a. /\ object \in States
        /\ field \in Fields
        /\ closer \in Closers
    BY DEF TypeOK, States, Fields, Closers
  <1>c. /\ Things = {"pool", "channel", "connection"}
        /\ {"open", "closing", "closed"} \subseteq ObjectStates
    BY DEF Things, ObjectStates
  <1>b. ASSUME object' \in States, field' \in Fields, closer' \in Closers,
               process' \in {"up", "clean", "error"},
               init' \in [Cs -> {"unused", "connecting", "connected", "asserting", "pooling",
                                 "done", "failed"}],
               isInitialized' \in BOOLEAN,
               reconnectAttempts' \in 0 .. maxAttempts,
               timers' \in Nat,
               start' \in {"idle", "initializing", "subscribing", "subscribed", "failed"},
               byStart' \in Cs \cup {none},
               consumer' \in Cs \cup {none},
               overlapped' \in BOOLEAN,
               lost' \in BOOLEAN
        PROVE  TypeOK'
    BY <1>b DEF TypeOK, States, Fields, Closers
  <1>1. CASE Start
    BY <1>1, <1>a, <1>b DEF TypeOK, Start, Connecting, serviceVars
  <1>2. CASE Subscribe
    <2>1. field["connection"] \in Cs \cup {none}
      BY <1>a, <1>c DEF Fields
    <2>2. consumer' \in Cs \cup {none} /\ start' \in {"subscribed", "failed"}
      BY <1>2, <2>1 DEF Subscribe
    <2>3. UNCHANGED <<process, init, field, object, isInitialized, reconnectAttempts, timers,
                      byStart, closer, overlapped, lost>>
      BY <1>2 DEF Subscribe, serviceVars, historyVars
    <2> QED BY <1>a, <1>b, <2>2, <2>3 DEF TypeOK
  <1>3. CASE TimerFires
    <2>1. timers' \in Nat
      BY <1>3 DEF TypeOK, TimerFires
    <2>2. /\ init' \in [Cs -> {"unused", "connecting", "connected", "asserting", "pooling",
                               "done", "failed"}]
          /\ overlapped' \in BOOLEAN
          /\ reconnectAttempts' \in 0 .. maxAttempts
      <3>1. CASE isInitialized
        BY <1>3, <3>1 DEF TypeOK, TimerFires
      <3>2. CASE ~isInitialized
        BY <1>3, <3>2 DEF TypeOK, TimerFires, Connecting
      <3> QED BY <3>1, <3>2
    <2>3. UNCHANGED <<process, field, object, isInitialized, start, byStart, consumer,
                      closer, lost>>
      BY <1>3 DEF TimerFires, workerVars
    <2> QED BY <1>a, <1>b, <2>1, <2>2, <2>3 DEF TypeOK
  <1>4. CASE Interrupt
    <2>1. /\ object' \in States
          /\ closer' \in Closers
          /\ isInitialized' \in BOOLEAN
          /\ process' \in {"up", "clean", "error"}
      BY <1>4, <1>a, CloseNextTypes DEF TypeOK, Interrupt, Handlers
    <2> QED BY <1>4, <1>a, <1>b, <2>1 DEF TypeOK, Interrupt, workerVars
  <1>5. CASE Terminate
    <2>1. /\ object' \in States
          /\ closer' \in Closers
          /\ isInitialized' \in BOOLEAN
          /\ process' \in {"up", "clean", "error"}
          /\ overlapped' \in BOOLEAN
      <3>1. CASE closer["worker"] = Nothing
        BY <1>5, <1>a, <3>1 DEF TypeOK, Terminate
      <3>2. CASE closer["worker"] # Nothing
        BY <1>5, <1>a, <3>2, CloseNextTypes DEF TypeOK, Terminate, Handlers
      <3> QED BY <3>1, <3>2
    <2> QED BY <1>5, <1>a, <1>b, <2>1 DEF TypeOK, Terminate, workerVars
  <1>6. CASE Reports
    BY <1>6, <1>a, <1>b DEF TypeOK, Reports, serviceVars, workerVars, historyVars
  <1>7. CASE Crash
    BY <1>7, <1>a, <1>b DEF TypeOK, Crash, serviceVars, workerVars, historyVars
  <1>8. ASSUME NEW c \in Cs, Connected(c) PROVE TypeOK'
    <2>0. object' = [object EXCEPT !["connection"][c] = "open"]
      BY <1>8 DEF Connected
    <2>1. object' \in States
      BY <2>0, <1>a, <1>c, SetOne
    <2> QED BY <1>8, <1>a, <1>b, <2>1 DEF TypeOK, Connected, Fields, workerVars, historyVars
  <1>9. ASSUME NEW c \in Cs, ChannelOpens(c) PROVE TypeOK'
    <2>1. object' \in States
      BY <1>9, <1>a, <1>c, SetOne DEF ChannelOpens
    <2> QED BY <1>9, <1>a, <1>b, <2>1 DEF TypeOK, ChannelOpens, Fields, workerVars, historyVars
  <1>10. ASSUME NEW c \in Cs, Asserted(c) PROVE TypeOK'
    BY <1>10, <1>a, <1>b DEF TypeOK, Asserted, serviceVars, workerVars, historyVars
  <1>11. ASSUME NEW c \in Cs, Pooled(c) PROVE TypeOK'
    <2>1. field["connection"] \in Cs
      BY <1>11, <1>a DEF Pooled, Usable, Fields, Things
    <2>0. object' = [object EXCEPT !["pool"][field["connection"]] = "open"]
      BY <1>11 DEF Pooled
    <2>2. object' \in States
      BY <2>0, <1>a, <1>c, <2>1, SetOne
    <2>3. field' \in Fields
      BY <1>11, <1>a, <1>c, <2>1 DEF Pooled, Fields
    <2> QED BY <1>11, <1>a, <1>b, <2>2, <2>3 DEF TypeOK, Pooled, historyVars
  <1>12. ASSUME NEW c \in Cs, Fails(c) PROVE TypeOK'
    BY <1>12, <1>a, <1>b DEF TypeOK, Fails, serviceVars, historyVars
  <1>13. ASSUME NEW c \in Cs, Lose(c) PROVE TypeOK'
    <2>1. object' \in States
      BY <1>13, <1>a, GoneIs DEF Lose
    <2>2. reconnectAttempts' \in 0 .. maxAttempts /\ timers' \in Nat
      BY <1>13, AttemptIs DEF TypeOK, Lose
    <2> QED BY <1>13, <1>a, <1>b, <2>1, <2>2 DEF TypeOK, Lose, workerVars
  <1>14. ASSUME NEW h \in Handlers, Closes(h) PROVE TypeOK'
    <2> DEFINE t == closer[h].what
               c == closer[h].of
               F == [field EXCEPT ![t] = none]
               O == IF t = "connection" THEN Gone(c) ELSE [object EXCEPT ![t][c] = "closed"]
               i == CASE t = "pool" -> 2 [] t = "channel" -> 3 [] OTHER -> 4
    <2>1. t \in Things
      BY <1>14 DEF Closes
    <2>2. c \in Cs
      <3>1. closer[h] \in {Nothing, Reporting} \cup [what : Things, of : Cs]
        BY <1>a DEF Closers
      <3>2. closer[h] \in [what : Things, of : Cs]
        BY <2>1, <3>1, RecordsDiffer
      <3> QED BY <3>2
    <2>3. F \in Fields /\ i \in 1 .. 4
      BY <1>a, <2>1 DEF Fields, Things
    <2>4. O \in States
      BY <1>a, <2>1, <2>2, GoneIs, SetOne DEF ObjectStates
    <2>5. CloseNext(h, F, O, i) /\ field' = F
      BY <1>14 DEF Closes
    <2> HIDE DEF F, O, i
    <2>6. /\ object' \in States
          /\ closer' \in Closers
          /\ isInitialized' \in BOOLEAN
          /\ process' \in {"up", "clean", "error"}
      BY <1>a, <2>3, <2>4, <2>5, CloseNextTypes DEF TypeOK
    <2>7. reconnectAttempts' \in 0 .. maxAttempts /\ timers' \in Nat
      BY <1>14, AttemptIs DEF TypeOK, Closes
    <2> QED BY <1>14, <1>a, <1>b, <2>3, <2>5, <2>6, <2>7 DEF TypeOK, Closes, workerVars, historyVars
  <1>15. CASE UNCHANGED vars
    BY <1>15, <1>a, <1>b DEF TypeOK, vars, serviceVars, workerVars, historyVars
  <1> QED BY <1>1, <1>2, <1>3, <1>4, <1>5, <1>6, <1>7, <1>8, <1>9, <1>10, <1>11, <1>12,
             <1>13, <1>14, <1>15 DEF Next

-----------------------------------------------------------------------------
(* What a step does to the objects *)

\* A connection is opened once, by connect(), and is closed for good.
ConnectionStep(d) ==
    LET before == object["connection"][d]
        after == object'["connection"][d]
    IN  \/ after = before
        \/ Connected(d) /\ after = "open"
        \/ before = "open" /\ after = "closing"
        \/ before \in {"open", "closing"} /\ after = "closed"

\* A step of closeConnection only begins to close what is open.
LEMMA CloseNextObjects ==
    ASSUME NEW h \in Handlers, NEW F \in Fields, NEW O \in States, NEW i \in 1 .. 4,
           CloseNext(h, F, O, i)
    PROVE  \A u \in Things, d \in Cs :
              \/ object'[u][d] = O[u][d]
              \/ /\ O[u][d] = "open"
                 /\ object'[u][d] = "closing"
                 /\ d = F[u]
                 /\ closer' = [closer EXCEPT ![h] = [what |-> u, of |-> d]]
                 /\ isInitialized' = isInitialized
  <1>1. CASE \E t \in Things :
                 /\ F[t] \in Cs
                 /\ O[t][F[t]] = "open"
                 /\ object' = [O EXCEPT ![t][F[t]] = "closing"]
                 /\ closer' = [closer EXCEPT ![h] = [what |-> t, of |-> F[t]]]
                 /\ isInitialized' = isInitialized
                 /\ process' = process
    <2>1. PICK t \in Things :
                 /\ F[t] \in Cs
                 /\ O[t][F[t]] = "open"
                 /\ object' = [O EXCEPT ![t][F[t]] = "closing"]
                 /\ closer' = [closer EXCEPT ![h] = [what |-> t, of |-> F[t]]]
                 /\ isInitialized' = isInitialized
      BY <1>1
    <2>2. "closing" \in ObjectStates
      BY DEF ObjectStates
    <2>3. \A u \in Things, d \in Cs :
             object'[u][d] = IF u = t /\ d = F[t] THEN "closing" ELSE O[u][d]
      BY <2>1, <2>2, SetOne
    <2> SUFFICES ASSUME NEW u \in Things, NEW d \in Cs
                 PROVE  \/ object'[u][d] = O[u][d]
                        \/ /\ O[u][d] = "open"
                           /\ object'[u][d] = "closing"
                           /\ d = F[u]
                           /\ closer' = [closer EXCEPT ![h] = [what |-> u, of |-> d]]
                           /\ isInitialized' = isInitialized
      OBVIOUS
    <2>4. CASE u = t /\ d = F[t]
      BY <2>1, <2>3, <2>4
    <2>5. CASE ~(u = t /\ d = F[t])
      BY <2>3, <2>5
    <2> QED BY <2>4, <2>5
  <1>2. CASE object' = O
    BY <1>2
  <1>3. \/ object' = O
        \/ \E t \in Things :
                 /\ F[t] \in Cs
                 /\ O[t][F[t]] = "open"
                 /\ object' = [O EXCEPT ![t][F[t]] = "closing"]
                 /\ closer' = [closer EXCEPT ![h] = [what |-> t, of |-> F[t]]]
                 /\ isInitialized' = isInitialized
                 /\ process' = process
    BY CloseNextIs
  <1> QED BY <1>1, <1>2, <1>3

\* The parts of a step of Closes: what handler h waited for is closed, and the
\* field that held it is empty.
LEMMA ClosesIs ==
    ASSUME TypeOK, NEW h \in Handlers, Closes(h)
    PROVE  \E t \in Things, c \in Cs, F \in Fields, O \in States, i \in 1 .. 4 :
              /\ closer[h] = [what |-> t, of |-> c]
              /\ object[t][c] = "closing"
              /\ field' = F
              /\ F[t] = none
              /\ \A u \in Things : u # t => F[u] = field[u]
              /\ \A u \in Things, d \in Cs :
                    O[u][d] = IF d = c /\ (u = t \/ t = "connection") /\ object[u][d] # "none"
                              THEN "closed" ELSE object[u][d]
              /\ CloseNext(h, F, O, i)
  <1> DEFINE t == closer[h].what
             c == closer[h].of
             F == [field EXCEPT ![t] = none]
             O == IF t = "connection" THEN Gone(c) ELSE [object EXCEPT ![t][c] = "closed"]
             i == CASE t = "pool" -> 2 [] t = "channel" -> 3 [] OTHER -> 4
  <1>a. /\ object \in States
        /\ field \in Fields
        /\ closer \in Closers
        /\ "closed" \in ObjectStates
    BY DEF TypeOK, States, Fields, Closers, ObjectStates
  <1>1. t \in Things
    BY DEF Closes
  <1>2. closer[h] \in [what : Things, of : Cs]
    <2>1. closer[h] \in {Nothing, Reporting} \cup [what : Things, of : Cs]
      BY <1>a DEF Closers
    <2> QED BY <1>1, <2>1, RecordsDiffer
  <1>3. c \in Cs /\ closer[h] = [what |-> t, of |-> c]
    BY <1>2
  <1>4. F \in Fields /\ F[t] = none /\ \A u \in Things : u # t => F[u] = field[u]
    BY <1>a, <1>1 DEF Fields
  <1>5. i \in 1 .. 4
    BY <1>1 DEF Things
  <1>6. /\ O \in States
        /\ \A u \in Things, d \in Cs :
              O[u][d] = IF d = c /\ (u = t \/ t = "connection") /\ object[u][d] # "none"
                        THEN "closed" ELSE object[u][d]
    <2>1. object[t][c] = "closing"
      BY DEF Closes
    <2>2. CASE t = "connection"
      BY <1>a, <1>3, <2>2, GoneIs
    <2>3. CASE t # "connection"
      <3> DEFINE P == [object EXCEPT ![t][c] = "closed"]
      <3>1. /\ P \in States
            /\ \A u \in Things, d \in Cs :
                  P[u][d] = IF u = t /\ d = c THEN "closed" ELSE object[u][d]
        BY <1>a, <1>1, <1>3, SetOne
      <3>2. O = P
        BY <2>3
      <3> QED BY <2>1, <2>3, <3>1, <3>2
    <2> QED BY <2>2, <2>3
  <1>7. field' = F /\ CloseNext(h, F, O, i) /\ object[t][c] = "closing"
    BY DEF Closes
  <1> HIDE DEF F, O, i, t, c
  <1> QED BY <1>1, <1>3, <1>4, <1>5, <1>6, <1>7

LEMMA ConnectionSteps == TypeOK /\ [Next]_vars => \A d \in Cs : ConnectionStep(d)
  <1> SUFFICES ASSUME TypeOK, [Next]_vars, NEW d \in Cs PROVE ConnectionStep(d)
    OBVIOUS
  <1>a. /\ object \in States
        /\ field \in Fields
        /\ Things = {"pool", "channel", "connection"}
        /\ {"open", "closing", "closed"} \subseteq ObjectStates
        /\ object["connection"][d] \in {"none", "open", "closing", "closed"}
    BY DEF TypeOK, States, Fields, Things, ObjectStates
  <1>1. ASSUME NEW h \in Handlers, NEW i \in 1 .. 4, CloseNext(h, field, object, i)
        PROVE  ConnectionStep(d)
    BY <1>1, <1>a, CloseNextObjects DEF ConnectionStep
  <1>2. CASE UNCHANGED object
    BY <1>2 DEF ConnectionStep
  <1>3. CASE Interrupt
    BY <1>1, <1>3 DEF Interrupt, Handlers
  <1>4. CASE Terminate
    BY <1>1, <1>2, <1>4 DEF Terminate, Handlers
  <1>5. ASSUME NEW c \in Cs, Connected(c) PROVE ConnectionStep(d)
    <2>1. object' = [object EXCEPT !["connection"][c] = "open"]
      BY <1>5 DEF Connected
    <2> QED BY <1>5, <1>a, <2>1, SetOne DEF ConnectionStep
  <1>6. ASSUME NEW c \in Cs, ChannelOpens(c) PROVE ConnectionStep(d)
    <2>1. object' = [object EXCEPT !["channel"][c] = "open"]
      BY <1>6 DEF ChannelOpens
    <2> QED BY <1>6, <1>a, <2>1, SetOne DEF ConnectionStep
  <1>7. ASSUME NEW c \in Cs, Pooled(c) PROVE ConnectionStep(d)
    <2>1. object' = [object EXCEPT !["pool"][field["connection"]] = "open"]
      BY <1>7 DEF Pooled
    <2>2. field["connection"] \in Cs
      BY <1>7, <1>a DEF Pooled, Usable, Fields
    <2> QED BY <1>7, <1>a, <2>1, <2>2, SetOne DEF ConnectionStep
  <1>8. ASSUME NEW c \in Cs, Lose(c) PROVE ConnectionStep(d)
    <2>1. object["connection"][c] = "open" /\ object' = Gone(c)
      BY <1>8 DEF Lose
    <2> QED BY <1>a, <2>1, GoneIs DEF ConnectionStep
  <1>9. ASSUME NEW h \in Handlers, Closes(h) PROVE ConnectionStep(d)
    <2>1. PICK t \in Things, c \in Cs, F \in Fields, O \in States, i \in 1 .. 4 :
              /\ closer[h] = [what |-> t, of |-> c]
              /\ object[t][c] = "closing"
              /\ field' = F
              /\ F[t] = none
              /\ \A u \in Things : u # t => F[u] = field[u]
              /\ \A u \in Things, e \in Cs :
                    O[u][e] = IF e = c /\ (u = t \/ t = "connection") /\ object[u][e] # "none"
                              THEN "closed" ELSE object[u][e]
              /\ CloseNext(h, F, O, i)
      BY <1>9, ClosesIs
    <2>2. \/ object'["connection"][d] = O["connection"][d]
          \/ O["connection"][d] = "open" /\ object'["connection"][d] = "closing"
      BY <1>a, <2>1, CloseNextObjects
    <2>3. \/ O["connection"][d] = object["connection"][d]
          \/ /\ t = "connection"
             /\ d = c
             /\ O["connection"][d] = "closed"
      BY <1>a, <2>1
    <2> QED BY <1>a, <2>1, <2>2, <2>3 DEF ConnectionStep
  <1> QED BY <1>2, <1>3, <1>4, <1>5, <1>6, <1>7, <1>8, <1>9
          DEF Next, Start, Subscribe, TimerFires, Reports, Crash, Asserted, Fails, vars,
              serviceVars

\* A call of initialize() begins once, and goes on from there.
InitStep(d) ==
    \/ init'[d] = init[d]
    \/ init[d] = "unused" /\ init'[d] = "connecting"
    \/ init'[d] \notin {"unused", "connecting"}

LEMMA InitSteps == TypeOK /\ [Next]_vars => \A d \in Cs : InitStep(d)
  <1> SUFFICES ASSUME TypeOK, [Next]_vars, NEW d \in Cs PROVE InitStep(d)
    OBVIOUS
  <1>a. DOMAIN init = Cs
    BY DEF TypeOK
  <1>1. CASE UNCHANGED init
    BY <1>1 DEF InitStep
  <1>2. ASSUME NEW c \in Cs, Connecting(c) PROVE InitStep(d)
    BY <1>2, <1>a DEF InitStep, Connecting
  <1>3. CASE TimerFires
    <2>1. CASE isInitialized
      BY <1>1, <1>3, <2>1 DEF TimerFires
    <2>2. CASE ~isInitialized
      BY <1>2, <1>3, <2>2 DEF TimerFires
    <2> QED BY <2>1, <2>2
  <1>4. CASE Start
    BY <1>2, <1>4 DEF Start
  <1>5. ASSUME NEW c \in Cs,
               Connected(c) \/ ChannelOpens(c) \/ Asserted(c) \/ Pooled(c) \/ Fails(c)
        PROVE  InitStep(d)
    BY <1>5, <1>a DEF InitStep, Connected, ChannelOpens, Asserted, Pooled, Fails
  <1> QED BY <1>1, <1>3, <1>4, <1>5
          DEF Next, Subscribe, Interrupt, Terminate, Reports, Crash, Lose, Closes, vars

LEMMA StartStep == TypeOK /\ StartInv /\ LinkInv /\ [Next]_vars => StartInv'
  <1> SUFFICES ASSUME TypeOK, StartInv, LinkInv, [Next]_vars PROVE StartInv'
    OBVIOUS
  <1>a. /\ DOMAIN init = Cs
        /\ byStart \in Cs \cup {none}
        /\ none \notin Cs
    BY RabbitConnectionAssumption DEF TypeOK, Cs, none
  <1>1. CASE UNCHANGED <<start, byStart, init, timers, isInitialized>>
    BY <1>1 DEF StartInv, Opening
  <1>2. CASE Start
    BY <1>2, <1>a DEF StartInv, Opening, Start, Connecting
  <1>3. CASE TimerFires
    <2>1. start # "idle" /\ start' = start /\ byStart' = byStart
      BY <1>3, RabbitConnectionAssumption DEF StartInv, TimerFires, TypeOK, workerVars
    <2>2. CASE isInitialized
      BY <1>3, <2>1, <2>2 DEF StartInv, Opening, TimerFires
    <2>3. CASE ~isInitialized
      <3>1. PICK c \in Cs : Connecting(c)
        BY <1>3, <2>3 DEF TimerFires
      <3> QED BY <1>a, <2>1, <3>1 DEF StartInv, Opening, Connecting
    <2> QED BY <2>2, <2>3
  <1>4. ASSUME NEW c \in Cs, Connected(c) \/ ChannelOpens(c) \/ Asserted(c) PROVE StartInv'
    <2>1. /\ start' = start
          /\ byStart' = byStart
          /\ init[c] \in {"connecting", "connected", "asserting"}
          /\ init'[c] \in {"connected", "asserting", "pooling"}
          /\ \A d \in Cs : d # c => init'[d] = init[d]
      BY <1>4, <1>a DEF Connected, ChannelOpens, Asserted, workerVars
    <2> QED BY <1>a, <2>1 DEF StartInv, Opening
  <1>5. ASSUME NEW c \in Cs, Pooled(c) \/ Fails(c) PROVE StartInv'
    <2>1. /\ start' \in {"subscribing", "failed"} \/ start' = start
          /\ start' # start => c = byStart
          /\ byStart' = byStart
          /\ init[c] # "unused"
          /\ init'[c] \in {"done", "failed"}
          /\ c = byStart => start' \in {"subscribing", "failed"}
          /\ \A d \in Cs : d # c => init'[d] = init[d]
      BY <1>5, <1>a DEF Pooled, Fails
    <2> QED BY <1>a, <2>1 DEF StartInv, Opening
  <1>6. CASE Subscribe
    BY <1>6 DEF StartInv, Opening, Subscribe, serviceVars
  <1>7. ASSUME NEW c \in Cs, Lose(c) PROVE StartInv'
    <2>1. start # "idle"
      BY <1>7 DEF Lose, StartInv, LinkInv
    <2>2. UNCHANGED <<start, byStart, init>>
      BY <1>7 DEF Lose, workerVars
    <2> QED BY <2>1, <2>2 DEF StartInv, Opening
  <1>8. ASSUME isInitialized' = isInitialized \/ isInitialized' = FALSE,
               UNCHANGED <<start, byStart, init, timers>>
        PROVE  StartInv'
    BY <1>8 DEF StartInv, Opening
  <1>9. CASE Interrupt
    <2>1. isInitialized' = isInitialized \/ isInitialized' = FALSE
      BY <1>9 DEF Interrupt, CloseNext, Closed
    <2> QED BY <1>8, <1>9, <2>1 DEF Interrupt, workerVars
  <1>10. CASE Terminate
    <2>1. isInitialized' = isInitialized \/ isInitialized' = FALSE
      BY <1>10 DEF Terminate, CloseNext, Closed
    <2> QED BY <1>8, <1>10, <2>1 DEF Terminate, workerVars
  <1>11. ASSUME NEW h \in Handlers, Closes(h) PROVE StartInv'
    <2>1. PICK t \in Things, c \in Cs :
              /\ closer[h] = [what |-> t, of |-> c]
              /\ object[t][c] = "closing"
      BY <1>11, ClosesIs
    <2>2. UNCHANGED <<start, byStart, init>>
      BY <1>11 DEF Closes, workerVars
    <2>3. isInitialized' = isInitialized \/ isInitialized' = FALSE
      BY <1>11 DEF Closes, CloseNext, Closed
    <2>4. CASE t = "connection"
      <3>1. start # "idle"
        BY <2>1, <2>4 DEF StartInv, LinkInv
      <3> QED BY <2>2, <3>1 DEF StartInv, Opening
    <2>5. CASE t # "connection"
      <3>1. timers' = timers
        BY <1>11, <2>1, <2>5 DEF Closes
      <3> QED BY <1>8, <2>2, <2>3, <3>1
    <2> QED BY <2>4, <2>5
  <1> QED BY <1>1, <1>2, <1>3, <1>4, <1>5, <1>6, <1>7, <1>9, <1>10, <1>11
          DEF Next, Reports, Crash, vars, serviceVars, workerVars

LEMMA LinkStep == TypeOK /\ StartInv /\ LinkInv /\ [Next]_vars => LinkInv'
  <1> SUFFICES ASSUME TypeOK, StartInv, LinkInv, [Next]_vars PROVE LinkInv'
    OBVIOUS
  <1>a. /\ DOMAIN init = Cs
        /\ consumer \in Cs \cup {none}
        /\ field["connection"] \in Cs \cup {none}
    BY DEF TypeOK, Things
  <1>1. ASSUME NEW c \in Cs, init'[c] \in {"unused", "connecting"}
        PROVE  object'["connection"][c] = "none"
    <2>1. init[c] \in {"unused", "connecting"}
      BY <1>1, InitSteps DEF InitStep
    <2>2. object["connection"][c] = "none"
      BY <2>1 DEF LinkInv
    <2>3. ~Connected(c)
      BY <1>1, <1>a DEF Connected
    <2> QED BY <2>2, <2>3, ConnectionSteps DEF ConnectionStep
  <1>2. ASSUME consumer # none, consumer' = consumer, start' = start
        PROVE  start' = "subscribed" /\ object'["connection"][consumer'] # "none"
    <2>1. object["connection"][consumer] # "none" /\ consumer \in Cs
      BY <1>2, <1>a DEF LinkInv
    <2>2. ConnectionStep(consumer)
      BY <2>1, ConnectionSteps
    <2>3. object'["connection"][consumer] # "none"
      BY <2>1, <2>2 DEF ConnectionStep
    <2> QED BY <1>2, <2>3 DEF LinkInv
  <1>3. CASE consumer' = consumer /\ start' = start
    BY <1>1, <1>2, <1>3 DEF LinkInv
  <1>4. CASE consumer' = consumer /\ consumer = none
    BY <1>1, <1>4 DEF LinkInv
  <1>5. CASE Start
    BY <1>4, <1>5 DEF Start, LinkInv
  <1>6. CASE Subscribe
    <2>1. CASE Usable("connection")
      <3>1. /\ consumer' = field["connection"]
            /\ start' = "subscribed"
            /\ object' = object
            /\ object["connection"][field["connection"]] = "open"
        BY <1>6, <2>1 DEF Subscribe, Usable, serviceVars
      <3> QED BY <1>1, <3>1 DEF LinkInv
    <2>2. CASE ~Usable("connection")
      <3>1. consumer' = none
        BY <1>6, <2>2 DEF Subscribe
      <3> QED BY <1>1, <3>1 DEF LinkInv
    <2> QED BY <2>1, <2>2
  <1>7. ASSUME NEW c \in Cs, Pooled(c) \/ Fails(c) PROVE LinkInv'
    <2>1. consumer' = consumer
      BY <1>7 DEF Pooled, Fails
    <2>2. CASE c = byStart
      <3>1. byStart \in Opening
        BY <1>7, <2>2 DEF Pooled, Fails, Opening
      <3> QED BY <1>4, <2>1, <3>1 DEF StartInv, LinkInv
    <2>3. CASE c # byStart
      <3>1. start' = start
        BY <1>7, <2>3 DEF Pooled, Fails
      <3> QED BY <1>3, <2>1, <3>1
    <2> QED BY <2>2, <2>3
  <1> QED BY <1>3, <1>5, <1>6, <1>7
          DEF Next, TimerFires, Interrupt, Terminate, Reports, Crash, Connected, ChannelOpens,
              Asserted, Lose, Closes, vars, workerVars

-----------------------------------------------------------------------------
(* Refinement *)

\* The step of the abstract link that a step of the process is.
LEMMA LinkRefines ==
    ASSUME TypeOK, StartInv, LinkInv, [Next]_vars
    PROVE  \/ workerLink' = workerLink
           \/ workerLink = "down" /\ workerLink' = "up"
           \/ workerLink = "up" /\ workerLink' = "lost"
           \/ workerLink # "down" /\ workerLink' = "down"
  <1>a. /\ consumer \in Cs \cup {none}
        /\ field["connection"] \in Cs \cup {none}
        /\ none \notin Cs
    BY RabbitConnectionAssumption DEF TypeOK, Things, Cs, none
  <1>1. CASE UNCHANGED vars
    BY <1>1 DEF vars, serviceVars, workerVars, workerLink
  <1>2. CASE process' # "up"
    BY <1>2 DEF workerLink
  <1>3. CASE Subscribe
    <2>1. consumer = none
      BY <1>3 DEF Subscribe, LinkInv
    <2>2. CASE Usable("connection")
      <3>1. /\ consumer' = field["connection"]
            /\ object' = object
            /\ process' = process
            /\ object["connection"][field["connection"]] = "open"
        BY <1>3, <2>2 DEF Subscribe, Usable, serviceVars
      <3> QED BY <2>1, <3>1 DEF workerLink
    <2>3. CASE ~Usable("connection")
      <3>1. consumer' = none
        BY <1>3, <2>3 DEF Subscribe
      <3> QED BY <2>1, <3>1 DEF workerLink
    <2> QED BY <2>2, <2>3
  <1>4. CASE process = "up" /\ process' = "up" /\ consumer' = consumer
    <2>1. CASE consumer = none
      BY <1>4, <2>1 DEF workerLink
    <2>2. CASE consumer \in Cs
      <3>1. object["connection"][consumer] # "none"
        BY <1>a, <2>2 DEF LinkInv
      <3>2. ConnectionStep(consumer)
        BY <2>2, ConnectionSteps
      <3>3. ~Connected(consumer)
        BY <2>2, <3>1 DEF Connected, LinkInv
      <3> QED BY <1>4, <3>1, <3>2, <3>3 DEF ConnectionStep, workerLink
    <2> QED BY <1>a, <2>1, <2>2
  <1>5. \/ UNCHANGED vars
        \/ Subscribe
        \/ process = "up" /\ consumer' = consumer
    BY DEF Next, Start, TimerFires, Interrupt, Terminate, Reports, Crash, Connected, ChannelOpens,
           Asserted, Pooled, Fails, Lose, Closes, workerVars
  <1> QED BY <1>1, <1>2, <1>3, <1>4, <1>5

-----------------------------------------------------------------------------
(* Attempts *)

\* A shutdown that has begun goes on, or has ended the process.
LEMMA ClosingStays == TypeOK /\ [Next]_vars => (Closing => Closing')
  <1> SUFFICES ASSUME TypeOK, [Next]_vars, Closing PROVE Closing'
    OBVIOUS
  <1>a. closer \in Closers
    BY DEF TypeOK, Closers
  <1>b. ASSUME NEW h \in Handlers, closer' = [closer EXCEPT ![h] = Reporting] PROVE Closing'
    BY <1>a, <1>b, RecordsDiffer DEF Closing, Closers
  <1>c. ASSUME NEW h \in Handlers, NEW t \in Things, NEW c \in Cs,
               closer' = [closer EXCEPT ![h] = [what |-> t, of |-> c]]
        PROVE  Closing'
    <2>1. closer'[h] = [what |-> t, of |-> c]
      BY <1>a, <1>c DEF Closers
    <2>2. closer'[h] # Nothing
      BY <2>1, RecordsDiffer
    <2> QED BY <2>2 DEF Closing
  <1>d. CASE closer' = closer
    BY <1>d DEF Closing
  <1>1. ASSUME NEW h \in Handlers, NEW F \in Fields, NEW O \in States, NEW i \in 1 .. 4,
               CloseNext(h, F, O, i)
        PROVE  Closing'
    <2>1. ASSUME NEW t \in Things, F[t] \in Cs,
                 closer' = [closer EXCEPT ![h] = [what |-> t, of |-> F[t]]]
          PROVE  Closing'
      BY <1>c, <2>1
    <2> QED BY <1>1, <1>b, <1>d, <2>1, CloseNextIs
  <1>2. field \in Fields /\ object \in States
    BY DEF TypeOK, Fields, States
  <1>3. CASE Interrupt
    BY <1>1, <1>2, <1>3 DEF Interrupt, Handlers
  <1>4. CASE Terminate
    BY <1>1, <1>2, <1>4, <1>d DEF Terminate, Handlers
  <1>5. ASSUME NEW h \in Handlers, Closes(h) PROVE Closing'
    <2>1. PICK F \in Fields, O \in States, i \in 1 .. 4 : CloseNext(h, F, O, i)
      BY <1>5, ClosesIs
    <2> QED BY <1>1, <2>1
  <1> QED BY <1>d, <1>3, <1>4, <1>5
          DEF Next, Start, Subscribe, TimerFires, Reports, Crash, Connected, ChannelOpens, Asserted,
              Pooled, Fails, Lose, vars

\* Connecting uses one more connection.
LEMMA UsedGrows ==
    ASSUME TypeOK, NEW c \in Cs, Connecting(c)
    PROVE  Cardinality(Used') = Cardinality(Used) + 1
  <1>1. IsFiniteSet(Cs)
    BY RabbitConnectionAssumption, FS_Interval DEF Cs
  <1>2. IsFiniteSet(Used)
    BY <1>1, FS_Subset DEF Used
  <1>3. Used' = Used \cup {c} /\ c \notin Used
    BY DEF TypeOK, Used, Connecting
  <1> QED BY <1>2, <1>3, FS_AddElement

LEMMA UsedIs == Cardinality(Used) \in Nat /\ (Used = {} => Cardinality(Used) = 0)
  <1>1. IsFiniteSet(Cs)
    BY RabbitConnectionAssumption, FS_Interval DEF Cs
  <1>2. IsFiniteSet(Used)
    BY <1>1, FS_Subset DEF Used
  <1> QED BY <1>2, FS_CardinalityType, FS_EmptySet

LEMMA CountStep == TypeOK /\ StartInv /\ CountInv /\ [Next]_vars => CountInv'
  <1> SUFFICES ASSUME TypeOK, StartInv, CountInv, [Next]_vars, ~Closing, ~Closing' PROVE CountInv'
    BY ClosingStays DEF CountInv
  <1> DEFINE n == Cardinality(Used)
             one == IF start = "idle" THEN 0 ELSE 1
  <1>a. /\ n \in Nat
        /\ timers \in Nat
        /\ maxAttempts \in Nat
        /\ reconnectAttempts \in 0 .. maxAttempts
        /\ isInitialized \in BOOLEAN
        /\ one \in {0, 1}
        /\ TypeOK'
    BY UsedIs, RabbitConnectionAssumption, TypeStep DEF TypeOK
  <1>b. /\ isInitialized \/ n + timers <= reconnectAttempts + one
        /\ n <= 1 + maxAttempts
    BY DEF CountInv
  <1>c. ASSUME isInitialized' \/ Cardinality(Used') + timers'
                   <= reconnectAttempts' + (IF start' = "idle" THEN 0 ELSE 1),
               Cardinality(Used') <= 1 + maxAttempts
        PROVE  CountInv'
    BY <1>c DEF CountInv
  <1>d. ASSUME init' = init PROVE Cardinality(Used') = n
    BY <1>d DEF Used
  <1>e. ASSUME NEW c \in Cs, init[c] # "unused", init'[c] # "unused",
               \A d \in Cs : d # c => init'[d] = init[d]
        PROVE  Cardinality(Used') = n
    <2>1. Used' = Used
      BY <1>e DEF Used
    <2> QED BY <2>1
  <1>1. CASE Start
    <2>1. PICK c \in Cs : Connecting(c)
      BY <1>1 DEF Start
    <2>2. Used = {} /\ timers = 0
      BY <1>1 DEF Start, StartInv, Used
    <2>3. Cardinality(Used') = 1
      BY <2>1, <2>2, UsedGrows, UsedIs
    <2>4. start' = "initializing" /\ timers' = 0 /\ reconnectAttempts' = reconnectAttempts
      BY <1>1, <2>2 DEF Start, serviceVars
    <2> QED BY <1>a, <1>c, <2>3, <2>4
  <1>2. CASE TimerFires
    <2>1. timers > 0 /\ timers' = timers - 1 /\ start' = start /\ isInitialized' = isInitialized
      BY <1>2 DEF TimerFires, workerVars
    <2>2. start # "idle"
      BY <2>1 DEF StartInv
    <2>3. CASE isInitialized
      <3>1. init' = init
        BY <1>2, <2>3 DEF TimerFires
      <3> QED BY <1>b, <1>c, <1>d, <2>1, <2>3, <3>1
    <2>4. CASE ~isInitialized
      <3>1. reconnectAttempts' = reconnectAttempts /\ Cardinality(Used') = n + 1
        BY <1>2, <2>4, UsedGrows DEF TimerFires
      <3>2. n + timers <= reconnectAttempts + 1
        BY <1>a, <1>b, <2>2, <2>4
      <3>3. /\ (n + 1) + (timers - 1) <= reconnectAttempts + 1
            /\ n + 1 <= 1 + maxAttempts
        BY <1>a, <2>1, <3>2
      <3> QED BY <1>c, <2>1, <2>2, <3>1, <3>3
    <2> QED BY <2>3, <2>4
  <1>3. ASSUME NEW c \in Cs, Connected(c) \/ ChannelOpens(c) \/ Asserted(c) PROVE CountInv'
    <2>1. Cardinality(Used') = n
      BY <1>3, <1>e DEF Connected, ChannelOpens, Asserted, TypeOK
    <2>2. UNCHANGED <<isInitialized, timers, reconnectAttempts, start>>
      BY <1>3 DEF Connected, ChannelOpens, Asserted, workerVars, serviceVars
    <2> QED BY <1>b, <1>c, <2>1, <2>2
  <1>4. ASSUME NEW c \in Cs, Pooled(c) PROVE CountInv'
    <2>1. Cardinality(Used') = n
      BY <1>4, <1>e DEF Pooled, TypeOK
    <2>2. isInitialized'
      BY <1>4 DEF Pooled
    <2> QED BY <1>b, <1>c, <2>1, <2>2
  <1>5. ASSUME NEW c \in Cs, Fails(c) PROVE CountInv'
    <2>1. Cardinality(Used') = n
      BY <1>5, <1>e DEF Fails, TypeOK
    <2>2. UNCHANGED <<isInitialized, timers, reconnectAttempts>>
      BY <1>5 DEF Fails, serviceVars
    <2>3. start # "idle"
      BY <1>5 DEF Fails, StartInv
    <2>4. start' # "idle"
      BY <1>5, <2>3 DEF Fails
    <2> QED BY <1>b, <1>c, <2>1, <2>2, <2>3, <2>4
  <1>6. CASE Subscribe
    <2>1. UNCHANGED <<init, isInitialized, timers, reconnectAttempts>>
      BY <1>6 DEF Subscribe, serviceVars
    <2>2. start # "idle" /\ start' # "idle"
      BY <1>6 DEF Subscribe
    <2> QED BY <1>b, <1>c, <1>d, <2>1, <2>2
  <1>7. ASSUME NEW c \in Cs, Lose(c) PROVE CountInv'
    <2>1. timers' + reconnectAttempts = timers + reconnectAttempts'
      BY <1>7, <1>a, AttemptIs DEF Lose
    <2>2. UNCHANGED <<init, isInitialized, start>>
      BY <1>7 DEF Lose, workerVars
    <2>3. Cardinality(Used') = n
      BY <1>d, <2>2
    <2>4. timers' \in Nat /\ reconnectAttempts' \in Nat
      BY <1>a DEF TypeOK
    <2>5. n + timers <= reconnectAttempts + one => n + timers' <= reconnectAttempts' + one
      BY <1>a, <2>1, <2>4
    <2> HIDE DEF n
    <2> QED BY <1>b, <1>c, <2>2, <2>3, <2>5
  <1>8. ASSUME UNCHANGED <<init, isInitialized, timers, reconnectAttempts, start>>
        PROVE  CountInv'
    BY <1>b, <1>c, <1>d, <1>8
  <1>9. closer' = closer
    <2>1. closer \in Closers /\ closer' \in Closers
      BY <1>a DEF TypeOK, Closers
    <2>2. \A h \in Handlers : closer[h] = Nothing /\ closer'[h] = Nothing
      BY DEF Closing
    <2> QED BY <2>1, <2>2 DEF Closers
  <1>10. CASE Interrupt
    <2>1. CloseNext("worker", field, object, 1)
      BY <1>10 DEF Interrupt
    <2>2. isInitialized' = isInitialized
      <3>1. \/ isInitialized' = isInitialized
            \/ closer' = [closer EXCEPT !["worker"] = Reporting]
        BY <2>1 DEF CloseNext, Closed
      <3>2. CASE closer' = [closer EXCEPT !["worker"] = Reporting]
        <4>1. closer'["worker"] = Reporting
          BY <3>2, <1>a DEF TypeOK, Handlers
        <4> QED BY <4>1, RecordsDiffer DEF Closing, Handlers
      <3> QED BY <3>1, <3>2
    <2> QED BY <1>8, <1>10, <2>2 DEF Interrupt, workerVars
  <1>11. CASE Terminate
    BY <1>8, <1>11 DEF Terminate, workerVars, Closing, Handlers
  <1>12. ASSUME NEW h \in Handlers, Closes(h) PROVE FALSE
    BY <1>12, RecordsDiffer DEF Closes, Closing
  <1>13. CASE Reports \/ Crash \/ UNCHANGED vars
    BY <1>8, <1>13 DEF Reports, Crash, vars, serviceVars, workerVars
  <1> QED BY <1>1, <1>2, <1>3, <1>4, <1>5, <1>6, <1>7, <1>10, <1>11, <1>12, <1>13 DEF Next

-----------------------------------------------------------------------------
(* Tidiness *)

\* What handler g closes is what the fields F refer to, if it is not yet closed.
Holds(g, F, O) ==
    closer[g].what \in Things =>
        /\ closer[g].of \in Cs
        /\ O[closer[g].what][closer[g].of] \in {"closing", "closed"}
        /\ O[closer[g].what][closer[g].of] = "closing" => closer[g].of = F[closer[g].what]

\* A step of closeConnection leaves things as tidy as it finds them.
LEMMA CloseNextTidy ==
    ASSUME TypeOK, NEW h \in Handlers, NEW F \in Fields, NEW O \in States, NEW i \in 1 .. 4,
           CloseNext(h, F, O, i), init' = init, field' = F, Opening = {},
           \A d \in Cs : O["connection"][d] = "open" =>
                            d = F["connection"] /\ object["connection"][d] = "open",
           NoneOpen, Closing \/ h = "worker",
           \A g \in Handlers : Holds(g, F, O)
    PROVE  (\A d \in Cs : Tidy(d))' /\ NoneOpen' /\ CloserInv'
  <1>a. "connection" \in Things /\ closer \in Closers
    BY DEF Things, TypeOK, Closers
  <1>b. Opening' = {}
    BY DEF Opening
  <1>c. \A u \in Things, d \in Cs :
           \/ object'[u][d] = O[u][d]
           \/ O[u][d] = "open" /\ object'[u][d] = "closing"
    BY CloseNextObjects
  <1>1. (\A d \in Cs : Tidy(d))'
    <2>1. \A d \in Cs : object'["connection"][d] = "open" => d = field'["connection"]
      BY <1>a, <1>c
    <2>2. \A d \in Cs : init'[d] \notin {"connecting", "connected", "asserting", "pooling"}
      BY <1>b DEF Opening
    <2> QED BY <1>b, <2>1, <2>2 DEF Tidy
  <1>2. ASSUME NEW r, closer' = [closer EXCEPT ![h] = r], r # Nothing PROVE Closing'
    <2>1. closer'[h] = r
      BY <1>a, <1>2 DEF Closers
    <2> QED BY <1>2, <2>1 DEF Closing
  <1>3. CASE /\ object' = O
             /\ closer' = closer
             /\ isInitialized' = isInitialized \/ Closing
    <2>1. CloserInv'
      BY <1>3 DEF CloserInv, Holds
    <2>2. Closing' = Closing
      BY <1>3 DEF Closing
    <2>3. NoneOpen'
      BY <1>3, <1>b, <2>2 DEF NoneOpen
    <2> QED BY <1>1, <2>1, <2>3
  <1>4. CASE object' = O /\ closer' = [closer EXCEPT ![h] = Reporting]
    <2>1. NoneOpen'
      BY <1>2, <1>4, RecordsDiffer DEF NoneOpen
    <2>2. ASSUME NEW g \in Handlers, closer'[g].what \in Things
          PROVE  closer'[g] = closer[g]
      BY <1>a, <1>4, <2>2, RecordsDiffer DEF Closers
    <2>3. CloserInv'
      BY <1>4, <2>2 DEF CloserInv, Holds
    <2> QED BY <1>1, <2>1, <2>3
  <1>5. ASSUME NEW t \in Things, F[t] \in Cs, O[t][F[t]] = "open",
               object' = [O EXCEPT ![t][F[t]] = "closing"],
               closer' = [closer EXCEPT ![h] = [what |-> t, of |-> F[t]]]
        PROVE  NoneOpen' /\ CloserInv'
    <2>1. [what |-> t, of |-> F[t]] # Nothing
      <3>1. [what |-> t, of |-> F[t]].what = t
        OBVIOUS
      <3> QED BY <3>1, RecordsDiffer
    <2>2. NoneOpen'
      BY <1>2, <1>5, <2>1 DEF NoneOpen
    <2>3. \A u \in Things, d \in Cs :
             object'[u][d] = IF u = t /\ d = F[t] THEN "closing" ELSE O[u][d]
      BY <1>5, SetOne DEF ObjectStates
    <2>4. closer'[h] = [what |-> t, of |-> F[t]]
      BY <1>a, <1>5 DEF Closers
    <2>5. \A g \in Handlers : g # h => closer'[g] = closer[g]
      BY <1>a, <1>5 DEF Closers
    <2>6. ASSUME NEW g \in Handlers, closer'[g].what \in Things
          PROVE  /\ closer'[g].of \in Cs
                 /\ object'[closer'[g].what][closer'[g].of] \in {"closing", "closed"}
                 /\ object'[closer'[g].what][closer'[g].of] = "closing" =>
                       closer'[g].of = field'[closer'[g].what]
      <3>1. CASE g = h
        <4>1. closer'[g].what = t /\ closer'[g].of = F[t]
          BY <2>4, <3>1
        <4> QED BY <1>5, <2>3, <4>1
      <3>2. CASE g # h
        <4>1. closer'[g] = closer[g]
          BY <2>5, <3>2
        <4>2. Holds(g, F, O)
          OBVIOUS
        <4>3. /\ closer[g].of \in Cs
              /\ O[closer[g].what][closer[g].of] \in {"closing", "closed"}
              /\ O[closer[g].what][closer[g].of] = "closing" => closer[g].of = F[closer[g].what]
          BY <2>6, <4>1, <4>2 DEF Holds
        <4>4. object'[closer[g].what][closer[g].of] = O[closer[g].what][closer[g].of]
          BY <1>5, <2>3, <2>6, <4>1, <4>3
        <4> QED BY <4>1, <4>3, <4>4
      <3> QED BY <3>1, <3>2
    <2>7. CloserInv'
      BY <2>6 DEF CloserInv
    <2> QED BY <2>2, <2>7
  <1>6. isInitialized' = isInitialized \/ Closing \/ closer' = [closer EXCEPT ![h] = Reporting]
    BY DEF CloseNext, Closed
  <1>7. \/ object' = O /\ closer' = closer
        \/ object' = O /\ closer' = [closer EXCEPT ![h] = Reporting]
        \/ \E t \in Things :
              /\ F[t] \in Cs
              /\ O[t][F[t]] = "open"
              /\ object' = [O EXCEPT ![t][F[t]] = "closing"]
              /\ closer' = [closer EXCEPT ![h] = [what |-> t, of |-> F[t]]]
              /\ isInitialized' = isInitialized
              /\ process' = process
    BY CloseNextIs
  <1>8. CASE object' = O /\ closer' = closer
    BY <1>3, <1>4, <1>6, <1>8
  <1> QED BY <1>1, <1>4, <1>5, <1>7, <1>8

\* An initialization that begins alone finds no connection open.
LEMMA ConnectingTidy ==
    ASSUME TypeOK, TidyInv, NEW c \in Cs, Connecting(c), ~overlapped', ~isInitialized,
           UNCHANGED <<field, object, closer, isInitialized>>
    PROVE  TidyInv'
  <1>1. ~overlapped /\ Opening = {} /\ ~Closing
    BY DEF Connecting
  <1>2. \A d \in Cs : object["connection"][d] # "open"
    BY <1>1 DEF TidyInv, NoneOpen
  <1>3. Opening' = {c}
    BY <1>1 DEF Connecting, Opening, TypeOK
  <1>4. ~Closing'
    BY <1>1 DEF Closing
  <1>5. \A d \in Cs : init'[d] \in {"connecting", "connected", "asserting", "pooling"} =>
                         d = c /\ init'[d] = "connecting"
    BY <1>1 DEF Connecting, Opening, TypeOK
  <1>6. (\A d \in Cs : Tidy(d))'
    BY <1>2, <1>3, <1>4, <1>5 DEF Tidy
  <1>7. NoneOpen' /\ CloserInv'
    BY <1>1, <1>2, <1>3 DEF TidyInv, NoneOpen, CloserInv
  <1> QED BY <1>6, <1>7 DEF TidyInv

\* The initialization that runs alone goes on.
LEMMA OpeningTidy ==
    ASSUME TypeOK, TidyInv, [Next]_vars, ~overlapped, NEW c \in Cs,
           Connected(c) \/ ChannelOpens(c) \/ Asserted(c)
    PROVE  TidyInv'
  <1>a. /\ DOMAIN init = Cs
        /\ field \in Fields
        /\ object \in States
        /\ Things = {"pool", "channel", "connection"}
        /\ {"open", "closing", "closed"} \subseteq ObjectStates
    BY DEF TypeOK, Fields, States, Things, ObjectStates
  <1>1. c \in Opening /\ UNCHANGED <<closer, isInitialized, overlapped>>
    BY DEF Connected, ChannelOpens, Asserted, Opening, historyVars, serviceVars
  <1>2. ~Closing /\ ~isInitialized /\ Opening = {c} /\ ~Closing'
    BY <1>1 DEF TidyInv, Tidy, Closing
  <1>3. Opening' = {c} /\ \A d \in Cs : d # c => init'[d] = init[d] /\ init'[d] = init[d]
    BY <1>a, <1>2 DEF Opening, Connected, ChannelOpens, Asserted
  <1>4. \A d \in Cs : d # c =>
           init'[d] \notin {"connecting", "connected", "asserting", "pooling"}
    BY <1>3 DEF Opening
  <1>5. CloserInv' /\ NoneOpen'
    <2>1. \A g \in Handlers : closer'[g].what \notin Things
      BY <1>2, RecordsDiffer DEF Closing
    <2> QED BY <1>3, <2>1 DEF CloserInv, NoneOpen
  <1>6. ASSUME \A d \in Cs : object'["connection"][d] = "open" => d = field'["connection"],
               init'[c] \in {"connected", "asserting", "pooling"},
               field'["connection"] = c,
               init'[c] \in {"asserting", "pooling"} =>
                   /\ field'["channel"] = c
                   /\ object'["channel"][c] = "open" \/ object'["connection"][c] # "open"
        PROVE  TidyInv'
    <2>1. (\A d \in Cs : Tidy(d))'
      BY <1>1, <1>2, <1>3, <1>4, <1>6 DEF Tidy
    <2> QED BY <1>5, <2>1 DEF TidyInv
  <1>7. CASE Connected(c)
    <2>1. /\ init[c] = "connecting"
          /\ init'[c] = "connected"
          /\ object' = [object EXCEPT !["connection"][c] = "open"]
          /\ field' = [field EXCEPT !["connection"] = c]
      BY <1>7, <1>a DEF Connected
    <2>2. \A d \in Cs : object["connection"][d] # "open"
      BY <2>1 DEF TidyInv, Tidy
    <2>3. field'["connection"] = c
      BY <1>a, <2>1 DEF Fields
    <2>4. \A d \in Cs : object'["connection"][d] = "open" => d = c
      BY <1>a, <2>1, <2>2, SetOne
    <2> QED BY <1>6, <2>1, <2>3, <2>4
  <1>8. CASE ChannelOpens(c)
    <2>1. /\ init[c] = "connected"
          /\ init'[c] = "asserting"
          /\ object' = [object EXCEPT !["channel"][c] = "open"]
          /\ field' = [field EXCEPT !["channel"] = c]
      BY <1>8, <1>a DEF ChannelOpens
    <2>2. /\ field["connection"] = c
          /\ \A d \in Cs : object["connection"][d] = "open" => d = field["connection"]
      BY <2>1 DEF TidyInv, Tidy
    <2>3. field'["connection"] = c /\ field'["channel"] = c
      BY <1>a, <2>1, <2>2 DEF Fields
    <2>4. /\ object'["channel"][c] = "open"
          /\ \A d \in Cs : object'["connection"][d] = object["connection"][d]
      BY <1>a, <2>1, SetOne
    <2> QED BY <1>6, <2>1, <2>2, <2>3, <2>4
  <1>9. CASE Asserted(c)
    <2>1. /\ init[c] = "asserting"
          /\ init'[c] = "pooling"
          /\ UNCHANGED <<object, field>>
      BY <1>9, <1>a DEF Asserted, serviceVars
    <2> QED BY <1>6, <2>1 DEF TidyInv, Tidy
  <1> QED BY <1>7, <1>8, <1>9

\* What isInitialized promises, and tidiness, depend on these variables only.
LEMMA SameTidy ==
    ASSUME UNCHANGED <<init, field, object, closer, isInitialized>>
    PROVE  /\ (\A c \in Cs : Tidy(c))' = (\A c \in Cs : Tidy(c))
           /\ NoneOpen' = NoneOpen
           /\ CloserInv' = CloserInv
  <1>1. Opening' = Opening /\ Closing' = Closing
    BY DEF Opening, Closing
  <1> QED BY <1>1 DEF Tidy, NoneOpen, CloserInv

\* The initialization that ran alone ends.
LEMMA DoneTidy ==
    ASSUME TypeOK, TidyInv, ~overlapped, NEW c \in Cs, Pooled(c) \/ Fails(c)
    PROVE  TidyInv'
  <1>a. /\ DOMAIN init = Cs
        /\ field \in Fields
        /\ object \in States
        /\ Things = {"pool", "channel", "connection"}
        /\ "open" \in ObjectStates
    BY DEF TypeOK, Fields, States, Things, ObjectStates
  <1>1. c \in Opening /\ closer' = closer
    BY DEF Pooled, Fails, Opening
  <1>2. ~Closing /\ ~isInitialized /\ Opening = {c} /\ ~Closing'
    BY <1>1 DEF TidyInv, Tidy, Closing
  <1>3. init'[c] \in {"done", "failed"} /\ \A d \in Cs : d # c => init'[d] = init[d]
    BY <1>a DEF Pooled, Fails
  <1>4. \A d \in Cs : init'[d] \notin {"connecting", "connected", "asserting", "pooling"}
    BY <1>2, <1>3 DEF Opening
  <1>5. Opening' = {}
    BY <1>4 DEF Opening
  <1>6. CloserInv'
    <2>1. \A g \in Handlers : closer'[g].what \notin Things
      BY <1>2, RecordsDiffer DEF Closing
    <2> QED BY <2>1 DEF CloserInv
  <1>7. \A d \in Cs : object["connection"][d] = "open" => d = field["connection"]
    BY DEF TidyInv, Tidy
  <1>8. ASSUME \A d \in Cs : object'["connection"][d] = object["connection"][d],
               field'["connection"] = field["connection"]
        PROVE  (\A d \in Cs : Tidy(d))'
    BY <1>4, <1>5, <1>7, <1>8 DEF Tidy
  <1>9. CASE Pooled(c)
    <2>1. /\ field["connection"] \in Cs
          /\ object' = [object EXCEPT !["pool"][field["connection"]] = "open"]
          /\ field' = [field EXCEPT !["pool"] = field["connection"]]
          /\ isInitialized'
      BY <1>9, <1>a DEF Pooled, Usable, Fields
    <2>2. \A d \in Cs : object'["connection"][d] = object["connection"][d]
      BY <1>a, <2>1, SetOne
    <2>3. field'["connection"] = field["connection"]
      BY <1>a, <2>1 DEF Fields
    <2>4. NoneOpen'
      BY <2>1 DEF NoneOpen
    <2> QED BY <1>6, <1>8, <2>2, <2>3, <2>4 DEF TidyInv
  <1>10. CASE Fails(c)
    <2>1. UNCHANGED <<object, field>>
      BY <1>10 DEF Fails, serviceVars
    <2>2. /\ init[c] = "connecting" => \A d \in Cs : object["connection"][d] # "open"
          /\ init[c] \in {"connected", "asserting", "pooling"} => field["connection"] = c
          /\ init[c] \in {"asserting", "pooling"} =>
                /\ field["channel"] = c
                /\ object["channel"][c] = "open" \/ object["connection"][c] # "open"
      BY DEF TidyInv, Tidy
    <2>3. c # none
      BY RabbitConnectionAssumption DEF Cs, none
    <2>4. \A d \in Cs : object["connection"][d] # "open"
      <3>1. CASE init[c] = "connecting"
        BY <2>2, <3>1
      <3>2. CASE init[c] = "connected" /\ object["connection"][c] # "open"
        BY <1>7, <2>2, <3>2
      <3>3. CASE init[c] = "asserting" /\ ~Usable("channel")
        BY <1>7, <2>2, <2>3, <3>3 DEF Usable
      <3>4. CASE init[c] = "pooling" /\ ~Usable("connection")
        BY <1>7, <2>2, <2>3, <3>4 DEF Usable
      <3> QED BY <1>10, <3>1, <3>2, <3>3, <3>4 DEF Fails
    <2>5. NoneOpen'
      BY <2>1, <2>4 DEF NoneOpen
    <2> QED BY <1>6, <1>8, <2>1, <2>5 DEF TidyInv
  <1> QED BY <1>9, <1>10

\* A connection that is lost leaves nothing open.
LEMMA LoseTidy ==
    ASSUME TypeOK, TidyInv, ~overlapped, NEW c \in Cs, Lose(c)
    PROVE  TidyInv'
  <1>1. UNCHANGED <<init, field, closer, isInitialized>>
    BY DEF Lose
  <1>2. Opening' = Opening /\ Closing' = Closing
    BY <1>1 DEF Opening, Closing
  <1>3. \A u \in Things, d \in Cs :
           object'[u][d] = IF d = c /\ object[u][d] # "none" THEN "closed" ELSE object[u][d]
    BY GoneIs DEF Lose, TypeOK, States
  <1>4. "connection" \in Things /\ "channel" \in Things
    BY DEF Things
  <1>5. object["connection"][c] = "open"
    BY DEF Lose
  <1>6. \A d \in Cs :
           /\ object'["connection"][d] = "open" => object["connection"][d] = "open"
           /\ object["channel"][d] = "open" \/ object["connection"][d] # "open"
                => object'["channel"][d] = "open" \/ object'["connection"][d] # "open"
    BY <1>3, <1>4, <1>5
  <1>7. (\A d \in Cs : Tidy(d))'
    <2>1. \A d \in Cs : Tidy(d)
      BY DEF TidyInv
    <2> QED BY <1>1, <1>2, <1>6, <2>1 DEF Tidy
  <1>8. NoneOpen'
    BY <1>1, <1>2, <1>6 DEF TidyInv, NoneOpen
  <1>9. CloserInv'
    <2>1. CloserInv
      BY DEF TidyInv
    <2> QED BY <1>1, <1>3, <2>1 DEF CloserInv
  <1> QED BY <1>7, <1>8, <1>9 DEF TidyInv

\* What is confirmed closed was what its field referred to, and the field is
\* empty now.
LEMMA ClosesTidy ==
    ASSUME TypeOK, TidyInv, ~overlapped, NEW h \in Handlers, Closes(h)
    PROVE  TidyInv'
  <1>1. PICK t \in Things, c \in Cs, F \in Fields, O \in States, i \in 1 .. 4 :
              /\ closer[h] = [what |-> t, of |-> c]
              /\ object[t][c] = "closing"
              /\ field' = F
              /\ F[t] = none
              /\ \A u \in Things : u # t => F[u] = field[u]
              /\ \A u \in Things, d \in Cs :
                    O[u][d] = IF d = c /\ (u = t \/ t = "connection") /\ object[u][d] # "none"
                              THEN "closed" ELSE object[u][d]
              /\ CloseNext(h, F, O, i)
    BY ClosesIs
  <1>2. "connection" \in Things /\ closer[h].what = t /\ closer[h].of = c
    BY <1>1 DEF Things
  <1>3. c = field[t]
    BY <1>1, <1>2 DEF TidyInv, CloserInv
  <1>4. Closing
    BY <1>2, RecordsDiffer DEF Closing
  <1>5. Opening = {}
    BY <1>4 DEF TidyInv, Tidy, Opening
  <1>6. \A d \in Cs : O["connection"][d] = "open" =>
                         d = F["connection"] /\ object["connection"][d] = "open"
    <2>1. \A d \in Cs : object["connection"][d] = "open" => d = field["connection"]
      BY DEF TidyInv, Tidy
    <2> QED BY <1>1, <1>2, <1>3, <2>1
  <1>7. ASSUME NEW g \in Handlers PROVE Holds(g, F, O)
    <2> DEFINE u == closer[g].what
               e == closer[g].of
    <2>1. SUFFICES ASSUME u \in Things
                   PROVE  /\ e \in Cs
                          /\ O[u][e] \in {"closing", "closed"}
                          /\ O[u][e] = "closing" => e = F[u]
      BY DEF Holds
    <2>2. /\ e \in Cs
          /\ object[u][e] \in {"closing", "closed"}
          /\ object[u][e] = "closing" => e = field[u]
      BY <2>1 DEF TidyInv, CloserInv
    <2> HIDE DEF u, e
    <2>3. O[u][e] = IF e = c /\ (u = t \/ t = "connection") THEN "closed" ELSE object[u][e]
      BY <1>1, <2>1, <2>2
    <2> QED BY <1>1, <1>3, <2>1, <2>2, <2>3
  <1>8. init' = init /\ ~overlapped'
    BY DEF Closes, historyVars
  <1>9. NoneOpen
    BY DEF TidyInv
  <1> QED BY <1>1, <1>4, <1>5, <1>6, <1>7, <1>8, <1>9, CloseNextTidy DEF TidyInv

\* A shutdown begins while no initialization runs.
LEMMA BeginsTidy ==
    ASSUME TypeOK, TidyInv, ~overlapped, NEW h \in Handlers, Closing \/ h = "worker",
           CloseNext(h, field, object, 1), UNCHANGED <<init, field>>, Opening = {}
    PROVE  TidyInv'
  <1>1. field \in Fields /\ object \in States /\ 1 \in 1 .. 4
    BY DEF TypeOK, Fields, States
  <1>2. \A d \in Cs : object["connection"][d] = "open" => d = field["connection"]
    BY DEF TidyInv, Tidy
  <1>3. \A g \in Handlers : Holds(g, field, object)
    BY DEF TidyInv, CloserInv, Holds
  <1>4. NoneOpen
    BY DEF TidyInv
  <1> QED BY <1>1, <1>2, <1>3, <1>4, CloseNextTidy DEF TidyInv

LEMMA TidyStep == TypeOK /\ StartInv /\ TidyInv /\ [Next]_vars => TidyInv'
  <1> SUFFICES ASSUME TypeOK, StartInv, TidyInv, [Next]_vars, ~overlapped' PROVE TidyInv'
    BY DEF TidyInv
  <1>1. ~overlapped
    BY DEF Next, Start, Connecting, Connected, ChannelOpens, Asserted, Pooled, Fails, Subscribe,
           Lose, TimerFires, Interrupt, Terminate, Closes, Reports, Crash, vars, historyVars, TypeOK
  <1>2. ASSUME UNCHANGED <<init, field, object, closer, isInitialized>> PROVE TidyInv'
    BY <1>1, <1>2, SameTidy DEF TidyInv
  <1>3. CASE Start
    BY <1>3, ConnectingTidy DEF Start, StartInv, serviceVars
  <1>4. CASE TimerFires
    <2>1. CASE isInitialized
      BY <1>2, <1>4, <2>1 DEF TimerFires
    <2>2. CASE ~isInitialized
      BY <1>4, <2>2, ConnectingTidy DEF TimerFires
    <2> QED BY <2>1, <2>2
  <1>5. CASE Interrupt
    BY <1>1, <1>5, BeginsTidy DEF Interrupt, Handlers
  <1>6. CASE Terminate
    <2>1. CASE closer["worker"] = Nothing
      BY <1>2, <1>6, <2>1 DEF Terminate
    <2>2. CASE closer["worker"] # Nothing
      <3>1. Closing
        BY <2>2 DEF Closing, Handlers
      <3> QED BY <1>1, <1>6, <2>2, <3>1, BeginsTidy DEF Terminate, Handlers
    <2> QED BY <2>1, <2>2
  <1>7. CASE Subscribe \/ Reports \/ Crash \/ UNCHANGED vars
    BY <1>2, <1>7 DEF Subscribe, Reports, Crash, vars, serviceVars
  <1> QED BY <1>1, <1>3, <1>4, <1>5, <1>6, <1>7, OpeningTidy, DoneTidy, LoseTidy, ClosesTidy
          DEF Next

\* No step breaks what isInitialized promises.
LEMMA UsableStep ==
    ASSUME TypeOK, StartInv, TidyInv, InitializedMeansUsable, [Next]_vars
    PROVE  InitializedMeansUsable'
  <1> SUFFICES ASSUME isInitialized', ~overlapped', ~lost', ~Closing'
               PROVE  \A t \in Things : Usable(t)' /\ field'[t] = field'["connection"]
    BY DEF InitializedMeansUsable
  <1>a. /\ field \in Fields
        /\ object \in States
        /\ closer \in Closers
        /\ isInitialized \in BOOLEAN
        /\ Things = {"pool", "channel", "connection"}
        /\ "open" \in ObjectStates
        /\ none \notin Cs
    BY RabbitConnectionAssumption DEF TypeOK, Fields, States, Closers, Things, ObjectStates, Cs, none
  <1>1. ~Closing
    BY ClosingStays
  <1>2. ~overlapped /\ ~lost
    BY DEF Next, Start, Connecting, Connected, ChannelOpens, Asserted, Pooled, Fails, Subscribe,
           Lose, TimerFires, Interrupt, Terminate, Closes, Reports, Crash, vars, historyVars, TypeOK
  <1>3. ASSUME isInitialized, UNCHANGED <<field, object>>
        PROVE  \A t \in Things : Usable(t)' /\ field'[t] = field'["connection"]
    BY <1>1, <1>2, <1>3 DEF InitializedMeansUsable, Usable
  <1>4. ASSUME NEW c \in Cs, c \in Opening PROVE ~isInitialized
    BY <1>2, <1>4 DEF TidyInv, Tidy
  <1>5. CASE Start
    BY <1>5 DEF Start, StartInv, serviceVars
  <1>6. CASE TimerFires
    BY <1>3, <1>6 DEF TimerFires
  <1>7. ASSUME NEW c \in Cs, Connected(c) \/ ChannelOpens(c) \/ Asserted(c) \/ Fails(c)
        PROVE  FALSE
    <2>1. c \in Opening /\ isInitialized' = isInitialized
      BY <1>7 DEF Connected, ChannelOpens, Asserted, Fails, Opening, serviceVars
    <2> QED BY <1>4, <2>1
  <1>8. ASSUME NEW c \in Cs, Pooled(c)
        PROVE  \A t \in Things : Usable(t)' /\ field'[t] = field'["connection"]
    <2>1. /\ init[c] = "pooling"
          /\ object["connection"][field["connection"]] = "open"
          /\ object' = [object EXCEPT !["pool"][field["connection"]] = "open"]
          /\ field' = [field EXCEPT !["pool"] = field["connection"]]
      BY <1>8 DEF Pooled, Usable
    <2>2. /\ field["connection"] = c
          /\ field["channel"] = c
          /\ object["channel"][c] = "open" \/ object["connection"][c] # "open"
      BY <1>2, <2>1 DEF TidyInv, Tidy
    <2>3. \A t \in Things : field'[t] = c
      BY <1>a, <2>1, <2>2 DEF Fields
    <2>4. \A t \in Things : object'[t][c] = "open"
      BY <1>a, <2>1, <2>2, SetOne
    <2> QED BY <1>a, <2>3, <2>4 DEF Usable
  <1>9. ASSUME NEW c \in Cs, Lose(c) PROVE FALSE
    BY <1>9 DEF Lose
  <1>10. ASSUME NEW h \in Handlers, Closes(h) PROVE FALSE
    BY <1>1, <1>10, RecordsDiffer DEF Closes, Closing
  <1>11. closer' = closer
    <2>1. closer' \in Closers
      BY TypeStep DEF TypeOK, Closers
    <2>2. \A h \in Handlers : closer[h] = Nothing /\ closer'[h] = Nothing
      BY <1>1 DEF Closing
    <2> QED BY <1>a, <2>1, <2>2 DEF Closers
  <1>12. CASE Interrupt
    <2>1. CloseNext("worker", field, object, 1) /\ field' = field
      BY <1>12 DEF Interrupt
    <2>2. isInitialized
      BY <2>1 DEF CloseNext, Closed
    <2>3. ASSUME NEW t \in Things, NEW d \in Cs,
                 closer' = [closer EXCEPT !["worker"] = [what |-> t, of |-> d]]
          PROVE  FALSE
      <3>1. closer'["worker"] = [what |-> t, of |-> d]
        BY <1>a, <2>3 DEF Closers, Handlers
      <3>2. closer["worker"] = Nothing
        BY <1>1 DEF Closing, Handlers
      <3> QED BY <1>11, <3>1, <3>2, RecordsDiffer
    <2>4. object' = object
      <3>1. \/ object' = object
            \/ isInitialized' = FALSE
            \/ \E t \in Things :
                  /\ field[t] \in Cs
                  /\ object[t][field[t]] = "open"
                  /\ object' = [object EXCEPT ![t][field[t]] = "closing"]
                  /\ closer' = [closer EXCEPT !["worker"] = [what |-> t, of |-> field[t]]]
                  /\ isInitialized' = isInitialized
                  /\ process' = process
        <4>1. "worker" \in Handlers /\ 1 \in 1 .. 4
          BY DEF Handlers
        <4> QED BY <1>a, <2>1, <4>1, CloseNextIs
      <3> QED BY <2>3, <3>1
    <2> QED BY <1>3, <2>1, <2>2, <2>4
  <1>13. CASE Terminate
    BY <1>1, <1>3, <1>13 DEF Terminate, Closing, Handlers
  <1>14. CASE Subscribe \/ Reports \/ Crash \/ UNCHANGED vars
    BY <1>3, <1>14 DEF Subscribe, Reports, Crash, vars, serviceVars
  <1> QED BY <1>5, <1>6, <1>7, <1>8, <1>9, <1>10, <1>12, <1>13, <1>14 DEF Next

-----------------------------------------------------------------------------
(* The theorems *)

LEMMA InitInv == Init => IInv
  <1> SUFFICES ASSUME Init PROVE IInv
    OBVIOUS
  <1>1. TypeOK
    <2>1. 0 \in 0 .. maxAttempts
      BY RabbitConnectionAssumption
    <2> QED BY <2>1 DEF Init, TypeOK, ObjectStates
  <1>2. Used = {}
    BY DEF Init, Used
  <1>3. ~Closing /\ Opening = {}
    BY DEF Init, Closing, Opening
  <1>4. StartInv /\ LinkInv
    BY DEF Init, StartInv, LinkInv, Opening, Things
  <1>5. CountInv
    BY <1>2, UsedIs, RabbitConnectionAssumption DEF Init, CountInv
  <1>6. \A h \in Handlers : closer[h].what \notin Things
    BY RecordsDiffer DEF Init
  <1>7. \A c \in Cs : object["connection"][c] = "none" /\ init[c] = "unused"
    BY DEF Init, Things
  <1>8. TidyInv
    BY <1>3, <1>6, <1>7 DEF TidyInv, Tidy, NoneOpen, CloserInv
  <1>9. InitializedMeansUsable
    BY DEF Init, InitializedMeansUsable
  <1> QED BY <1>1, <1>4, <1>5, <1>8, <1>9 DEF IInv

\* The inductive invariant holds in every state.
THEOREM RabbitInvariance == Spec => []IInv
  <1>1. Init => IInv
    BY InitInv
  <1>2. IInv /\ [Next]_vars => IInv'
    BY TypeStep, StartStep, LinkStep, CountStep, TidyStep, UsableStep DEF IInv
  <1> QED BY <1>1, <1>2, PTL DEF Spec

\* reconnectAttempts stays within its limit, and the variables within their
\* types, whatever order events, timers and signals come in.
THEOREM RabbitTypeCorrect == Spec => []TypeOK
  <1>1. IInv => TypeOK
    BY DEF IInv
  <1> QED BY <1>1, RabbitInvariance, PTL

\* Only initializations that overlap leave a connection open that the service
\* no longer refers to.
THEOREM StraysAreExplained == Spec => []NoStrayConnection
  <1>1. IInv => NoStrayConnection
    BY DEF IInv, TidyInv, Tidy, NoStrayConnection
  <1> QED BY <1>1, RabbitInvariance, PTL

\* isInitialized tells the truth until a connection is lost or closed.
THEOREM InitializedIsUsable == Spec => []InitializedMeansUsable
  <1>1. IInv => InitializedMeansUsable
    BY DEF IInv
  <1> QED BY <1>1, RabbitInvariance, PTL

\* A process opens at most 1 + maxAttempts connections before it shuts down.
THEOREM AttemptsAreLimited == Spec => []AttemptsLimited
  <1>1. IInv => AttemptsLimited
    BY DEF IInv, CountInv, AttemptsLimited, Used
  <1> QED BY <1>1, RabbitInvariance, PTL

\* A worker consumes over one connection in its life, which is all that Broker
\* assumes of it.
THEOREM LinkIsImplemented == Spec => ImplementsLink
  <1>1. Init => Link!Init
    BY DEF Init, Link!Init, workerLink
  <1>2. IInv /\ [Next]_vars => [Link!Next]_workerLink
    BY LinkRefines DEF IInv, Link!Next, Link!Connect, Link!Lose, Link!End
  <1> QED BY <1>1, <1>2, RabbitInvariance, PTL DEF Spec, ImplementsLink, Link!Spec

=============================================================================
