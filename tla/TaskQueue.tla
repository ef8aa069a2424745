----------------------------- MODULE TaskQueue -----------------------------
(***************************************************************************)
(* What a consumer of a durable queue promises: a task that was posted is  *)
(* kept until it has been done, possibly more than once, and is lost only  *)
(* with an excuse.                                                         *)
(***************************************************************************)

CONSTANT Tasks

VARIABLES status,    \* where each task stands
          excused    \* the tasks that may be lost

vars == <<status, excused>>

Init ==
    /\ status = [t \in Tasks |-> "absent"]
    /\ excused = {}

Post(t) ==
    /\ status[t] = "absent"
    /\ status' = [status EXCEPT ![t] = "queued"]
    /\ UNCHANGED excused

Do(t) ==
    /\ status[t] \in {"queued", "lost"}
    /\ status' = [status EXCEPT ![t] = "done"]
    /\ UNCHANGED excused

\* Something happens that excuses the loss of the tasks of S, and some of them
\* are lost at once.
Trouble(S) ==
    /\ excused' = excused \cup S
    /\ \E L \in SUBSET excused' :
          /\ \A t \in L : status[t] = "queued"
          /\ status' = [t \in Tasks |-> IF t \in L THEN "lost" ELSE status[t]]

Next ==
    \/ \E t \in Tasks : Post(t) \/ Do(t)
    \/ \E S \in SUBSET Tasks : Trouble(S)

Spec == Init /\ [][Next]_vars

=============================================================================
