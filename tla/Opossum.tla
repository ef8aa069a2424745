------------------------------ MODULE Opossum ------------------------------
(***************************************************************************)
(* The states of an opossum circuit breaker (opossum is a library: this is *)
(* how the services use it).  A closed breaker counts failures over a      *)
(* rolling window and opens when a percentage and a volume are reached;    *)
(* the window is abstracted: any failure may open it.  An open breaker     *)
(* refuses every fire until its reset timer makes it half open; then one   *)
(* fire is let through, the trial, and its outcome closes or re-opens it.  *)
(***************************************************************************)

BreakerState == {"closed", "open", "halfOpen", "trial"}

\* breaker.fire() runs the operation, or rejects at once.
Admits(s) == s \in {"closed", "halfOpen"}

\* The half-open breaker lets one fire through and refuses the next ones.
OnFire(s) == IF s = "halfOpen" THEN "trial" ELSE s

\* A fire that settled in time with a value.
OnSuccess(s) == IF s \in {"halfOpen", "trial"} THEN "closed" ELSE s

\* A fire that was rejected by its operation or ran into the timeout.
OnFailure(s) == IF s = "closed" THEN {"closed", "open"} ELSE {"open"}

\* Every assignment of states in which the breakers of S have seen a failure.
AfterFailures(breaker, S) ==
    {g \in [DOMAIN breaker -> BreakerState] :
        \A b \in DOMAIN breaker :
            IF b \in S THEN g[b] \in OnFailure(breaker[b])
                       ELSE g[b] = breaker[b]}

AfterSuccesses(breaker, S) ==
    [b \in DOMAIN breaker |->
        IF b \in S THEN OnSuccess(breaker[b]) ELSE breaker[b]]

AfterFires(breaker, S) ==
    [b \in DOMAIN breaker |->
        IF b \in S THEN OnFire(breaker[b]) ELSE breaker[b]]

=============================================================================
