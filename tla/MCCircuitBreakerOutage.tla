----------------------- MODULE MCCircuitBreakerOutage -----------------------
(***************************************************************************)
(* CircuitBreaker with a history variable: the failed results in a row     *)
(* that chat.ts has counted against the registered breaker.                *)
(***************************************************************************)
EXTENDS MCCircuitBreaker

VARIABLE inARow

\* A failed result was counted in this step.
Counted ==
    /\ registered # NoObj
    /\ breaker'[registered].failureCount > breaker[registered].failureCount
    /\ \E r \in Req : Failed(r) /\ request'[r].phase = "idle"

\* The row of failures ends: a result was served, or the breaker was reset,
\* dropped or lost.
Broken ==
    \/ \E r \in Req : request'[r].phase = "ok"
    \/ registered' # registered
    \/ registered # NoObj /\ breaker'[registered] = ResetBreaker(breaker[registered])

CountInARow ==
    inARow' = IF Broken THEN 0 ELSE IF Counted THEN inARow + 1 ELSE inARow

OutageInit == Init /\ inARow = 0

\* Requests without a forced connection.
Unforced == \A r \in Req : request'[r].phase # "bypassing"

OutageSpec == OutageInit /\ [][Next /\ Unforced /\ CountInARow]_<<vars, inARow>>

\* "Failure Threshold - Consecutive provider failures before entering OPEN"
\* (docs/guides/USER_GUIDE.md:892): once as many failed results in a row have been
\* counted as the threshold says, the breaker does not go on passing traffic.
ConsecutiveFailuresOpen ==
    registered # NoObj /\ inARow >= breaker[registered].options.failureThreshold
        => breaker[registered].state \in {"OPEN", "HALF_OPEN"}
=============================================================================
