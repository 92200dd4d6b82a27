------------------------ MODULE MCRateLimitSemaphore ------------------------
(***************************************************************************)
(* Bounds for RateLimitSemaphore: three requests, caps 1 and 2 (2 stands   *)
(* for the default that markRateLimited writes), two timers in flight.     *)
(***************************************************************************)
EXTENDS RateLimitSemaphore

CONSTANTS r1, r2, r3

MCReq == {r1, r2, r3}

\* Unbounded, fail over at once, room for one.
MCQueueSizes == {-1, 0, 1}
=============================================================================
