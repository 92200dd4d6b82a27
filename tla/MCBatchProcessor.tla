-------------------------- MODULE MCBatchProcessor --------------------------
(***************************************************************************)
(* Bounds for BatchProcessor: two batches of at most two items, one active *)
(* at a time (the default of BATCH_MAX_CONCURRENT), two restarts.          *)
(***************************************************************************)
EXTENDS BatchProcessor, TLC

CONSTANTS b1, b2

MCBatch == {b1, b2}

File(kind, n) == [kind |-> kind, lines |-> n]

\* b1 is a batch of two items; b2 competes with it for the place in the pool.
MCFiles == (b1 :> {File("valid", 2), File("invalid", 1)}) @@ (b2 :> {File("valid", 0)})
=============================================================================
