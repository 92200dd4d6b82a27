--------------------------- MODULE BatchProcessor ---------------------------
(***************************************************************************)
(* open-sse/services/batchProcessor.ts with the rows it keeps              *)
(* (src/lib/db/batches.ts) and the routes that create, cancel and delete a *)
(* batch (src/app/api/v1/batches).                                         *)
(*                                                                         *)
(* A batch is a file of requests.  A poll starts it; a background loop     *)
(* sends its items one after the other and writes a checkpoint before and  *)
(* after each.  Rows and checkpoints survive a crash, the loop, the set of *)
(* active batches and the cached headers do not.  What runs between two    *)
(* awaits is one action, but for finalizeBatch: it has no await, so that   *)
(* nothing interleaves with it, and a crash may still cut it short.        *)
(***************************************************************************)
EXTENDS Integers, FiniteSets

CONSTANTS
    Batch,          \* batches that clients may create
    MaxItems,       \* bound of the lines of an input file
    Files,          \* the input files a batch may be created with
    MaxConcurrent,  \* BATCH_MAX_CONCURRENT
    MaxRetries,     \* ceiling of attempts for one item
    MaxCrashes      \* bound of the restarts of the process

ASSUME BatchAssumption ==
    /\ IsFiniteSet(Batch)
    /\ MaxItems \in Nat
    /\ Files \in [Batch -> SUBSET [kind : {"valid", "invalid"}, lines : 0..MaxItems]]
    /\ MaxConcurrent \in Nat \ {0}
    /\ MaxRetries \in Nat \ {0}
    /\ MaxCrashes \in Nat

VARIABLES
    row,      \* the row of every batch
    ckpt,     \* batch_item_checkpoints: the status of every item
    input,    \* the input file
    lines,    \* how many requests it holds
    age,      \* time since creation: 1 past the window, 2 past 30 days
    active,   \* activeBatches
    loop,     \* processBatchItems of every batch, "none" when not running
    cached,   \* prevHeaders, of the last answer to any batch
    crashes,  \* restarts so far
    sends,    \* history: sends of an item that the provider did not refuse
    late      \* history: items first sent after the batch was cancelled

durable == <<row, ckpt, input, lines, age>>
volatile == <<active, loop, cached>>
history == <<crashes, sends, late>>
vars == <<row, ckpt, input, lines, age, active, loop, cached, crashes, sends, late>>

Item == 1..MaxItems

Terminal == {"completed", "failed", "cancelled", "expired"}

\* "unborn" and "deleted": there is no row.
Status == Terminal \cup {"unborn", "validating", "in_progress", "finalizing",
                         "cancelling", "deleted"}

Row == [status : Status, total : 0..MaxItems, completed : 0..MaxItems, failed : 0..MaxItems,
        output : BOOLEAN, errors : BOOLEAN]

\* "ok" and "bad" are the completed checkpoints whose stored answer counts as
\* a success and as a failure; "absent" means there is no checkpoint.
Checkpoint == {"absent", "pending", "processing", "ok", "bad", "errored"}

\* "top": the head of the loop; "throttled", "backoff": the two sleeps;
\* "waiting": a request is out; "counting", "completing": inside finalizeBatch.
Loop == [pc : {"none", "top", "throttled", "waiting", "backoff", "counting", "completing"},
         item : 1..(MaxItems + 1), seen : [Item -> Checkpoint], attempt : 0..MaxRetries,
         completed : 0..MaxItems, failed : 0..MaxItems]

NoLoop == [pc |-> "none", item |-> 1, seen |-> [i \in Item |-> "absent"],
           attempt |-> 0, completed |-> 0, failed |-> 0]

NoRow(status) == [status |-> status, total |-> 0, completed |-> 0, failed |-> 0,
                  output |-> FALSE, errors |-> FALSE]

Init ==
    /\ row = [b \in Batch |-> NoRow("unborn")]
    /\ ckpt = [b \in Batch |-> [i \in Item |-> "absent"]]
    /\ input = [b \in Batch |-> "valid"]
    /\ lines = [b \in Batch |-> 0]
    /\ age = [b \in Batch |-> 0]
    /\ active = {}
    /\ loop = [b \in Batch |-> NoLoop]
    /\ cached = FALSE
    /\ crashes = 0
    /\ sends = [b \in Batch |-> [i \in Item |-> 0]]
    /\ late = [b \in Batch |-> 0]

-----------------------------------------------------------------------------
(* Helpers of the file.                                                    *)

Exists(b) == row[b].status \notin {"unborn", "deleted"}

\* getPendingBatches.
Pending(b) == Exists(b) /\ row[b].status \notin Terminal

\* finalizeBatch is running: nothing else of the process is.
Finalizing == \E b \in Batch : loop[b].pc \in {"counting", "completing"}

IsBatchCancelled(b) == row[b].status \in {"deleted", "cancelling", "cancelled"}

Bug_StaleInProgressOnly(b) == row[b].status = "in_progress" /\ b \notin active

\* In progress, and not by this process.
Stale(b) == row[b].status \in {"in_progress", "finalizing"} /\ b \notin active

CheckpointCount(b) == Cardinality({i \in Item : ckpt[b][i] # "absent"})

HasPotentialExternalEffects(b) ==
    \/ row[b].total > 0 \/ row[b].completed > 0 \/ row[b].failed > 0
    \/ row[b].status = "finalizing"

RecoverStaleBatch(b) ==
    LET r == row[b]
        none == CheckpointCount(b) = 0
    IN  IF none /\ HasPotentialExternalEffects(b)
        THEN [r EXCEPT !.status = "failed"]
        ELSE [r EXCEPT !.status = "validating", !.output = FALSE, !.errors = FALSE,
                       !.completed = IF none THEN 0 ELSE @,
                       !.failed = IF none THEN 0 ELSE @]

\* The row startBatch leaves.  An empty file is valid and has no items.
StartedRow(b, r) ==
    CASE input[b] = "missing" -> [r EXCEPT !.status = "failed"]
      [] input[b] = "invalid" ->
            [r EXCEPT !.status = "failed", !.total = lines[b], !.failed = lines[b]]
      [] input[b] = "valid" -> [r EXCEPT !.status = "in_progress", !.total = lines[b]]

EnsureBatchItemCheckpoints(b) ==
    [i \in Item |-> IF i <= lines[b] /\ ckpt[b][i] = "absent" THEN "pending" ELSE ckpt[b][i]]

-----------------------------------------------------------------------------
(* The routes, and the passing of time.                                    *)

\* POST /v1/batches, for a file that exists.
CreateBatch(b, file) ==
    /\ ~Finalizing
    /\ row[b].status = "unborn"
    /\ row' = [row EXCEPT ![b].status = "validating"]
    /\ input' = [input EXCEPT ![b] = file.kind]
    /\ lines' = [lines EXCEPT ![b] = file.lines]
    /\ UNCHANGED <<ckpt, age, volatile, history>>

\* POST /v1/batches/:id/cancel.
CancelBatch(b) ==
    /\ ~Finalizing
    /\ Pending(b)
    /\ row[b].status # "cancelling"
    /\ row' = [row EXCEPT ![b].status = "cancelling"]
    /\ UNCHANGED <<ckpt, input, lines, age, volatile, history>>

\* DELETE /v1/batches/:id, and deleteCompletedBatches for a completed one.
DeleteBatch(b) ==
    /\ ~Finalizing
    /\ row[b].status \in Terminal
    /\ row' = [row EXCEPT ![b] = NoRow("deleted")]
    /\ ckpt' = [ckpt EXCEPT ![b] = [i \in Item |-> "absent"]]
    /\ input' = [input EXCEPT ![b] = "missing"]
    /\ UNCHANGED <<lines, age, volatile, history>>

\* DELETE /v1/files/:id, or the deletion of another batch with the same file.
\* The input and the age of a batch matter as long as it is pending.
DeleteInput(b) ==
    /\ ~Finalizing
    /\ Pending(b)
    /\ input[b] # "missing"
    /\ input' = [input EXCEPT ![b] = "missing"]
    /\ UNCHANGED <<row, ckpt, lines, age, volatile, history>>

TimePasses(b) ==
    /\ ~Finalizing
    /\ Pending(b)
    /\ age[b] < 2
    /\ age' = [age EXCEPT ![b] = @ + 1]
    /\ UNCHANGED <<row, ckpt, input, lines, volatile, history>>

-----------------------------------------------------------------------------
(* processPendingBatches.  Its awaits wait for nothing, so that a poll is  *)
(* one step: stale batches are recovered, validating ones are started as   *)
(* long as there is room (in whatever order the query returns them),       *)
(* cancelling ones are cancelled, and what is left validating too long     *)
(* expires.  The input files of old batches are deleted.                   *)

Recovered(b) == IF Stale(b) THEN RecoverStaleBatch(b) ELSE row[b]

Validating == {b \in Batch : Recovered(b).status = "validating"}

Bug_RoomPerBatch(S) ==
    /\ S \subseteq Validating
    /\ S = IF Cardinality(active) < MaxConcurrent THEN Validating ELSE {}

\* activeCount is counted up once for every startBatch, also when it fails.
RoomFor(S) ==
    /\ S \subseteq Validating
    /\ \/ Cardinality(active) + Cardinality(S) = MaxConcurrent
       \/ Cardinality(active) + Cardinality(S) < MaxConcurrent /\ S = Validating
       \/ Cardinality(active) > MaxConcurrent /\ S = {}

Polled(b, S) ==
    LET r == Recovered(b)
    IN  CASE b \in S -> StartedRow(b, r)
          [] b \notin S /\ r.status = "cancelling" -> [r EXCEPT !.status = "cancelled"]
          [] b \notin S /\ r.status = "validating" /\ age[b] > 0 -> [r EXCEPT !.status = "expired"]
          [] OTHER -> r

\* started: the batches whose items are now processed in the background.
ProcessPendingBatches(S) ==
    LET started == {b \in S : input[b] = "valid"}
    IN  /\ ~Finalizing
        /\ RoomFor(S)
        /\ row' = [b \in Batch |-> Polled(b, S)]
        /\ ckpt' = [b \in Batch |-> IF b \in started THEN EnsureBatchItemCheckpoints(b) ELSE ckpt[b]]
        /\ active' = active \cup started
        /\ loop' = [b \in Batch |-> IF b \in started
                                    THEN [NoLoop EXCEPT !.pc = "top", !.seen = ckpt'[b]]
                                    ELSE loop[b]]
        /\ input' = [b \in Batch |-> IF age[b] = 2 THEN "missing" ELSE input[b]]
        /\ UNCHANGED <<lines, age, cached, history>>

-----------------------------------------------------------------------------
(* processBatchItems: the loop of one batch.                               *)

AtItem(b) == loop[b].pc = "top" /\ loop[b].item <= lines[b]

\* The loop is done with its item: count it and save the progress (in a row
\* that is gone, nothing).
ItemDone(b, good) ==
    LET l == [loop[b] EXCEPT !.pc = "top", !.item = @ + 1, !.attempt = 0,
                             !.completed = IF good THEN @ + 1 ELSE @,
                             !.failed = IF good THEN @ ELSE @ + 1]
    IN  /\ loop' = [loop EXCEPT ![b] = l]
        /\ row' = IF Exists(b)
                  THEN [row EXCEPT ![b].completed = l.completed, ![b].failed = l.failed]
                  ELSE row

\* An UPDATE: it does nothing where the checkpoint is gone.
MarkItem(b, c) ==
    LET i == loop[b].item
    IN  ckpt' = IF ckpt[b][i] = "absent" THEN ckpt ELSE [ckpt EXCEPT ![b][i] = c]

Bug_RecoverableSettledOnly(c) == c \in {"ok", "bad", "errored"}

\* The checkpoints that applyRecoveredCheckpoint takes for done.
Recoverable(c) == c \in {"ok", "bad", "errored", "processing"}

Bug_RecoveredSkipped(b) ==
    /\ ~Finalizing /\ AtItem(b) /\ ~IsBatchCancelled(b)
    /\ Recoverable(loop[b].seen[loop[b].item])
    /\ loop' = [loop EXCEPT ![b].item = @ + 1]
    /\ UNCHANGED <<row, ckpt, input, lines, age, active, cached, history>>

\* An item of an earlier run.  One that was out when the process died is not
\* sent again: it counts as an error.
ApplyRecoveredCheckpoint(b) ==
    LET c == loop[b].seen[loop[b].item]
    IN  /\ ~Finalizing
        /\ AtItem(b)
        /\ ~IsBatchCancelled(b)
        /\ Recoverable(c)
        /\ IF c = "processing" THEN MarkItem(b, "errored") ELSE UNCHANGED ckpt
        /\ ItemDone(b, c = "ok")
        /\ UNCHANGED <<input, lines, age, active, cached, history>>

\* The headers of the last answer ask for a pause: sleep before the item.
Throttle(b) ==
    /\ ~Finalizing
    /\ AtItem(b)
    /\ ~IsBatchCancelled(b)
    /\ ~Recoverable(loop[b].seen[loop[b].item])
    /\ cached
    /\ loop' = [loop EXCEPT ![b].pc = "throttled"]
    /\ UNCHANGED <<durable, active, cached, history>>

Bug_ReadyUnchecked(b) ==
    \/ loop[b].pc = "throttled"
    \/ AtItem(b) /\ ~Recoverable(loop[b].seen[loop[b].item])

\* The loop is about to send its item: after a sleep it does not ask again
\* whether the batch was cancelled.
Ready(b) ==
    \/ loop[b].pc = "throttled"
    \/ AtItem(b) /\ ~IsBatchCancelled(b) /\ ~Recoverable(loop[b].seen[loop[b].item])

SendItem(b) ==
    LET i == loop[b].item
    IN  /\ ~Finalizing
        /\ Ready(b)
        /\ ckpt' = [ckpt EXCEPT ![b][i] = "processing"]
        /\ loop' = [loop EXCEPT ![b].pc = "waiting", ![b].attempt = 1]
        /\ sends' = [sends EXCEPT ![b][i] = @ + 1]
        /\ late' = [late EXCEPT ![b] = IF IsBatchCancelled(b) THEN @ + 1 ELSE @]
        /\ UNCHANGED <<row, input, lines, age, active, cached, crashes>>

\* The batch was deleted during the sleep: where the driver enforces foreign
\* keys, the checkpoint is refused and the loop ends (failBatch finds no row).
SendItemRefused(b) ==
    /\ ~Finalizing
    /\ loop[b].pc = "throttled"
    /\ row[b].status = "deleted"
    /\ loop' = [loop EXCEPT ![b] = NoLoop]
    /\ active' = active \ {b}
    /\ UNCHANGED <<durable, cached, history>>

\* A response that is not retried: also the last 429 of an item.
ItemAnswered(b, c) ==
    /\ ~Finalizing
    /\ loop[b].pc = "waiting"
    /\ MarkItem(b, c)
    /\ ItemDone(b, c = "ok")
    /\ cached' = TRUE
    /\ UNCHANGED <<input, lines, age, active, history>>

\* The dispatch throws, or its 120 seconds are over.
ItemFails(b) ==
    /\ ~Finalizing
    /\ loop[b].pc = "waiting"
    /\ MarkItem(b, "errored")
    /\ ItemDone(b, FALSE)
    /\ cached' = FALSE
    /\ UNCHANGED <<input, lines, age, active, history>>

Bug_ItemRefusedOffByOne(b) ==
    /\ ~Finalizing
    /\ loop[b].pc = "waiting"
    /\ loop[b].attempt <= MaxRetries
    /\ loop' = [loop EXCEPT ![b].pc = "backoff"]
    /\ sends' = [sends EXCEPT ![b][loop[b].item] = @ - 1]
    /\ UNCHANGED <<durable, active, cached, crashes, late>>

\* A 429, 502 or 504 with attempts left.
ItemRefused(b) ==
    /\ ~Finalizing
    /\ loop[b].pc = "waiting"
    /\ loop[b].attempt < MaxRetries
    /\ loop' = [loop EXCEPT ![b].pc = "backoff"]
    /\ sends' = [sends EXCEPT ![b][loop[b].item] = @ - 1]
    /\ UNCHANGED <<durable, active, cached, crashes, late>>

RetryItem(b) ==
    /\ ~Finalizing
    /\ loop[b].pc = "backoff"
    /\ loop' = [loop EXCEPT ![b].pc = "waiting", ![b].attempt = @ + 1]
    /\ sends' = [sends EXCEPT ![b][loop[b].item] = @ + 1]
    /\ UNCHANGED <<durable, active, cached, crashes, late>>

-----------------------------------------------------------------------------
(* finalizeBatch.                                                          *)

LoopOver(b) ==
    /\ ~Finalizing
    /\ loop[b].pc = "top"
    /\ loop[b].item > lines[b] \/ IsBatchCancelled(b)

HandleCancellation(b) ==
    /\ LoopOver(b)
    /\ IsBatchCancelled(b)
    /\ row' = [row EXCEPT ![b].status = IF @ = "cancelling" THEN "cancelled" ELSE @]
    /\ loop' = [loop EXCEPT ![b] = NoLoop]
    /\ active' = active \ {b}
    /\ UNCHANGED <<ckpt, input, lines, age, cached, history>>

MarkFinalizing(b) ==
    /\ LoopOver(b)
    /\ ~IsBatchCancelled(b)
    /\ row' = [row EXCEPT ![b].status = "finalizing"]
    /\ loop' = [loop EXCEPT ![b].pc = "counting"]
    /\ UNCHANGED <<ckpt, input, lines, age, active, cached, history>>

\* totalCount is the row's own, or the sum when that is 0.
PersistCounts(b) ==
    LET l == loop[b]
    IN  /\ l.pc = "counting"
        /\ row' = [row EXCEPT ![b].total = IF @ > 0 THEN @ ELSE l.completed + l.failed,
                              ![b].completed = l.completed, ![b].failed = l.failed]
        /\ loop' = [loop EXCEPT ![b].pc = "completing"]
        /\ UNCHANGED <<ckpt, input, lines, age, active, cached, history>>

\* Both files are written and the batch is completed; the loop has ended.
CompleteBatch(b) ==
    LET l == loop[b]
    IN  /\ l.pc = "completing"
        /\ row' = [row EXCEPT ![b].status = "completed",
                              ![b].output = l.completed > 0, ![b].errors = l.failed > 0]
        /\ loop' = [loop EXCEPT ![b] = NoLoop]
        /\ active' = active \ {b}
        /\ UNCHANGED <<ckpt, input, lines, age, cached, history>>

\* The process dies at any point and is started again.
Crash ==
    /\ crashes < MaxCrashes
    /\ crashes' = crashes + 1
    /\ active' = {}
    /\ loop' = [b \in Batch |-> NoLoop]
    /\ cached' = FALSE
    /\ UNCHANGED <<durable, sends, late>>

-----------------------------------------------------------------------------
Client(b) ==
    \/ \E file \in Files[b] : CreateBatch(b, file)
    \/ CancelBatch(b)
    \/ DeleteBatch(b)
    \/ DeleteInput(b)

Poll == \E S \in SUBSET Batch : ProcessPendingBatches(S)

LoopStep(b) ==
    \/ ApplyRecoveredCheckpoint(b)
    \/ Throttle(b)
    \/ SendItem(b)
    \/ SendItemRefused(b)
    \/ \E c \in {"ok", "bad"} : ItemAnswered(b, c)
    \/ ItemFails(b)
    \/ ItemRefused(b)
    \/ RetryItem(b)
    \/ HandleCancellation(b)
    \/ MarkFinalizing(b)
    \/ PersistCounts(b)
    \/ CompleteBatch(b)

Next ==
    \/ \E b \in Batch : Client(b) \/ TimePasses(b) \/ LoopStep(b)
    \/ Poll
    \/ Crash

Spec == Init /\ [][Next]_vars

\* The poll's interval timer fires for ever; sleeps end, and so does a request,
\* by its answer or by the timeout of its dispatch.  Crashes are finitely many.
FairSpec ==
    /\ Spec
    /\ WF_vars(Poll)
    /\ \A b \in Batch : WF_vars(LoopStep(b))

-----------------------------------------------------------------------------
(* Properties.                                                             *)

\* Rows, checkpoints and loops have their types; no item is tried more often than
\* the ceiling of retries allows and no batch counts more items than it may have.
TypeOK ==
    /\ row \in [Batch -> Row]
    /\ ckpt \in [Batch -> [Item -> Checkpoint]]
    /\ input \in [Batch -> {"valid", "invalid", "missing"}]
    /\ lines \in [Batch -> 0..MaxItems]
    /\ age \in [Batch -> 0..2]
    /\ active \subseteq Batch
    /\ loop \in [Batch -> Loop]
    /\ cached \in BOOLEAN
    /\ crashes \in 0..MaxCrashes
    /\ sends \in [Batch -> [Item -> Nat]]
    /\ late \in [Batch -> Nat]

\* However the process dies and recovers, an item is sent again only after the
\* provider has refused it: no work is done twice (applyRecoveredCheckpoint,
\* "not replayed to avoid duplicate provider work").
DispatchedOnce == \A b \in Batch, i \in Item : sends[b][i] <= 1

\* A completed batch accounts for every line of its input: each has a settled
\* checkpoint, the counts are those of the checkpoints and add up to the total,
\* and there is an output (an error) file exactly when something succeeded
\* (failed), also when the batch was finished in several runs of the process.
CompletedIsWhole ==
    \A b \in Batch :
        row[b].status = "completed" =>
            LET With(C) == Cardinality({i \in Item : ckpt[b][i] \in C})
            IN  /\ row[b].total = lines[b]
                /\ row[b].completed = With({"ok"})
                /\ row[b].failed = With({"bad", "errored"})
                /\ row[b].completed + row[b].failed = row[b].total
                /\ row[b].output = (row[b].completed > 0)
                /\ row[b].errors = (row[b].failed > 0)

\* activeBatches is exactly the batches with a running loop, at most
\* BATCH_MAX_CONCURRENT, and the row of such a batch is one that no poll
\* recovers, starts or expires under the loop.
LoopOwnsBatch ==
    /\ active = {b \in Batch : loop[b].pc # "none"}
    /\ Cardinality(active) <= MaxConcurrent
    /\ \A b \in active :
           row[b].status \in {"in_progress", "cancelling", "cancelled", "deleted"}
                            \cup (IF loop[b].pc \in {"counting", "completing"}
                                 THEN {"finalizing"} ELSE {})

\* After a cancel at most one more item is sent for the first time, the one
\* that was held back by the throttle.
CancelStopsDispatch == \A b \in Batch : late[b] <= 1

\* Every batch that is created reaches a terminal status (or is deleted then):
\* none is left behind by a full pool, a cancel, a deleted file or a crash.
EveryBatchEnds ==
    \A b \in Batch : (row[b].status = "validating") ~> (row[b].status \in Terminal \cup {"deleted"})
=============================================================================
