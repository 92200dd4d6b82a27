-------------------------- MODULE AccountSemaphore --------------------------
(***************************************************************************)
(* open-sse/services/accountSemaphore.ts: the in-memory concurrency gate   *)
(* of one provider account.  Gates of different keys share no state, so    *)
(* the module is about the gate of ONE key; the callers are the requests   *)
(* that chatCore.ts sends to that account.                                 *)
(*                                                                         *)
(* Every function of the file runs to completion on the event loop, so     *)
(* each call and each timer callback is one action.  A caller r is idle,   *)
(* has an unsettled acquire promise (awaiting), owns a release function    *)
(* that counts (holding) or owns a no-op release function (bypassing); an  *)
(* idle caller may call acquire again.                                     *)
(***************************************************************************)
EXTENDS Integers, Sequences, FiniteSets

CONSTANTS
    Req,            \* callers
    Caps,           \* values of maxConcurrency that callers pass, all > 0
    MaxCap,         \* the largest of them
    MaxQueueSize,   \* acquire's maxQueueSize option
    Cooldowns,      \* positive values of cooldownMs, in ticks
    Slack,          \* the 50ms added to the unblock timer, in ticks
    MaxTime,        \* bound of the clock
    MaxTimers,      \* bound of the unblock timers armed at one time
    MaxResets       \* bound of the calls to reset

ASSUME ConstantsAssumption ==
    /\ IsFiniteSet(Req)
    /\ MaxCap \in Nat
    /\ Caps \subseteq 1..MaxCap
    /\ 1 \in Caps                  \* markBlocked creates a gate with cap 1
    /\ MaxQueueSize \in Nat
    /\ Cooldowns \subseteq Nat \ {0}
    /\ Slack \in Nat
    /\ MaxTime \in Nat
    /\ MaxTimers \in Nat
    /\ MaxResets \in Nat

VARIABLES
    gate,           \* gates.get(semaphoreKey)
    now,            \* Date.now()
    unblockTimers,  \* armed timers of markBlocked
    awaiting,       \* callers whose acquire promise is not settled
    holding,        \* callers that own a release function not called yet
    bypassing,      \* callers that own a no-op release function
    cooldown,       \* history: end of the last cooldown asked for, 0 if lifted
    resets          \* history: number of calls to reset

vars == <<gate, now, unblockTimers, awaiting, holding, bypassing, cooldown, resets>>

(***************************************************************************)
(* AccountGate.  blockedUntil = 0 stands for null: the code tests it for   *)
(* truth.  entry says whether the map has the gate at all.                 *)
(***************************************************************************)
Gate == [entry : {"present", "absent"}, running : Nat, maxConcurrency : Nat,
         queue : Seq(Req), blockedUntil : Nat, cleanupTimer : {"null", "armed"}]

NewGate(max) == [entry |-> "present", running |-> 0, maxConcurrency |-> max,
                 queue |-> << >>, blockedUntil |-> 0, cleanupTimer |-> "null"]

NoGate == [entry |-> "absent", running |-> 0, maxConcurrency |-> 1,
           queue |-> << >>, blockedUntil |-> 0, cleanupTimer |-> "null"]

Present(g) == g.entry = "present"

Timer == [id : 1..MaxTimers, due : Nat]

Entries(q) == {q[i] : i \in 1..Len(q)}

Idle(r) == r \notin awaiting \cup holding \cup bypassing

Init ==
    /\ gate = NoGate
    /\ now = 1
    /\ unblockTimers = {}
    /\ awaiting = {}
    /\ holding = {}
    /\ bypassing = {}
    /\ cooldown = 0
    /\ resets = 0

-----------------------------------------------------------------------------
(* Helpers of the file, as functions from a gate to the gate they leave.   *)

IsBlocked(g) == g.blockedUntil # 0 /\ now < g.blockedUntil

\* isBlocked also forgets a block that has expired.
ForgetExpiredBlock(g) ==
    [g EXCEPT !.blockedUntil = IF now >= @ THEN 0 ELSE @]

HasRoom(g) == g.running < g.maxConcurrency

ScheduleCleanup(g) == [g EXCEPT !.cleanupTimer = "armed"]

ScheduleCleanupIfIdle(g) ==
    [g EXCEPT !.cleanupTimer = IF g.running = 0 /\ g.queue = << >> THEN "armed" ELSE @]

Bug_CleanupGateIgnoringBlock(g) ==
    IF g.running > 0 \/ g.queue # << >> THEN g ELSE NoGate

CleanupGateIfIdle(g) ==
    IF g.running > 0 \/ g.queue # << >> THEN g
    ELSE IF IsBlocked(g) THEN g
    ELSE NoGate

\* How many waiters the loop of drainQueue resolves.
Bug_AdmittableOffByOne(g) ==
    LET room == g.maxConcurrency - g.running
    IN  IF IsBlocked(g) \/ room <= 0 THEN 0
        ELSE IF room < Len(g.queue) THEN room + 1 ELSE Len(g.queue)

Bug_AdmittableWhileBlocked(g) ==
    LET room == g.maxConcurrency - g.running
    IN  IF room <= 0 THEN 0 ELSE IF room < Len(g.queue) THEN room ELSE Len(g.queue)

Admittable(g) ==
    LET room == g.maxConcurrency - g.running
    IN  IF IsBlocked(g) \/ room <= 0 THEN 0
        ELSE IF room < Len(g.queue) THEN room ELSE Len(g.queue)

Bug_AdmittedFromTail(g) ==
    {g.queue[i] : i \in (Len(g.queue) - Admittable(g) + 1)..Len(g.queue)}

\* The waiters drainQueue resolves: a prefix of the queue.
Admitted(g) == {g.queue[i] : i \in 1..Admittable(g)}

\* The gate drainQueue leaves.  Its loop asks isBlocked, and so forgets an
\* expired block, only once it has seen a waiter and a free slot.
DrainQueue(g) ==
    LET k == Admittable(g)
    IN  [g EXCEPT !.running = @ + k,
                  !.queue = SubSeq(@, k + 1, Len(@)),
                  !.blockedUntil =
                      IF g.queue # << >> /\ HasRoom(g) /\ now >= @ THEN 0 ELSE @,
                  !.cleanupTimer =
                      IF g.running + k = 0 /\ k = Len(g.queue) THEN "armed" ELSE @]

\* The gate a release leaves: the queue is drained only if there is one.
AfterRelease(g) ==
    IF g.queue # << >> THEN DrainQueue(g) ELSE ScheduleCleanup(g)

\* The queue without caller r's entry (findIndex and splice).
Without(q, r) ==
    LET k == CHOOSE i \in 1..Len(q) : q[i] = r
    IN  [i \in 1..(Len(q) - 1) |-> IF i < k THEN q[i] ELSE q[i + 1]]

-----------------------------------------------------------------------------
(* acquire, by the outcome of its tests in their order.                    *)

\* isBypassed: no limit configured, the promise resolves with a no-op.
AcquireBypassed(r) ==
    /\ Idle(r)
    /\ bypassing' = bypassing \cup {r}
    /\ UNCHANGED <<gate, now, unblockTimers, awaiting, holding, cooldown, resets>>

\* The gate acquire looks at, after ensureGate (the newest caller's cap holds
\* for everyone) and clearCleanupTimer.
Asked(max) ==
    IF Present(gate)
    THEN [gate EXCEPT !.maxConcurrency = max, !.cleanupTimer = "null"]
    ELSE NewGate(max)

\* The fast path does not look at the queue.
AcquireSlot(r, max) ==
    LET g == Asked(max)
    IN  /\ Idle(r)
        /\ HasRoom(g) /\ ~IsBlocked(g)
        /\ gate' = [g EXCEPT !.running = @ + 1, !.blockedUntil = 0]
        /\ holding' = holding \cup {r}
        /\ UNCHANGED <<now, unblockTimers, awaiting, bypassing, cooldown, resets>>

\* No slot for this caller: the queue takes it or refuses it.
MustWait(g) == ~HasRoom(g) \/ IsBlocked(g)

\* A rejection with SEMAPHORE_QUEUE_FULL keeps what ensureGate changed.
AcquireRejected(r, max) ==
    /\ Idle(r)
    /\ MustWait(Asked(max))
    /\ Len(gate.queue) >= MaxQueueSize
    /\ gate' = Asked(max)
    /\ UNCHANGED <<now, unblockTimers, awaiting, holding, bypassing, cooldown, resets>>

Enqueue(r, g) ==
    /\ Idle(r)
    /\ MustWait(g)
    /\ gate' = [g EXCEPT !.queue = Append(@, r)]
    /\ awaiting' = awaiting \cup {r}
    /\ UNCHANGED <<now, unblockTimers, holding, bypassing, cooldown, resets>>

Bug_AcquireQueuedOffByOne(r, max) ==
    Len(gate.queue) <= MaxQueueSize /\ Enqueue(r, Asked(max))

AcquireQueued(r, max) ==
    Len(gate.queue) < MaxQueueSize /\ Enqueue(r, Asked(max))

-----------------------------------------------------------------------------
(* A waiter gives up: its queue timer fires, or its signal is aborted.     *)

Bug_LeaveQueueWithoutRemoval(r) ==
    /\ r \in Entries(gate.queue)
    /\ gate' = ScheduleCleanupIfIdle(gate)
    /\ awaiting' = awaiting \ {r}
    /\ UNCHANGED <<now, unblockTimers, holding, bypassing, cooldown, resets>>

LeaveQueue(r) ==
    /\ r \in Entries(gate.queue)
    /\ gate' = ScheduleCleanupIfIdle([gate EXCEPT !.queue = Without(@, r)])
    /\ awaiting' = awaiting \ {r}
    /\ UNCHANGED <<now, unblockTimers, holding, bypassing, cooldown, resets>>

QueueTimeout(r) == LeaveQueue(r)

\* Only an acquire that was given a signal has the listener; chatCore always
\* gives one.
AbortWaiting(r) == LeaveQueue(r)

-----------------------------------------------------------------------------
(* The release functions.  A second call returns at once: it is a          *)
(* stuttering step.                                                        *)

ReleaseNoop(r) ==
    /\ r \in bypassing
    /\ bypassing' = bypassing \ {r}
    /\ UNCHANGED <<gate, now, unblockTimers, awaiting, holding, cooldown, resets>>

Bug_ReleasedUnguarded(g) == [g EXCEPT !.running = @ - 1]

\* running never goes below zero, whatever gate the key has by now.
Released(g) == [g EXCEPT !.running = IF @ > 0 THEN @ - 1 ELSE 0]

GiveBack(r) ==
    /\ IF Present(gate)
       THEN LET g == Released(gate)
            IN  /\ gate' = AfterRelease(g)
                /\ holding' = (holding \ {r}) \cup Admitted(g)
                /\ awaiting' = awaiting \ Admitted(g)
       ELSE /\ holding' = holding \ {r}
            /\ UNCHANGED <<gate, awaiting>>
    /\ UNCHANGED <<now, unblockTimers, bypassing, cooldown, resets>>

Bug_ReleaseNotIdempotent(r) == r \notin awaiting /\ GiveBack(r)

Release(r) == r \in holding /\ GiveBack(r)

-----------------------------------------------------------------------------
(* markBlocked, its timer, and the cleanup timer.                          *)

MarkBlocked(cd) ==
    /\ gate' = [(IF Present(gate) THEN gate ELSE NewGate(1))
                  EXCEPT !.cleanupTimer = "null", !.blockedUntil = now + cd]
    /\ \E id \in 1..MaxTimers :
          /\ \A t \in unblockTimers : t.id # id
          /\ unblockTimers' = unblockTimers \cup {[id |-> id, due |-> now + cd + Slack]}
    /\ cooldown' = now + cd
    /\ UNCHANGED <<now, awaiting, holding, bypassing, resets>>

\* markBlocked with a cooldown that is not positive.
LiftBlock ==
    /\ Present(gate)
    /\ LET g == [gate EXCEPT !.blockedUntil = 0]
       IN  /\ gate' = DrainQueue(g)
           /\ holding' = holding \cup Admitted(g)
           /\ awaiting' = awaiting \ Admitted(g)
    /\ cooldown' = 0
    /\ UNCHANGED <<now, unblockTimers, bypassing, resets>>

\* The timer does nothing unless the block it finds is set and over.
UnblockTimerFires(t) ==
    /\ t \in unblockTimers
    /\ now >= t.due
    /\ unblockTimers' = unblockTimers \ {t}
    /\ IF Present(gate) /\ gate.blockedUntil # 0 /\ now >= gate.blockedUntil
       THEN LET g == [gate EXCEPT !.blockedUntil = 0]
            IN  /\ gate' = ScheduleCleanupIfIdle(DrainQueue(g))
                /\ holding' = holding \cup Admitted(g)
                /\ awaiting' = awaiting \ Admitted(g)
       ELSE UNCHANGED <<gate, holding, awaiting>>
    /\ UNCHANGED <<now, bypassing, cooldown, resets>>

\* The idle test asks isBlocked last, so an expired block is gone with the gate.
CleanupTimerFires ==
    /\ gate.cleanupTimer = "armed"
    /\ gate' = CleanupGateIfIdle([gate EXCEPT !.cleanupTimer = "null"])
    /\ UNCHANGED <<now, unblockTimers, awaiting, holding, bypassing, cooldown, resets>>

-----------------------------------------------------------------------------
\* isAccountSemaphoreFull, the combo router's probe: a query that forgets an
\* expired block when it gets as far as asking isBlocked.
IsAccountSemaphoreFull(max) ==
    /\ Present(gate)
    /\ gate.running < max
    /\ gate' = ForgetExpiredBlock(gate)
    /\ UNCHANGED <<now, unblockTimers, awaiting, holding, bypassing, cooldown, resets>>

Bug_ResetLeavesWaiters ==
    /\ resets < MaxResets
    /\ Present(gate)
    /\ gate' = NoGate
    /\ cooldown' = 0
    /\ resets' = resets + 1
    /\ UNCHANGED <<now, unblockTimers, awaiting, holding, bypassing>>

\* reset: the waiters are rejected, the gate and its block are dropped, the
\* callers that hold a slot keep their release functions.
Reset ==
    /\ resets < MaxResets
    /\ Present(gate)
    /\ gate' = NoGate
    /\ awaiting' = awaiting \ Entries(gate.queue)
    /\ cooldown' = 0
    /\ resets' = resets + 1
    /\ UNCHANGED <<now, unblockTimers, holding, bypassing>>

Tick ==
    /\ now < MaxTime
    /\ now' = now + 1
    /\ UNCHANGED <<gate, unblockTimers, awaiting, holding, bypassing, cooldown, resets>>

Next ==
    \/ \E r \in Req : AcquireBypassed(r)
    \/ \E r \in Req, max \in Caps : AcquireSlot(r, max)
    \/ \E r \in Req, max \in Caps : AcquireRejected(r, max)
    \/ \E r \in Req, max \in Caps : AcquireQueued(r, max)
    \/ \E r \in Req : QueueTimeout(r)
    \/ \E r \in Req : AbortWaiting(r)
    \/ \E r \in Req : ReleaseNoop(r)
    \/ \E r \in Req : Release(r)
    \/ \E cd \in Cooldowns : MarkBlocked(cd)
    \/ LiftBlock
    \/ \E t \in unblockTimers : UnblockTimerFires(t)
    \/ CleanupTimerFires
    \/ \E max \in Caps : IsAccountSemaphoreFull(max)
    \/ Reset
    \/ Tick

\* Node runs an armed queue timer in the end; nothing else is taken as fair:
\* an upstream call may last for ever.
Fairness == \A r \in Req : WF_vars(QueueTimeout(r))

Spec == Init /\ [][Next]_vars

FairSpec == Spec /\ Fairness

-----------------------------------------------------------------------------
(* Properties.                                                             *)

TypeOK ==
    /\ gate \in Gate
    /\ gate.maxConcurrency \in Caps
    /\ now \in Nat
    /\ unblockTimers \subseteq Timer
    /\ awaiting \subseteq Req
    /\ holding \subseteq Req
    /\ bypassing \subseteq Req
    /\ cooldown \in Nat
    /\ resets \in Nat

\* The gate never counts more slots than there are callers that will give one
\* back, and it misses at most one cap's worth of them for each reset (exactly
\* none until the first): no slot is leaked by a timeout, an abort, a second
\* release or the deletion of an idle gate, none is handed out twice, and the
\* release functions that outlive a reset free at most what the reset forgot.
SlotAccounting ==
    /\ gate.running <= Cardinality(holding)
    /\ Cardinality(holding) <= gate.running + MaxCap * resets

\* An acquire promise that is not settled has exactly one entry in the queue of
\* the gate, and every entry belongs to such a promise: timeout, abort, drain,
\* reset and cleanup never strand a caller without an entry nor leave an entry
\* whose caller has gone (a slot given to it would never be released).
WaitersAreQueued ==
    /\ awaiting = Entries(gate.queue)
    /\ Cardinality(awaiting) = Len(gate.queue)
    /\ ~Present(gate) => gate.queue = << >>

\* acquire never lets the queue outgrow the limit it was given.
QueueBounded == Len(gate.queue) <= MaxQueueSize

\* The callers that get a slot in a step.
NewHolders == holding' \ holding

\* Whoever admits (the fast path, a release, an unblock) leaves the gate within
\* the cap in force then, also when several waiters are admitted in one drain
\* after the newest acquire has lowered the cap.
AdmissionWithinCap ==
    [][NewHolders # {} => gate'.running <= gate'.maxConcurrency]_vars

\* From a markBlocked(cooldown) on, no caller gets a slot before the cooldown is
\* over, unless the block is lifted or the key is reset: not when a holder
\* releases, not when an older unblock timer fires, and not because the gate was
\* cleaned up and created again.
CooldownHonoured ==
    [][NewHolders # {} => now >= cooldown']_vars

\* A waiter is admitted only together with everyone queued before it.
FifoAmongWaiters ==
    [][\A i, j \in 1..Len(gate.queue) :
          i < j /\ gate.queue[j] \in NewHolders
             => gate.queue[i] \in holding']_vars

\* The gate implements ConcurrencyGate: see there for what that promises.
CG == INSTANCE ConcurrencyGate
        WITH Cap <- MaxCap,
             waiting <- awaiting,
             cooling <- now < cooldown,
             budget <- MaxCap * (1 + resets)

ImplementsConcurrencyGate == CG!Spec

\* Every acquire promise is settled in the end, whatever happens to the gate.
EveryWaiterSettles == \A r \in Req : r \in awaiting ~> r \notin awaiting

\* "Requests beyond the configured concurrency cap wait in a FIFO queue until a
\* slot opens, the gate is unblocked, or the queue timeout expires"
\* (accountSemaphore.ts:5): nobody is left waiting at a gate that has a free
\* slot, is not blocked and has no unblock timer to come.
NoWaiterStranded ==
    gate.queue # << >> /\ HasRoom(gate) /\ ~IsBlocked(gate) => unblockTimers # {}
=============================================================================
