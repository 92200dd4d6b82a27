------------------------- MODULE RateLimitSemaphore -------------------------
(***************************************************************************)
(* open-sse/services/rateLimitSemaphore.ts: the per-model gate of the      *)
(* round-robin combo strategy, with the way combo.ts uses it (acquire, at  *)
(* most some markRateLimited while the slot is held, release in finally).  *)
(*                                                                         *)
(* Unlike the account gate this one is deleted as soon as it is idle, and  *)
(* the timer of markRateLimited keeps a reference to the gate OBJECT it    *)
(* was armed for, which may no longer be the one in the map.  The objects  *)
(* are modelled: limit[o] is the rateLimitedUntil of object o, 0 for null. *)
(***************************************************************************)
EXTENDS Integers, Sequences, FiniteSets

CONSTANTS
    Req,          \* requests in the round-robin loop
    Caps,         \* values of maxConcurrency that they pass, all > 0
    DefaultMax,   \* getGate's default, which markRateLimited relies on
    QueueSizes,   \* values of maxQueueSize; a negative one means no limit
    Cooldowns,    \* values of cooldownMs, in ticks
    Slack,        \* the 50ms added to the timer, in ticks
    MaxTime,      \* bound of the clock
    MaxTimers     \* bound of the timers armed at one time

ASSUME ConstantsAssumption ==
    /\ IsFiniteSet(Req)
    /\ DefaultMax \in Caps
    /\ Caps \subseteq Nat \ {0}
    /\ QueueSizes \subseteq Int
    /\ Cooldowns \subseteq Nat \ {0}
    /\ Slack \in Nat
    /\ MaxTime \in Nat
    /\ MaxTimers \in Nat

VARIABLES
    gate,      \* gates.get(modelStr)
    limit,     \* rateLimitedUntil of every gate object
    now,       \* Date.now()
    timers,    \* armed timers of markRateLimited
    awaiting,  \* requests whose acquire promise is not settled
    holding,   \* requests that own a release function not called yet
    cooldown   \* history: end of the last cooldown asked for

vars == <<gate, limit, now, timers, awaiting, holding, cooldown>>

\* Enough objects for the gate in the map and one under each armed timer; an
\* object nobody refers to is garbage and may be allocated again.
Objects == 0..MaxTimers

Gate == [entry : {"present", "absent"}, running : Nat, max : Nat,
         queue : Seq(Req), object : Objects]

Timer == [id : 1..MaxTimers, due : Nat, object : Objects]

Present(g) == g.entry = "present"

Entries(q) == {q[i] : i \in 1..Len(q)}

Idle(r) == r \notin awaiting \cup holding

NoGate == [entry |-> "absent", running |-> 0, max |-> DefaultMax,
           queue |-> << >>, object |-> 0]

Init ==
    /\ gate = NoGate
    /\ limit = [o \in Objects |-> 0]
    /\ now = 1
    /\ timers = {}
    /\ awaiting = {}
    /\ holding = {}
    /\ cooldown = 0

-----------------------------------------------------------------------------
(* Helpers of the file.                                                    *)

Free(o) == \A t \in timers : t.object # o

\* getGate: the gate in the map with its cap overwritten, or a new object.
GateFor(max, o) ==
    IF Present(gate)
    THEN [gate EXCEPT !.max = max]
    ELSE [entry |-> "present", running |-> 0, max |-> max, queue |-> << >>, object |-> o]

\* limit after the allocation of getGate.
LimitsFor(o) == IF Present(gate) THEN limit ELSE [limit EXCEPT ![o] = 0]

IsRateLimited(lim, g) == lim[g.object] # 0 /\ now < lim[g.object]

HasRoom(g) == g.running < g.max

DeleteIfIdle(g) == IF g.running = 0 /\ g.queue = << >> THEN NoGate ELSE g

Bug_AdmittableWhileLimited(g, lim) ==
    LET room == g.max - g.running
    IN  IF room <= 0 THEN 0 ELSE IF room < Len(g.queue) THEN room ELSE Len(g.queue)

\* How many waiters the loop of drainQueue resolves.
Admittable(g, lim) ==
    LET room == g.max - g.running
    IN  IF IsRateLimited(lim, g) \/ room <= 0 THEN 0
        ELSE IF room < Len(g.queue) THEN room ELSE Len(g.queue)

Admitted(g, lim) == {g.queue[i] : i \in 1..Admittable(g, lim)}

\* The gate drainQueue leaves in the map.
DrainQueue(g, lim) ==
    LET k == Admittable(g, lim)
    IN  DeleteIfIdle([g EXCEPT !.running = @ + k, !.queue = SubSeq(@, k + 1, Len(@))])

\* isRateLimited forgets an expired limit when the loop gets as far as asking.
LimitsAfterDrain(g, lim) ==
    IF g.queue # << >> /\ HasRoom(g) /\ now >= lim[g.object]
    THEN [lim EXCEPT ![g.object] = 0] ELSE lim

\* drainQueue on gate g, with the callers h holding a slot by then.
Drain(g, lim, h) ==
    /\ gate' = DrainQueue(g, lim)
    /\ limit' = LimitsAfterDrain(g, lim)
    /\ holding' = h \cup Admitted(g, lim)
    /\ awaiting' = awaiting \ Admitted(g, lim)

-----------------------------------------------------------------------------
(* acquire, by the outcome of its tests in their order.                    *)

AcquireSlot(r, max) ==
    \E o \in Objects :
       LET g == GateFor(max, o)
           lim == LimitsFor(o)
       IN  /\ Idle(r) /\ (Free(o) \/ Present(gate))
           /\ HasRoom(g) /\ ~IsRateLimited(lim, g)
           /\ gate' = [g EXCEPT !.running = @ + 1]
           /\ limit' = [lim EXCEPT ![g.object] = 0]
           /\ holding' = holding \cup {r}
           /\ UNCHANGED <<now, timers, awaiting, cooldown>>

\* A request that finds no slot found a gate in the map: a new one has room.
MustWait(g) == ~HasRoom(g) \/ IsRateLimited(limit, g)

QueueFull(g, size) == size >= 0 /\ Len(g.queue) >= size

AcquireRejected(r, max, size) ==
    LET g == [gate EXCEPT !.max = max]
    IN  /\ Idle(r) /\ Present(gate)
        /\ MustWait(g)
        /\ QueueFull(g, size)
        /\ gate' = DeleteIfIdle(g)
        /\ UNCHANGED <<limit, now, timers, awaiting, holding, cooldown>>

Bug_AcquireQueuedAtFront(r, max, size) ==
    LET g == [gate EXCEPT !.max = max]
    IN  /\ Idle(r) /\ Present(gate)
        /\ MustWait(g)
        /\ ~QueueFull(g, size)
        /\ gate' = [g EXCEPT !.queue = IF @ = << >> THEN <<r>> ELSE [@ EXCEPT ![1] = r]]
        /\ awaiting' = awaiting \cup {r}
        /\ UNCHANGED <<limit, now, timers, holding, cooldown>>

AcquireQueued(r, max, size) ==
    LET g == [gate EXCEPT !.max = max]
    IN  /\ Idle(r) /\ Present(gate)
        /\ MustWait(g)
        /\ ~QueueFull(g, size)
        /\ gate' = [g EXCEPT !.queue = Append(@, r)]
        /\ awaiting' = awaiting \cup {r}
        /\ UNCHANGED <<limit, now, timers, holding, cooldown>>

\* The queue without request r's entry (findIndex and splice).
Without(q, r) ==
    LET k == CHOOSE i \in 1..Len(q) : q[i] = r
    IN  [i \in 1..(Len(q) - 1) |-> IF i < k THEN q[i] ELSE q[i + 1]]

Bug_QueueTimeoutFreesSlot(r) ==
    /\ r \in Entries(gate.queue)
    /\ gate' = [gate EXCEPT !.queue = Without(@, r), !.running = @ - 1]
    /\ awaiting' = awaiting \ {r}
    /\ UNCHANGED <<limit, now, timers, holding, cooldown>>

\* A queue timer fires.  The gate stays in the map even if it is idle now.
QueueTimeout(r) ==
    /\ r \in Entries(gate.queue)
    /\ gate' = [gate EXCEPT !.queue = Without(@, r)]
    /\ awaiting' = awaiting \ {r}
    /\ UNCHANGED <<limit, now, timers, holding, cooldown>>

-----------------------------------------------------------------------------
(* The release function, called in the finally block of the combo loop.    *)

GiveBack(r) ==
    /\ LET g == [gate EXCEPT !.running = @ - 1]
       IN  IF ~Present(gate) \/ gate.running = 0
           THEN /\ holding' = holding \ {r}
                /\ UNCHANGED <<gate, limit, awaiting>>
           ELSE IF g.running = 0 /\ g.queue = << >>
           THEN /\ gate' = NoGate
                /\ holding' = holding \ {r}
                /\ UNCHANGED <<limit, awaiting>>
           ELSE Drain(g, limit, holding \ {r})
    /\ UNCHANGED <<now, timers, cooldown>>

Bug_ReleaseNotIdempotent(r) == r \notin awaiting /\ GiveBack(r)

Bug_ReleaseWithoutDrain(r) ==
    /\ r \in holding
    /\ gate' = DeleteIfIdle([gate EXCEPT !.running = IF @ > 0 THEN @ - 1 ELSE 0])
    /\ holding' = holding \ {r}
    /\ UNCHANGED <<limit, now, timers, awaiting, cooldown>>

Release(r) == r \in holding /\ GiveBack(r)

\* markRateLimited by a request that holds a slot.  getGate is called without a
\* cap and so sets the default one.
MarkRateLimited(r, cd) ==
    /\ r \in holding
    /\ Present(gate)
    /\ gate' = [gate EXCEPT !.max = DefaultMax]
    /\ limit' = [limit EXCEPT ![gate.object] = now + cd]
    /\ \E id \in 1..MaxTimers :
          /\ \A t \in timers : t.id # id
          /\ timers' = timers \cup {[id |-> id, due |-> now + cd + Slack,
                                     object |-> gate.object]}
    /\ cooldown' = now + cd
    /\ UNCHANGED <<now, awaiting, holding>>

\* The timer looks at the limit of its own gate object and drains the gate in
\* the map.
TimerFires(t) ==
    /\ t \in timers
    /\ now >= t.due
    /\ timers' = timers \ {t}
    /\ IF limit[t.object] # 0 /\ now >= limit[t.object]
       THEN LET lim == [limit EXCEPT ![t.object] = 0]
            IN  IF Present(gate)
                THEN Drain(gate, lim, holding)
                ELSE /\ limit' = lim
                     /\ UNCHANGED <<gate, holding, awaiting>>
       ELSE UNCHANGED <<gate, limit, holding, awaiting>>
    /\ UNCHANGED <<now, cooldown>>

Tick ==
    /\ now < MaxTime
    /\ now' = now + 1
    /\ UNCHANGED <<gate, limit, timers, awaiting, holding, cooldown>>

Next ==
    \/ \E r \in Req, max \in Caps : AcquireSlot(r, max)
    \/ \E r \in Req, max \in Caps, size \in QueueSizes : AcquireRejected(r, max, size)
    \/ \E r \in Req, max \in Caps, size \in QueueSizes : AcquireQueued(r, max, size)
    \/ \E r \in Req : QueueTimeout(r)
    \/ \E r \in Req : Release(r)
    \/ \E r \in Req, cd \in Cooldowns : MarkRateLimited(r, cd)
    \/ \E t \in timers : TimerFires(t)
    \/ Tick

Spec == Init /\ [][Next]_vars

-----------------------------------------------------------------------------
(* Properties.                                                             *)

TypeOK ==
    /\ gate \in Gate
    /\ gate.max \in Caps
    /\ limit \in [Objects -> Nat]
    /\ now \in Nat
    /\ timers \subseteq Timer
    /\ awaiting \subseteq Req
    /\ holding \subseteq Req
    /\ cooldown \in Nat

\* The gate counts exactly the requests that own an open release function, also
\* across its deletion and re-creation: running never drifts.
SlotAccounting == gate.running = Cardinality(holding)

\* Unsettled acquire promises and queue entries match one to one, and a deleted
\* gate had no entries.
WaitersAreQueued ==
    /\ awaiting = Entries(gate.queue)
    /\ Cardinality(awaiting) = Len(gate.queue)
    /\ ~Present(gate) => gate.queue = << >>

\* Somebody will wake every waiter: while the queue is not empty there is a
\* holder whose release drains it, or the limit that holds it up has a timer of
\* its own still to come, on this very gate object and not before the limit is
\* over.  The +50ms timer and the lazy expiry in isRateLimited never cancel out.
WaitersHaveWaker ==
    gate.queue # << >> =>
       \/ gate.running > 0
       \/ \E t \in timers : /\ t.object = gate.object
                            /\ limit[gate.object] # 0
                            /\ t.due >= limit[gate.object]

NewHolders == holding' \ holding

\* Whoever admits leaves the gate within the cap in force then, and admits
\* nobody while the gate in the map is rate-limited.
AdmissionGuarded ==
    [][NewHolders # {} => /\ gate'.running <= gate'.max
                          /\ ~(Present(gate) /\ IsRateLimited(limit, gate))]_vars

\* "Existing running requests continue, but new acquisitions are blocked until
\* the cooldown expires" (rateLimitSemaphore.ts:183): no request gets a slot
\* between a markRateLimited and the end of its cooldown.
CooldownHonoured ==
    [][NewHolders # {} => now >= cooldown]_vars
=============================================================================
