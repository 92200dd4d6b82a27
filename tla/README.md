# OmniRoute: a TLA+ verification of its resilience core

OmniRoute is an AI gateway: it takes chat requests in any of several formats and
sends them to one of many providers and accounts, with retries and fallbacks
around every upstream call. What decides whether it works under load is not the
translation of formats but the machinery that keeps too many requests from
reaching one account, model or provider, and that keeps traffic away from one
that fails. That machinery lives in module-level maps, timers and promises of a
single Node process, with some rows in SQLite. It is what this project models.

Paths below are relative to the repository; `PROJECT.json` maps every
definition to its lines.

## 1. Inventory

| Component | State | Operations | What is hard | What makes it correct |
|---|---|---|---|---|
| Account semaphore (`open-sse/services/accountSemaphore.ts`) | a gate per account: running, cap, FIFO queue, block, cleanup timer | acquire, release, markBlocked, reset, timers | timeouts and aborts racing drains; caps that each caller overwrites; release functions that outlive a reset; idle cleanup | slots exact, waiters not lost, cap and cooldown honoured |
| Model semaphore (`open-sse/services/rateLimitSemaphore.ts`) | the same per model, deleted when idle | acquire, release, markRateLimited | timers hold gate objects that are no longer in the map | as above, and somebody wakes every waiter |
| Provider circuit breaker (`src/shared/utils/circuitBreaker.ts`) | state, failure count and time, kind, open cycles, probes; a registry; a row | execute, canExecute, getStatus, reset, _onSuccess, _onFailure, lookup, sweep, eviction | state refreshed by queries; objects dropped under requests; restarts; outcomes recorded late and more than once | blocks are earned and kept, probes bounded, row true |
| Chat pipeline (`src/sse/handlers/chat.ts`, `chatHelpers.ts`) | the request | gate, execute, report, next account | the breaker's answer is stale when the call is made | failures counted as documented |
| Combo failure accounting (`open-sse/services/accountFallback.ts`) | dedup windows, cooldowns, lockouts | recordProviderFailure/Success, clear, queries | a second reporter for the same outcome | as the breaker |
| Admission (`open-sse/services/admission/`) | configuration, adaptive limit and pressure, shared fair queue, tenant lanes, leases | acquire, release, observePressure, window tick, expiry and abort, updateConfig, shutdown | a limit that shrinks under load; dispatches inside every other operation; entries moved between queues | limit kept, no head that fits is left waiting, an aged head is not overtaken |
| Token refresh (`open-sse/services/tokenRefresh.ts`, `refreshSerializer.ts`, callers in `chatCore.ts`, `base.ts`, the sweep) | a mutex per connection, a lane per rotation group, rotation map, guard, breaker, stored tokens | load, refresh, persist, retry, sweep | a refresh goes on after its caller gave up; the caller's token is stale | nobody writes the row under a refresh; the row keeps the newest token |
| Batches (`open-sse/services/batchProcessor.ts`, `src/lib/db/batches.ts`, routes) | batch rows, item checkpoints, active set, loops | create, cancel, delete, poll, recover, send, retry, finalize | a restart between dispatch and checkpoint; a cancel against a sleeping loop | no item sent twice, none lost, every batch ends |
| Service supervisor (`src/lib/services/ServiceSupervisor.ts`) | child, state, row, health checker, operation lock | start, stop, restart, exit event, health poll | exit events of an earlier child; late health answers; children that ignore SIGTERM | state and child agree at rest, operations settle |
| Dedup, idempotency, leases, session pool, adaptive circuit | see `PROJECT.json` | | expiry against use | one owner, one answer |
| Combo routing, quotas, translators, executors, dashboard | mostly data | | | not modelled |

Interaction: `chat.ts` asks the provider breaker, chooses an account, and
`chatCore.ts` acquires the account's semaphore around the upstream call; a 429
makes it call markBlocked. The round-robin combo acquires the model's semaphore
around a whole `chat.ts` call and reports the outcome to the breaker again
through `accountFallback.ts`. In front of all this, the admission controller
lets a request in; after a 401 `chatCore.ts` refreshes the connection's token,
and the sweep of `tokenHealthCheck.ts` does the same on its own. The batch
processor sends its items through the whole pipeline as a client would; embedded
services are providers whose process the supervisor owns. All of them are called
from one event loop: code between two awaits is atomic, and only awaits and
timers interleave. That is the grain of the actions below.

## 2. Plan

1. Done: `AccountSemaphore` with the abstract `ConcurrencyGate`,
   `RateLimitSemaphore`, `CircuitBreaker` with the chat pipeline and the combo's
   accounting; and the first proofs.
2. Done: `BatchProcessor` (crash recovery, cancellation), `ServiceSupervisor`,
   `TokenRefresh` (mutex, lane, guard, timeout, retries, the four callers),
   `FairCostQueue` and `Admission` (lanes and adaptive limit).
3. Done: proofs of every safety property that the passing runs check: both
   semaphores (FIFO order and the refinement included), the breaker (probes and
   open periods included), batches, supervisor, token refresh, and the admission
   controller with its fair queue.
4. Left for later: request deduplication and idempotency, exclusive leases (an
   abstract lease as their specification), the session pool, the adaptive
   connection circuit; a composition of breaker, semaphore and account choice
   for one request.

## 3. Modules

| Module | What it is |
|---|---|
| `ConcurrencyGate` | abstract: who holds a slot, who waits, whether the account cools down, how many slots there are |
| `AccountSemaphore` | the gate of one account key |
| `AccountSemaphoreProofs` | its theorems, refinement included |
| `RateLimitSemaphore`, `RateLimitSemaphoreProofs` | the gate of one model, with gate objects; its theorems |
| `CircuitBreaker` | one provider's breaker objects, registry entry, row and requests |
| `CircuitBreakerProofs` | its theorems |
| `BatchProcessor`, `BatchProcessorProofs` | rows, checkpoints and loops of batches, with crashes; their theorems |
| `ServiceSupervisor`, `ServiceSupervisorProofs` | one embedded service, its operations and children; its theorems |
| `TokenRefresh`, `TokenRefreshProofs` | the connections of one rotating provider and their callers; their theorems |
| `QueueFacts` | lemmas on queues without duplicates and on loops, for the proof modules |
| `FairCostQueue` | the multi-tenant queue as a value; no state of its own |
| `Admission`, `AdmissionProofs` | the admission controller over that queue; the theorems about both |
| `MC...` | instances for TLC; `MCCircuitBreakerOutage` adds a history variable |

Operators named `Bug_...` are plausible mistakes. No specification uses them;
each shows that some property notices the mistake when it takes the place of the
definition that follows it.

### AccountSemaphore

Gates of different keys share nothing, so the module is about one key. `gate` is
the map's entry (`entry = "absent"` when there is none), `blockedUntil = 0` is
null. `awaiting`, `holding` and `bypassing` say what each caller owns: an
unsettled promise, a release function that counts, a no-op. `acquire` is four
actions, one for each way it ends; the loop of `drainQueue` is the number of
waiters it resolves (`Admittable`) and the gate it leaves (`DrainQueue`).
`isBlocked` clears an expired block as it answers, and the model does so exactly
where the code gets as far as asking: this is the cause of the finding in run
`account_semaphore_wakeup`. An acquire whose signal is already aborted, a second
call of a release function, and calls that find no gate change nothing and are
stuttering steps. Queue timeouts have no due time in the model: they may fire at
any moment, which includes every moment of the real ones. The cleanup timer has
no due time either.

### RateLimitSemaphore

As above, but a gate is an object: `limit[o]` is its rate limit, and a timer
names the object it was armed for. Callers behave as the round-robin loop of
`combo.ts`: acquire, markRateLimited while the slot is held, release in
`finally`. `DefaultMax` is the cap that markRateLimited writes because it calls
`getGate` without one.

### CircuitBreaker

`breaker[o]` are the objects, of which `registered` is the one in the registry.
A request keeps the object it looked up, through every account it tries. All
objects of a name write one row, `db`; `rowOwner` remembers who wrote it last.
The methods are functions from a breaker to the breaker they leave. The phases
of a request are the awaits: `ready` (passed the gate, has not called execute),
`calling`, `bypassing` (a forced connection does not go through execute), `ok`,
`bad`, `badForced` (the result is there), `comboOk` (the combo still reports).
`probing` is a history variable: the calls that the current HALF_OPEN period of
their object let in, dropped when that period ends, also when a cooldown of zero
makes the next one begin within the same report. `CallResolves` calls
`_onSuccess` whatever the result says, because execute does. `Sweep` and `Evict`
drop a cold breaker and its row, `Restart` keeps only the row.

A lookup merges the options it is given into those of the object, field by field
(`Merged`): `chatHelpers.ts` passes a provider's profile without the backoff
(`AtGate`), `recordProviderFailure` passes all of it, a query passes nothing. An
option, or the cooldown of a kind, that is not given is `NoOverride`. No caller
passes `halfOpenRequests`, so it is the constant `HalfOpenRequests`;
`kindThresholds`, which no caller sets either, is left out, and so are
successCount and the transition history, which nothing reads. Writes of the row
do not fail in the model. A request of the model does not say whether it is a
target of a combo or a live test of one, for which `chat.ts` leaves the count to
the combo: the outcome of a call may be counted or not.

### BatchProcessor

`row`, `ckpt`, `input`, `lines` and `age` are in the database and survive
`Crash`; `active`, `loop` and `cached` do not. A poll is one step: its awaits
wait for nothing, and a crash in the middle of one leaves some batches polled
and others not, which another poll completes (each batch's writes are
idempotent). `loop[b].pc` names the await a loop is in: the throttle, the
request, the pause before a retry. finalizeBatch has no await, so nothing
interleaves with its three steps (`MarkFinalizing`, `PersistCounts`,
`CompleteBatch`); they are separate because a crash may come between them.
Whether a sleeping loop can still write a checkpoint of a batch that was deleted
depends on the SQLite driver's foreign keys: `SendItem` and `SendItemRefused`
are the two outcomes. `sends` and `late` are
history variables.

### ServiceSupervisor

`lock` is the chain of promises that serialises start, stop and restart;
`op[o].pc` is the await the operation is in. A probe of the port may find
anything, a child may die at any time and may ignore SIGTERM. `proc[p] =
"dead"` is a child whose exit event has not been delivered; it may be delivered
after the next child was spawned. The checker's probes in flight are a number,
since only their answers matter, and an answer may come after the checker was
stopped.

### TokenRefresh

A refresh token is its generation; the provider accepts the newest one and
may revoke the family when an older one is presented. `refresh[c]` is the entry of
the mutex and `lane` the chain of the rotation group. A caller is a request that
reacts to a 401 (with retries), one that refreshes in advance, the executor's
check before a request, or the sweep; they differ in what they persist, under
which guard, and whether they fall back to a write of their own (`Expected`,
`FallsBack`, `Deactivates`). A timeout lets the caller go and the refresh run.
The life of a token has the three levels the code tells apart: "ample", "short"
(within the sweep's buffer of 5 minutes) and "over" (within the 60 seconds for
which a cached token is no longer an answer). An answer that comes from the row
keeps the row's expiry. What the callers of a refresh write when it settles is
part of the settling step: between the settling of the promise and these SQLite
writes there are microtasks only, no timer and no I/O. `RefreshOwnsRow` therefore
does not look for a fallback write that comes in between; what such a write
does to the newest token is what `RowHoldsNewest` asks, in
`token_refresh_persist`. A sweep is a caller that loads the row anew; the pauses
between the sweeps of one connection are not modelled, it may come at any time.
`received` is a history variable.

### FairCostQueue and Admission

Every method of the controller runs without yielding and dispatches before it
returns, so each action ends with the dispatch (`Dispatched`), which serves the
shared queue and, only when nothing waits there, each lane in turn. `late` is
the set of waiting requests whose deadline passed before the dispatch reached
them; such an entry is refused when it is its turn. Time of arrival is the
relation `older` between waiting requests, because an entry keeps its
enqueuedAtMs when updateConfig moves it; a pair is forgotten when one of the two
no longer waits. A loop of the code (dispatch, dispatchLanes, drain, the
requeueing in updateConfig) is a function of the number of turns it has taken,
with one operator for a turn; a turn that finds nothing changes nothing, so the
loop runs as often as there are entries to take. The cost of a set of requests
is the number of units they are made of, which is the sum the code keeps in
`activeCost` and in the queue's `cost`. The limit is exact; utilisation and
latency gradient are abstracted to the three levels that closeAdaptationWindow
tells apart. Idle lanes may go at any time and in any number (`EvictIdleLanes`),
which includes the eviction at 1000 lanes. No two requests arrive in the same
millisecond; the code would let the round-robin position decide between them.

## 4. Runs

| Run | Instance | Shows |
|---|---|---|
| `account_semaphore` | 3 callers, caps 1 and 2, queue of 2, cooldowns of 1 and 2 ticks, 5 ticks, 2 timers, 1 reset; 172,234 states | slots, waiters, queue bound, cap, cooldown, FIFO, settlement, refinement |
| `account_semaphore_wakeup` | cap 1, 1 timer | finding: a waiter is stranded |
| `rate_limit_semaphore` | 3 requests, caps 1 and 2, queue unlimited, 0 and 1, 2 timers; 257,687 states | slots, waiters, wakers, admission |
| `rate_limit_cooldown` | the same, 1 timer | finding: the limit is lost with the gate |
| `circuit_breaker` | 2 requests, 2 objects, thresholds 2 and 3, 4 ticks, at most 3 failures; 1.56 million states | all six properties of section 3's breaker |
| `breaker_stuck_half_open` | the same | finding: HALF_OPEN for ever |
| `breaker_outage` | 1 request after the other, none with a forced connection | finding: failed results do not add up |
| `batch_processor` | 2 batches (2 lines valid or 1 invalid; 0 lines), pool of 1, 2 attempts, 2 crashes; 439,279 states | an item is sent once, a completed batch is whole, a loop owns its batch, a cancel stops it, every batch ends |
| `service_supervisor` | 2 operations, 2 children, 2 failed polls to unhealthy, 1 health request in flight; 492,330 states | state against child, a running service is polled, operations settle |
| `token_refresh` | request and sweep on one connection, a sibling's request in the same lane; 3 and 1 generations, 2 attempts, breaker after 1; 142,170 states | nobody writes the row under a refresh, every caller ends |
| `token_refresh_persist` | 2 requests on 1 connection, 3 generations, 3 attempts | finding: the row keeps a consumed token |
| `admission` | 5 requests of 3 tenants, costs 1 to 3, 5 configurations, limits 1 to 3; 101,417 states | the books agree, no head that fits waits, budget and reservation kept, the reserved head served first |

*Bounds.* Three callers are the least that give a holder, a waiter and a waiter
behind it; caps 1 and 2 let the cap fall below the slots in use and let one
drain admit two. Two timers give an old and a new cooldown at once. Two objects
are a registered breaker and a dropped one that a request still holds; two
requests are a late outcome and a current one. Thresholds 2 and 3 and the two
option records make every state reachable and let the options change under a
restored row. Two batches and a pool of one make a batch wait for the pool; two
crashes are one in a run and one in its recovery; a batch of no lines and an
invalid file are the early exits. The real ceilings (200 attempts of an item, 3
failed polls, 5 failures of the token breaker) are lowered so that they are
reached. Two children are an old one and a new one; two operations are one that
runs and one that waits for the lock. Three generations are a caller's, the
row's and the provider's, all different. With `MCKindOf` changed so that a
proactive caller or the executor's check takes the sweep's place, the run passes
as well (131,047 states each). One connection starts with a token of ample life
and one with a token that is over, so that a refresh can be needed at once and a
token can age on the way. Five requests give two heads that were both passed
over `MaxSkips` times; the second configuration raises a limit that has shrunk,
so that an update finds room for a head that waits. `MaxTime`, `MaxTimers`,
`MaxResets`, `MaxFailures`, `MaxCrashes`, `MaxProbes`, `MaxGen`, `LastGen` and
`MaxLate` are bounds of the model only, in the guards of the actions they limit;
raising `MaxLate` from 1 to 5 reaches no further state of `admission`. The
breaker run identifies requests and objects up to permutation, and ignores what
no action and no property reads: the contents of an object that nobody refers
to, the probes offered by and charged to an object that is not HALF_OPEN, and a
promised open period that has passed. With a second profile that has no
cooldowns by kind it passes as well (6.2 million states).

*Fairness.* `account_semaphore`: an armed queue timer fires in the end, which
Node guarantees while its event loop runs; an upstream call may last for ever,
so nothing is assumed about releases. `batch_processor`: the poll's interval
fires for ever and a loop goes on, since sleeps end and a dispatch has a timeout
(but see the body's read in section 6); crashes are finitely many.
`service_supervisor`: every wait of an operation has a timeout; children are not
assumed to die, nor probes to be answered. `token_refresh`: callers go on, a POST
ends and timers fire; that a caller times out is not assumed. The other runs
check safety.

*Deadlock* is checked in every passing run but `token_refresh`, where the system
may stop once every connection is deactivated, and `admission`, where it may stop
after shutdown with every lease released.

### What the violations show

- `account_semaphore_wakeup`: a caller waits behind a block; the block expires;
  the combo router asks isAccountSemaphoreFull, which forgets it; the unblock
  timer finds no block and drains nothing. The waiter stays at a free gate until
  another release, or its own timeout fails the request. (It is not lost:
  `EveryWaiterSettles` holds.)
- `rate_limit_cooldown`: acquire, markRateLimited, release deletes the idle gate,
  acquire at once.
- `breaker_stuck_half_open`: the only probe is aborted by its client.
- `breaker_outage`: execute counts a success for each failed result, then
  `chat.ts` counts the failure.
- `token_refresh_persist`: the answer of a refresh that timed out is persisted
  during the pause before the retry; the retry rotates again, its guard still
  expects the first token and skips the write, and the fallback is skipped
  because a persist ran. The newest token is only in memory, and after it is gone
  the next refresh presents a consumed token, which may cost the family. Two more
  routes lead to the same state: a hit in the rotation map one generation behind
  the row is skipped by the guard and then written by the fallback
  (`chatCore.ts:3926-3931`), and a refresh that presents the row's token in place
  of the caller's is guarded by the caller's.

## 5. Proofs

All theorems are about every value of the constants that satisfies the named
assumptions, which TLC evaluates in every run: finite callers, operations,
children and batches, positive caps, cooldowns, thresholds and ceilings,
`ShortestCooldown` below every configured one, and the bounds of the model. One
of them, `PowersOfTwo` (`2 ^ n >= 1` up to the bound on failures), is a fact of
arithmetic rather than about a constant; the provers know nothing of powers.

*Account gate* (`AccountSemaphoreProofs`). `TypeCorrect`, `SlotsAccounted`,
`NoLostWaiter`, `QueueStaysBounded`, `AdmissionsWithinCap`, `CooldownsHonoured`,
`Implementation`. The inductive invariant `IInv` adds to the type invariant that
the queue has no duplicates and lists exactly the awaiting callers, who hold
nothing; that running is at most the number of holders and at least that number
less `MaxCap` for each reset; that running stays within `MaxCap`; and that a
cooldown that has not passed is written in a gate that is present (without it,
the deletion of an idle gate could forget a cooldown). One lemma for each kind
of step re-establishes it, on top of lemmas about what a drain admits and what
the removal of an entry leaves. The refinement maps `budget` to
`MaxCap * (1 + resets)`: a reset writes the slots in use off, and nothing else
ever lets more callers in. Every step is then one of ConcurrencyGate's actions
or a stutter. `WaitersServedInOrder` (FIFO) needs only that the queue has no
duplicates: a drain admits a prefix of it, and whoever a step admits otherwise
was not queued.

*Circuit breaker* (`CircuitBreakerProofs`). `TypeCorrect`, `BlocksWhenEarned`,
`BackoffIsForgotten`, `RowIsWrittenThrough`. None of the three is inductive on
the registered breaker alone, because a restart or a lookup builds an object
from the row and a dropped object may have written it. `IInv` therefore states
the soundness of EVERY object and of the row, that a request under way holds an
object, and that the row is a copy of its owner while that is registered. The
property counts against configured thresholds only, and a query may create a
breaker with the constructor's defaults, so `IInv` also states that the object a
request holds has a configured threshold (`HeldConfigured`): every lookup that
hands an object to a request merges a caller's options into it
(`MergedConfigured`), and no failure is ever counted against a default. The
methods are treated once each (`OnFailureGood`, `RestoredGood`, ...), and the
steps follow from three lemmas on how a step touches object and row.

`ProbesAreBounded`, by `HalfOpenRequests`, rests on `ProbeInv`: a probe is a
call in flight, so neither a request that looks a breaker up nor one that
records an outcome is a probe, and every object has room for the probes it still
offers. The first attempt at this proof failed: with a cooldown of zero a failed
report opens the breaker and the refresh that follows begins a new HALF_OPEN
period, whose budget the history variable charged with the probes of the old
one. TLC confirmed it with a reset timeout of zero, which the run's options do
not include; `RecordProviderFailure` now ends the old period in that case.

`OpenPeriodKept` rests on `PeriodInv`. Until the promised time both the row and
the registered breaker block, because a restart or a lookup restores one from
the other; and no cooldown is shorter than `ShortestCooldown`, since the
escalation multiplies it by a power of two whose exponent the failures bound.

*Model gate* (`RateLimitSemaphoreProofs`). `TypeCorrect`, `SlotsAccounted`,
`NoLostWaiter`, `NoStrandedWaiter`, `AdmissionsGuarded`. That every waiter has a
waker is not inductive: a waiter may count on a release now and stand alone
later. `IInv` splits it into a fact about limits and timers (a limit of the gate
in the map has a timer on this object that is not due before the limit is over)
and one about the gate (waiters that no release will wake are held up by a
limit). A drain that leaves waiters at an unused gate would break the second; it
cannot, because a cap is at least one.

*Batches* (`BatchProcessorProofs`). `TypeCorrect`, `NoDuplicateWork`, `LoopsOwn`,
`CancelStops`, `CompletedWhole`. The invariant is local: `Sound` speaks of the
row, checkpoints, loop and history of one batch, and batches meet only in the
size of the pool. What ties one run of the process to the next is in the
database: an item that was sent has a checkpoint that the next loop takes for
done (`Recoverable`), unless the batch is deleted and no loop will start again.
Within a loop, what it has counted is what the checkpoints behind it say, and
what it saw when it started still holds of those before it. A crash forgets the
loop and keeps the rest; a poll starts a loop from the checkpoints; both leave
the batch sound, and a lemma for each await of the loop does the rest.

*Supervisor* (`ServiceSupervisorProofs`). `TypeCorrect`, `StateIsTrue`,
`RunningServiceIsPolled`. An
operation writes "running" or "stopped" because of what it did several awaits
earlier, while exit events and health answers came in between. `IInv` says
what is still true at each await, and that only the operation at the head of the
lock is past its first one. That a running service is polled needs one more fact:
a start that still waits, in the state "starting", has an active checker, because
whatever stops the checker meanwhile also leaves "starting".

*Token refresh* (`TokenRefreshProofs`). `TypeCorrect`, `RowOwned`. `TypeOK`
includes that the rotation map leads from a token to its direct successor; for
that, a refresh in its settle gap must carry the successor of the token it
presented, and a caller at work must hold a real token. That the row is owned
follows because a caller that waits has a refresh to wait for: all callers of an
answer are served in the step that ends the refresh, so no writer is left over
when the next one begins.

*Admission* (`AdmissionProofs`). `TypeCorrect`, `NoStrandedHead`, `BudgetKept`,
`ReservationHonoured`, for every finite set of requests with positive costs, any
tenants, any configurations with limits `1 <= minLimit <= maxLimit`, any
`MaxSkips` from 1 and any step of growth. The argument has four layers.

- *Queue.* `QInv` says that order and buckets agree, that a request waits once
  and in its tenant's bucket, that the cursor is a position of the order, and
  that pass-over counts stay within `MaxSkips`. Each operator of the queue keeps
  it (`EnqueueFacts`, `DequeueFacts`, `RemoveByIdFacts`) and changes who waits by
  exactly one request; an aged head stays an aged head until it leaves.
  `ReservedFacts` and `ChoiceFacts` say whom dequeue takes: none of the other
  aged heads is older.
- *Controller.* `WInv` adds the lanes, the statuses, that those who wait are
  totally ordered by arrival, and that `activeCost` is the cost of the leases. It
  also holds of the values between two turns of a loop, where
  `NoFittingHeadWaits` does not.
- *Loops.* `Follows(w, v, limit)` is what a dispatch from `w` to `v` guarantees:
  it admits no one or ends within the limit, whoever is admitted is older than
  each aged head that stays, and that head stays aged. It is transitive, holds of
  a turn, and therefore of the loop. That the loop has finished (`Stuck`) when
  its turns are used up is a counting argument: a turn that is not stuck takes
  one entry. The inductions over turns are done with the least number that fails
  (`LoopInduction` and `LoopRuns` in `QueueFacts`), since the theorem of natural
  induction cannot be instantiated here.
- *Steps.* Every action first prepares a value (`Enqueued`, the release, the
  removal, `WithoutLanes`, `Moved`) in which nobody is newly admitted and nobody
  is newly older than an aged head, and then dispatches. `DispatchedStep` treats
  what they share, one lemma an action the rest. updateConfig prepares without
  the second promise, because it starts the counts of pass-overs anew, which is
  why the second half of `AdmissionsRespectBudget` excepts it.
- *The reserved head.* `ReservationHonoured` is about every step, updateConfig
  included. The head that has reserved the capacity is the one that the next
  dequeue takes if it fits (`FirstIsChosen`), and the first that updateConfig
  drains, so it is also the first to be queued again (`FirstRequeued`,
  `MovedFacts`). The first turn of the dispatch that follows offers it all that
  is free; if it is left waiting, it did not fit, and nothing that the step
  admits afterwards makes more room.

`IInv` consists of the bounds on the limit, `WInv`, the fact that `older` relates
waiting requests only (or an arrival would not be the youngest), and
`NoFittingHeadWaits` itself, which steps that do not dispatch inherit.

*Only model-checked.* Liveness (`EveryWaiterSettles`, `EveryBatchEnds`,
`EveryOperationSettles`, `EveryCallerEnds`): TLAPS does not reason about
fairness. Every other property of a passing run is also a theorem.

## 6. Not modelled

See the components with status `not_modelled` in `PROJECT.json`. Format
translators, executors, the dashboard and the command line are data or I/O. The
Bottleneck library behind `rateLimitManager.ts` is not in the repository. Of the
pipeline in `chat.ts`, credential choice, waiting for cooldowns and emergency
fallback are abstracted to "the request tries again or does not". Of the token
refresh, the path without a connection id and a second process on the same
database are left out; of the admission controller, the virtual queue of shadow
mode (counters only) and the exact averages.

*Seen while modelling*, and within what the models allow, but not claimed as a
property by any document, or not in reach of a run:

- supervisor, against its documentation: `child.killed` is true once SIGTERM was
  sent, so a child that ignores it is never sent SIGKILL
  (`ServiceSupervisor.ts:312`; `docs/frameworks/EMBEDDED-SERVICES.md:278` says
  "Sends SIGTERM, waits 15 s, then SIGKILL if still alive"); restart takes the
  operation lock once for its stop and again for its start, so another operation
  may come in between (`:252-255`; line 294 of the same document says "under the
  operation lock").
- supervisor: the exit event of an old child clears the handle of the new one and
  turns its start to "error" (`:362`), and a later stop leaves that child alive;
  the row may say "starting" while the state is "error" (`:179`); `spawnFailed`
  is never reset; answers to polls count after a stop (`healthCheck.ts:52-63`).
  The start whose state an old exit event turned to "error" leaves its checker
  polling; when that turns "unhealthy", nothing happens, because the state is
  neither "starting" nor "running"; since only a change of health is reported, the
  next start may report "running" with an unhealthy port that is polled without end,
  where the comment at `:64-68` wants an error state. `StateMatchesChild` and
  `RunningIsWatched` state what remains true.
- batches: the body of an answer is read outside the dispatch timeout
  (`batchProcessor.ts:384`); a crash between the creation of an output file and
  the row that names it leaks the file (`:807`); a recovered batch past its
  window that finds no room is expired and its results are lost (`:273`); a retry
  does not look for a cancel.
- admission: a request that fits is admitted ahead of lane waiters, and a
  dispatch admits one request of each lane (`controller.ts:310-313`, `632-657`);
  an aged head that costs more than a lowered limit blocks the queue until its
  deadline; updateConfig forgets how often a head was passed over.

## 7. Running

    tlc -workers 2 -config MCAccountSemaphore.cfg MCAccountSemaphore
    tlapm AccountSemaphoreProofs.tla

and likewise for the runs and proof modules above.
