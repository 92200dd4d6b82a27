--------------------------- MODULE CircuitBreaker ---------------------------
(***************************************************************************)
(* src/shared/utils/circuitBreaker.ts, the breaker of ONE provider: the    *)
(* class, its registry entry, its row in domain_circuit_breakers, and the  *)
(* requests that go through it in src/sse/handlers/chat.ts (handled by     *)
(* chatHelpers.ts) and open-sse/services/accountFallback.ts.               *)
(*                                                                         *)
(* A request keeps the breaker OBJECT it looked up; the registry may drop  *)
(* that object and create another one while the request is in flight.  So  *)
(* there are several objects, of which at most one is registered, and they *)
(* all write the same row.  Code between two awaits is one action.         *)
(*                                                                         *)
(* Callers pass options that getCircuitBreaker merges field by field.  No  *)
(* caller passes halfOpenRequests or kindThresholds: the first keeps the   *)
(* constructor's value, the second is left out.                            *)
(***************************************************************************)
EXTENDS Integers, FiniteSets

CONSTANTS
    Req,                    \* requests
    Obj, NoObj,             \* breaker objects; no object registered
    Options,                \* what callers configure: the provider's profiles
    DefaultOptions,         \* what the constructor takes without options
    HalfOpenRequests,       \* the constructor's, which no caller changes
    Kinds, NullKind,        \* failure kinds of classifyError; no kind
    NoOverride,             \* an option, or an entry of cooldownByKind, not given
    ShortestCooldown,       \* a lower bound of the configured cooldowns
    SweepAge,               \* the sweep's 30 minutes, in ticks
    MaxTime,                \* bound of the clock
    MaxFailures             \* bound of failureCount

\* The options of a breaker.
OptionRecord ==
    {opt \in [failureThreshold : Nat \ {0}, degradationThreshold : Nat, resetTimeout : Nat,
              backoffEscalationCount : Nat, maxBackoffMultiplier : Nat \ {0},
              cooldownByKind : [Kinds -> Nat \cup {NoOverride}]] :
        /\ ShortestCooldown <= opt.resetTimeout
        /\ \A k \in Kinds : opt.cooldownByKind[k] # NoOverride
                              => ShortestCooldown <= opt.cooldownByKind[k]}

ASSUME BreakerAssumption ==
    /\ Options \subseteq OptionRecord /\ Options # {}
    /\ DefaultOptions \in OptionRecord
    /\ NoObj \notin Obj
    /\ NullKind \notin Kinds
    /\ NoOverride \notin Nat
    /\ HalfOpenRequests \in Nat \ {0}
    /\ ShortestCooldown \in Nat
    /\ SweepAge \in Nat
    /\ MaxTime \in Nat
    /\ MaxFailures \in Nat

\* A fact about exponentials that the provers do not know.
ASSUME PowersOfTwo == \A n \in 0 .. MaxFailures : 2 ^ n >= 1

VARIABLES
    breaker,        \* the objects
    registered,     \* registry.get(name)
    db,             \* the row of this name
    request,        \* the requests, and the object each of them holds
    now,            \* Date.now()
    rowOwner,       \* history: the object that wrote the row
    probing,        \* history: calls let in by the current HALF_OPEN period
    quietUntil      \* history: end of the shortest cooldown after the last
                    \* failure that left the registered breaker OPEN

vars == <<breaker, registered, db, request, now, rowOwner, probing, quietUntil>>

States == {"CLOSED", "DEGRADED", "OPEN", "HALF_OPEN"}

\* lastFailureTime = 0 stands for null: the code tests it for truth.
Breaker ==
    [state : States, failureCount : Nat, lastFailureTime : Nat,
     lastFailureKind : Kinds \cup {NullKind}, openCycleCount : Nat,
     halfOpenAllowed : Int, options : OptionRecord]

\* What _persistToDb saves and _restoreFromDb reads back.
Row(b) == [row |-> "present", state |-> b.state, failureCount |-> b.failureCount,
           lastFailureTime |-> b.lastFailureTime,
           lastFailureKind |-> b.lastFailureKind,
           openCycleCount |-> b.openCycleCount]

NoRow == [row |-> "absent", state |-> "CLOSED", failureCount |-> 0,
          lastFailureTime |-> 0, lastFailureKind |-> NullKind, openCycleCount |-> 0]

Rows == [row : {"present", "absent"}, state : States, failureCount : Nat,
         lastFailureTime : Nat, lastFailureKind : Kinds \cup {NullKind},
         openCycleCount : Nat]

Phases == {"idle", "ready", "calling", "bypassing", "ok", "bad", "badForced", "comboOk"}

Bug_RestoredWithoutFailureTime ==
    [state |-> db.state, failureCount |-> db.failureCount, lastFailureTime |-> 0,
     lastFailureKind |-> db.lastFailureKind, openCycleCount |-> db.openCycleCount,
     halfOpenAllowed |-> 0, options |-> DefaultOptions]

\* The constructor, _restoreFromDb included.  (The options of the lookup that
\* calls it are merged into the defaults by Configured.)
Restored ==
    [state |-> db.state, failureCount |-> db.failureCount,
     lastFailureTime |-> db.lastFailureTime,
     lastFailureKind |-> db.lastFailureKind,
     openCycleCount |-> db.openCycleCount,
     halfOpenAllowed |-> IF db.state = "HALF_OPEN" THEN HalfOpenRequests ELSE 0,
     options |-> DefaultOptions]

Blank == [state |-> "CLOSED", failureCount |-> 0, lastFailureTime |-> 0,
          lastFailureKind |-> NullKind, openCycleCount |-> 0,
          halfOpenAllowed |-> 0, options |-> DefaultOptions]

Idle == [phase |-> "idle", obj |-> NoObj]

At(phase, o) == [phase |-> phase, obj |-> o]

Init ==
    /\ breaker = [o \in Obj |-> Blank]
    /\ registered = NoObj
    /\ db = NoRow
    /\ request = [r \in Req |-> Idle]
    /\ now = 1
    /\ rowOwner = NoObj
    /\ probing = {}
    /\ quietUntil = 0

-----------------------------------------------------------------------------
(* The methods of the class, as functions from a breaker to the breaker    *)
(* they leave.                                                             *)

\* _effectiveResetTimeout: doubled for every failed probe beyond the first
\* backoffEscalationCount ones, up to maxBackoffMultiplier times.
EffectiveResetTimeout(b) ==
    LET opt == b.options
        factor == IF b.openCycleCount <= opt.backoffEscalationCount THEN 1
                  ELSE 2 ^ (b.openCycleCount - opt.backoffEscalationCount)
    IN  opt.resetTimeout * (IF factor < opt.maxBackoffMultiplier THEN factor
                            ELSE opt.maxBackoffMultiplier)

\* _effectiveCooldown
EffectiveCooldown(b) ==
    IF b.lastFailureKind # NullKind /\ b.options.cooldownByKind[b.lastFailureKind] # NoOverride
    THEN b.options.cooldownByKind[b.lastFailureKind]
    ELSE EffectiveResetTimeout(b)

\* _shouldAttemptReset, for an OPEN breaker.
CooldownOver(b) ==
    /\ b.state = "OPEN"
    /\ b.lastFailureTime # 0 => now - b.lastFailureTime >= EffectiveCooldown(b)

\* _refreshOpenState, which every query and every execute starts with.
Refreshed(b) ==
    IF CooldownOver(b)
    THEN [b EXCEPT !.state = "HALF_OPEN", !.halfOpenAllowed = HalfOpenRequests]
    ELSE b

\* canExecute, once refreshed.
CanExecute(b) ==
    \/ b.state \in {"CLOSED", "DEGRADED"}
    \/ b.state = "HALF_OPEN" /\ b.halfOpenAllowed > 0

\* reset: everything but halfOpenAllowed and the options.
ResetBreaker(b) ==
    [b EXCEPT !.state = "CLOSED", !.failureCount = 0, !.lastFailureTime = 0,
              !.lastFailureKind = NullKind, !.openCycleCount = 0]

Bug_OnSuccessKeepsCycles(b) ==
    IF b.state \in {"OPEN", "HALF_OPEN"}
    THEN [b EXCEPT !.state = "CLOSED", !.failureCount = 0] ELSE b

Bug_OnSuccessUnguarded(b) ==
    IF b.state \in {"OPEN", "HALF_OPEN"} THEN ResetBreaker(b)
    ELSE [b EXCEPT !.failureCount = b.failureCount - 1]

\* _onSuccess.  A successful probe keeps lastFailureTime.
OnSuccess(b) ==
    CASE b.state = "OPEN" -> ResetBreaker(b)
      [] b.state = "HALF_OPEN" ->
           [b EXCEPT !.state = "CLOSED", !.failureCount = 0,
                     !.lastFailureKind = NullKind, !.openCycleCount = 0]
      [] OTHER ->
           LET n == IF b.failureCount > 0 THEN b.failureCount - 1 ELSE 0
           IN  [b EXCEPT !.failureCount = n,
                         !.state = IF n <= b.options.degradationThreshold
                                   THEN "CLOSED" ELSE b.state]

\* The state a failure leads to, failureCount counted.
Bug_StateAfterFailureOffByOne(b, n) ==
    CASE b.state \in {"OPEN", "HALF_OPEN"} -> "OPEN"
      [] b.state \in {"CLOSED", "DEGRADED"} /\ n > b.options.failureThreshold -> "OPEN"
      [] OTHER -> b.state

StateAfterFailure(b, n) ==
    CASE b.state \in {"OPEN", "HALF_OPEN"} -> "OPEN"
      [] b.state \in {"CLOSED", "DEGRADED"} /\ n >= b.options.failureThreshold -> "OPEN"
      [] b.state = "CLOSED" /\ n < b.options.failureThreshold
           /\ n >= b.options.degradationThreshold -> "DEGRADED"
      [] OTHER -> b.state

\* _onFailure
OnFailure(b, kind) ==
    [b EXCEPT !.failureCount = b.failureCount + 1,
              !.lastFailureTime = now,
              !.lastFailureKind = kind,
              !.openCycleCount = IF b.state = "HALF_OPEN" THEN b.openCycleCount + 1
                                 ELSE b.openCycleCount,
              !.state = StateAfterFailure(b, b.failureCount + 1)]

-----------------------------------------------------------------------------
(* The registry.                                                           *)

\* An object that nothing refers to: a new breaker takes its place.
Unused(o) == o # registered /\ \A r \in Req : request[r].obj # o

\* The object getCircuitBreaker returns: the registered one or a new one.
Entry(o) == IF registered # NoObj THEN o = registered ELSE Unused(o)

\* getCircuitBreaker(name)
LookedUp == IF registered # NoObj THEN breaker[registered] ELSE Restored

\* The profile as chat.ts passes it, which leaves the backoff out.
AtGate(opt) ==
    [opt EXCEPT !.backoffEscalationCount = NoOverride, !.maxBackoffMultiplier = NoOverride]

Given(old, new) == IF new = NoOverride THEN old ELSE new

\* Options that are not given, and kinds without an entry, keep what they had.
Merged(old, opt) ==
    [opt EXCEPT
        !.backoffEscalationCount = Given(old.backoffEscalationCount, @),
        !.maxBackoffMultiplier = Given(old.maxBackoffMultiplier, @),
        !.cooldownByKind = [k \in Kinds |-> Given(old.cooldownByKind[k], @[k])]]

\* getCircuitBreaker(name, options)
Configured(opt) == [LookedUp EXCEPT !.options = Merged(LookedUp.options, opt)]

Save(o, b) == db' = Row(b) /\ rowOwner' = o

Bug_TouchUnsaved(o, b, saved) ==
    breaker' = [breaker EXCEPT ![o] = b] /\ UNCHANGED <<db, rowOwner>>

\* Object o becomes b, after a lookup or a refresh only: the row is written
\* when the lookup had options or the refresh moved the state.
Touch(o, b, saved) ==
    /\ breaker' = [breaker EXCEPT ![o] = b]
    /\ IF saved THEN Save(o, b) ELSE UNCHANGED <<db, rowOwner>>

\* The calls of the current HALF_OPEN period after the refresh of b.
ProbingAfter(o, b) ==
    IF CooldownOver(b) THEN {r \in probing : request[r].obj # o} ELSE probing

\* The history of an outcome recorded on object o, left as b.  A dropped object
\* overwrites the row of the registered one: nothing is promised then.
Quiet(o, b) ==
    quietUntil' = IF o = registered' /\ b.state = "OPEN" THEN now + ShortestCooldown ELSE 0

\* Request r, done with its call if it had one, records b on its object.
Record(r, b) ==
    LET o == request[r].obj
    IN  /\ b.failureCount <= MaxFailures
        /\ UNCHANGED <<registered, now>>
        /\ breaker' = [breaker EXCEPT ![o] = b]
        /\ Save(o, b)
        /\ Quiet(o, b)
        /\ probing' = probing \ {r}

NoRecord == UNCHANGED <<breaker, registered, db, now, rowOwner, quietUntil>>

Move(r, p) == request' = [request EXCEPT ![r] = p]

-----------------------------------------------------------------------------
(* A request of chat.ts.                                                   *)

\* checkPipelineGates, then the handler's own lookup with the same options.
CheckGate(r, o, opt) ==
    LET b == Configured(AtGate(opt))
    IN  /\ request[r].phase = "idle"
        /\ Entry(o)
        /\ Touch(o, Refreshed(b), TRUE)
        /\ registered' = o
        /\ probing' = ProbingAfter(o, b)
        /\ IF CanExecute(Refreshed(b)) THEN Move(r, At("ready", o)) ELSE UNCHANGED request
        /\ UNCHANGED <<now, quietUntil>>

\* The same with a forced connection: the gate logs and lets the request pass,
\* and executeChatWithBreaker makes the call without the breaker.
CheckGateForced(r, o, opt) ==
    LET b == Configured(AtGate(opt))
    IN  /\ request[r].phase = "idle"
        /\ Entry(o)
        /\ Touch(o, Refreshed(b), TRUE)
        /\ registered' = o
        /\ probing' = ProbingAfter(o, b)
        /\ Move(r, At("bypassing", o))
        /\ UNCHANGED <<now, quietUntil>>

\* What execute does to the breaker it lets a call through.
Bug_LetThroughKeepingProbe(b) == b

LetThrough(b) ==
    IF b.state = "HALF_OPEN" THEN [b EXCEPT !.halfOpenAllowed = b.halfOpenAllowed - 1] ELSE b

\* execute, up to its await: the call is let through.
ExecuteAdmitted(r) ==
    LET o == request[r].obj
        b == Refreshed(breaker[o])
    IN  /\ request[r].phase = "ready"
        /\ CanExecute(b)
        /\ Touch(o, LetThrough(b), CooldownOver(breaker[o]))
        /\ probing' = IF b.state = "HALF_OPEN"
                      THEN ProbingAfter(o, breaker[o]) \cup {r} ELSE probing
        /\ Move(r, At("calling", o))
        /\ quietUntil' = IF CooldownOver(breaker[o]) /\ o # registered THEN 0 ELSE quietUntil
        /\ UNCHANGED <<registered, now>>

\* execute throws CircuitBreakerOpenError, which executeChatWithBreaker turns
\* into a 503 result.  (A refresh always leaves a probe, so none happened.)
ExecuteRefused(r) ==
    /\ request[r].phase = "ready"
    /\ ~CanExecute(Refreshed(breaker[request[r].obj]))
    /\ Move(r, At("bad", request[r].obj))
    /\ NoRecord
    /\ UNCHANGED probing

\* The awaited call resolves, with a result whose success field may be false:
\* execute takes both for a success.
CallResolves(r, result) ==
    /\ request[r].phase = "calling"
    /\ Record(r, OnSuccess(breaker[request[r].obj]))
    /\ Move(r, At(result, request[r].obj))

\* The awaited call throws an error that isFailure counts.  An unreachable proxy
\* becomes a 503 result; any other error ends the request.
CallThrows(r, kind) ==
    /\ request[r].phase = "calling"
    /\ Record(r, OnFailure(breaker[request[r].obj], kind))
    /\ Move(r, At("bad", request[r].obj)) \/ Move(r, Idle)

\* isFailure does not count the error: a client abort, a local stream error.
CallThrowsIgnored(r) ==
    /\ request[r].phase = "calling"
    /\ probing' = probing \ {r}
    /\ Move(r, Idle)
    /\ NoRecord

BypassedCallEnds(r) ==
    /\ request[r].phase = "bypassing"
    /\ \E p \in {At("ok", request[r].obj), At("badForced", request[r].obj), Idle} : Move(r, p)
    /\ NoRecord
    /\ UNCHANGED probing

\* chat.ts records a served result on the breaker, after execute has done so; a
\* target of a combo reports once more.
ServeResult(r) ==
    /\ request[r].phase = "ok"
    /\ Record(r, OnSuccess(breaker[request[r].obj]))
    /\ Move(r, Idle) \/ Move(r, At("comboOk", request[r].obj))

Failed(r) == request[r].phase \in {"bad", "badForced"}

\* chat.ts trips the breaker for a final 5xx result, or when no account is left.
\* It does so neither for a target of a combo, which reports by
\* RecordProviderFailure, nor for a live test of one, which ends by ReturnResult;
\* a request does not say which of them it is.
TripForResult(r) ==
    /\ Failed(r)
    /\ Record(r, OnFailure(breaker[request[r].obj], NullKind))
    /\ Move(r, Idle)

\* The next account, or the same one again: the request keeps its breaker, and
\* a forced connection goes on without it.
TryNextAccount(r) ==
    /\ \/ request[r].phase = "bad" /\ Move(r, At("ready", request[r].obj))
       \/ request[r].phase = "badForced" /\ Move(r, At("bypassing", request[r].obj))
    /\ NoRecord
    /\ UNCHANGED probing

\* A failed result that does not concern the provider.
ReturnResult(r) ==
    /\ Failed(r)
    /\ Move(r, Idle)
    /\ NoRecord
    /\ UNCHANGED probing

-----------------------------------------------------------------------------
(* accountFallback.ts, on behalf of combo.ts.                              *)

\* recordProviderSuccess: nothing while the breaker is OPEN.
RecordProviderSuccess(r, o) ==
    LET b == Refreshed(LookedUp)
        done == IF b.state = "OPEN" THEN b ELSE OnSuccess(b)
    IN  /\ request[r].phase = "comboOk"
        /\ Entry(o)
        /\ registered' = o
        /\ Touch(o, done, b.state # "OPEN")
        /\ IF b.state = "OPEN" THEN UNCHANGED quietUntil ELSE Quiet(o, done)
        /\ probing' = ProbingAfter(o, LookedUp)
        /\ Move(r, Idle)
        /\ UNCHANGED now

\* recordProviderFailure: nothing unless the breaker lets requests through.
RecordProviderFailure(r, o, opt) ==
    LET b == Refreshed(Configured(opt))
        done == IF CanExecute(b) THEN Refreshed(OnFailure(b, NullKind)) ELSE b
    IN  /\ Failed(r)
        /\ Entry(o)
        /\ done.failureCount <= MaxFailures
        /\ registered' = o
        /\ Touch(o, done, TRUE)
        /\ IF CanExecute(b) THEN Quiet(o, done) ELSE UNCHANGED quietUntil
        /\ probing' = IF CanExecute(b) /\ CooldownOver(OnFailure(b, NullKind))
                      THEN {x \in probing : request[x].obj # o}
                      ELSE ProbingAfter(o, Configured(opt))
        /\ Move(r, Idle)
        /\ UNCHANGED now

\* isProviderInCooldown, getProviderBreakerState, getAllCircuitBreakerStatuses:
\* queries that create and refresh the breaker.
Query(o) ==
    /\ Entry(o)
    /\ registered' = o
    /\ Touch(o, Refreshed(LookedUp), CooldownOver(LookedUp))
    /\ probing' = ProbingAfter(o, LookedUp)
    /\ UNCHANGED <<request, now, quietUntil>>

\* clearProviderFailure
ClearProviderFailure(o) ==
    /\ Entry(o)
    /\ registered' = o
    /\ Touch(o, ResetBreaker(LookedUp), TRUE)
    /\ quietUntil' = 0
    /\ UNCHANGED <<request, now, probing>>

\* resetAllCircuitBreakers
ResetAll ==
    /\ breaker' = IF registered = NoObj THEN breaker
                  ELSE [breaker EXCEPT ![registered] = ResetBreaker(@)]
    /\ registered' = NoObj
    /\ db' = NoRow
    /\ rowOwner' = NoObj
    /\ quietUntil' = 0
    /\ UNCHANGED <<request, now, probing>>

\* A breaker that the registry may drop: CLOSED, without failures.
Cold(b) == b.state = "CLOSED" /\ b.failureCount = 0

\* One pass of the sweep (dropIf: old enough) or of evictColdBreakersIfNeeded.
Collect(mayDrop) ==
    LET b == Refreshed(breaker[registered])
    IN  /\ registered # NoObj
        /\ IF Cold(b) /\ mayDrop
           THEN /\ registered' = NoObj
                /\ db' = NoRow
                /\ rowOwner' = NoObj
                /\ UNCHANGED breaker
           ELSE /\ Touch(registered, b, CooldownOver(breaker[registered]))
                /\ UNCHANGED registered
        /\ probing' = ProbingAfter(registered, breaker[registered])
        /\ UNCHANGED <<request, now, quietUntil>>

Sweep ==
    LET t == breaker[registered].lastFailureTime
    IN  registered # NoObj /\ Collect(t = 0 \/ now - t > SweepAge)

\* The registry is full of other providers' breakers, and this one is the oldest
\* candidate, or is not.
Evict == \E oldest \in BOOLEAN : Collect(oldest)

\* The process dies and starts again: only the row is left.
Restart ==
    /\ breaker' = [o \in Obj |-> Blank]
    /\ registered' = NoObj
    /\ request' = [r \in Req |-> Idle]
    /\ probing' = {}
    /\ UNCHANGED <<db, now, rowOwner, quietUntil>>

Tick ==
    /\ now < MaxTime
    /\ now' = now + 1
    /\ UNCHANGED <<breaker, registered, db, request, rowOwner, probing, quietUntil>>

Next ==
    \/ \E r \in Req, o \in Obj, opt \in Options : CheckGate(r, o, opt)
    \/ \E r \in Req, o \in Obj, opt \in Options : CheckGateForced(r, o, opt)
    \/ \E r \in Req : ExecuteAdmitted(r)
    \/ \E r \in Req : ExecuteRefused(r)
    \/ \E r \in Req, result \in {"ok", "bad"} : CallResolves(r, result)
    \/ \E r \in Req, kind \in Kinds \cup {NullKind} : CallThrows(r, kind)
    \/ \E r \in Req : CallThrowsIgnored(r)
    \/ \E r \in Req : BypassedCallEnds(r)
    \/ \E r \in Req : ServeResult(r)
    \/ \E r \in Req : TripForResult(r)
    \/ \E r \in Req : TryNextAccount(r)
    \/ \E r \in Req : ReturnResult(r)
    \/ \E r \in Req, o \in Obj : RecordProviderSuccess(r, o)
    \/ \E r \in Req, o \in Obj, opt \in Options : RecordProviderFailure(r, o, opt)
    \/ \E o \in Obj : Query(o)
    \/ \E o \in Obj : ClearProviderFailure(o)
    \/ ResetAll
    \/ Sweep
    \/ Evict
    \/ Restart
    \/ Tick

Spec == Init /\ [][Next]_vars

-----------------------------------------------------------------------------
(* Properties.                                                             *)

TypeOK ==
    /\ breaker \in [Obj -> Breaker]
    /\ registered \in Obj \cup {NoObj}
    /\ db \in Rows
    /\ request \in [Req -> [phase : Phases, obj : Obj \cup {NoObj}]]
    /\ now \in Nat
    /\ rowOwner \in Obj \cup {NoObj}
    /\ probing \subseteq Req
    /\ quietUntil \in Nat

\* What a breaker, or the row it left, must satisfy.  It blocks only after as
\* many failures as some CONFIGURED threshold asks for, none of which a success
\* has made up for, and then it knows when the last one was (without that time it
\* would let traffic through at once).  The constructor's default threshold never
\* decides, though a query may create the breaker with it.
Earned(x) ==
    x.state \in {"OPEN", "HALF_OPEN"} =>
        /\ x.lastFailureTime # 0
        /\ \E opt \in Options : opt.failureThreshold <= x.failureCount

\* It does not go on passing traffic with as many failures as every configured
\* threshold.
NotOverdue(x) ==
    x.state \in {"CLOSED", "DEGRADED"} =>
        \E opt \in Options : x.failureCount < opt.failureThreshold

\* A block is earned and is not overdue, in every breaker object, also in one
\* that the registry has dropped, and in the row, which one of them wrote and a
\* restart or a lookup with other options restores.
StateMatchesFailures ==
    /\ \A o \in Obj : Earned(breaker[o]) /\ NotOverdue(breaker[o])
    /\ Earned(db) /\ NotOverdue(db)

\* The escalation of one outage never reaches the next: a breaker that passes
\* traffic has no open cycles left, so "a CLOSED breaker with zero failures is
\* behaviorally identical to a freshly-created one" (circuitBreaker.ts:544) as
\* far as the backoff goes.
BackoffForgotten ==
    /\ \A o \in Obj : breaker[o].state \in {"CLOSED", "DEGRADED"} => breaker[o].openCycleCount = 0
    /\ db.state \in {"CLOSED", "DEGRADED"} => db.openCycleCount = 0

\* The row is a write-through copy of the registered breaker, unless an object
\* that the registry dropped while a request held it has written the row since.
WriteThrough ==
    registered # NoObj /\ rowOwner = registered => db = Row(breaker[registered])

\* A HALF_OPEN period never has more probes in flight, together with those it
\* still offers, than halfOpenRequests, though the gate and execute are apart and
\* outcomes of earlier periods arrive late.
ProbesBounded ==
    \A o \in Obj : breaker[o].state = "HALF_OPEN" =>
        Cardinality({r \in probing : request[r].obj = o}) + breaker[o].halfOpenAllowed
            <= HalfOpenRequests

\* After a failure that leaves the breaker OPEN no request is let through before
\* the shortest configured cooldown is over: not by a refresh in some query, not
\* because the registry dropped the breaker, and not after a restart.  It ends
\* early only by a recorded success, a reset, or when a dropped object's outcome
\* has overwritten the row.
OpenPeriodHonoured ==
    [][\A r \in Req :
          /\ request[r].phase = "ready" /\ request'[r].phase = "calling"
          /\ request[r].obj = registered
          => now >= quietUntil]_vars

\* "HALF_OPEN - reset timeout elapsed; probe request allowed"
\* (docs/architecture/RESILIENCE_GUIDE.md:35): a HALF_OPEN breaker offers a probe
\* or waits for the outcome of one.
ProbeOfferedOrAwaited ==
    \A o \in Obj : breaker[o].state = "HALF_OPEN" =>
        \/ breaker[o].halfOpenAllowed > 0
        \/ \E r \in probing : request[r].obj = o
=============================================================================
