------------------------------ MODULE Admission ------------------------------
(***************************************************************************)
(* The adaptive admission controller of open-sse/services/admission         *)
(* (controller.ts, adaptation.ts) over the fair queue of queue.ts.  Every   *)
(* method runs without yielding, so each is one action; the interleavings   *)
(* are those of requests, releases, deadlines, aborts, pressure reports,    *)
(* window ticks and configuration changes.                                  *)
(*                                                                          *)
(* Left out: the shadow mode's virtual queue, which only feeds counters,    *)
(* and the statistics.  Latency averages and utilisation are abstracted to  *)
(* what closeAdaptationWindow asks of them.                                 *)
(***************************************************************************)
EXTENDS FairCostQueue

CONSTANTS Configs,       \* the configurations updateConfig may be given
          FirstConfig,   \* the one the controller is built with
          DefaultTenant, \* "_default": requests without a tenant key
          StepUp,        \* the smaller of increaseStep and maxIncreasePerWindow
          MaxLate        \* bound: requests past their deadline at one dispatch

ASSUME AdmissionAssumption ==
  /\ FirstConfig \in Configs
  /\ \A c \in Configs : /\ c.mode \in {"off", "shadow", "enforce"}
                        /\ c.lanes \in BOOLEAN
                        /\ c.minLimit \in Nat \ {0} /\ c.maxLimit \in Nat
                        /\ c.minLimit <= c.maxLimit /\ c.initialLimit \in Nat
  /\ StepUp \in Nat \ {0} /\ MaxLate \in Nat

VARIABLES config,      \* this.config
          adapt,       \* this.adaptation
          queue,       \* this.queue
          lanes,       \* this.virtualLanes: lane order and the FIFO of each lane
          status,      \* each request: out, queued, active
          older,       \* pairs of waiting requests, the one with the lower enqueuedAtMs first
          activeCost,  \* this.activeCost
          shutDown

vars == <<config, adapt, queue, lanes, status, older, activeCost, shutDown>>

(* What the dispatching methods read and change, as one value; an entry     *)
(* that is settled is gone with its time of arrival.                        *)
Work == [queue |-> queue, lanes |-> lanes, status |-> status, older |-> older,
         activeCost |-> activeCost]
InQueue(w) == {r \in Requests : w.status[r] = "queued"}
Becomes(w) == /\ queue' = w.queue /\ lanes' = w.lanes
              /\ status' = w.status /\ activeCost' = w.activeCost
              /\ older' = w.older \cap (InQueue(w) \X InQueue(w))

NoLanes == [order |-> <<>>, fifo |-> [t \in Tenants |-> <<>>]]
Severity == [normal |-> 0, high |-> 1, critical |-> 2]
Pressures == DOMAIN Severity

ClampLimit(v, c) == IF v > c.maxLimit THEN c.maxLimit
                    ELSE IF v < c.minLimit THEN c.minLimit ELSE v
RecoveryCeiling(c) == ClampLimit(c.initialLimit, c)

NewWindow(limit) == [limit |-> limit, pressure |-> "normal", freezeGrowth |-> FALSE,
                     completed |-> FALSE, criticalConsumed |-> FALSE]

Init ==
  /\ config = FirstConfig
  /\ adapt = NewWindow(RecoveryCeiling(FirstConfig))
  /\ queue = EmptyQueue
  /\ lanes = NoLanes
  /\ status = [r \in Requests |-> "out"]
  /\ older = {}
  /\ activeCost = 0
  /\ shutDown = FALSE

LaneQueued(w) == UNION {Range(w.lanes.fifo[t]) : t \in Tenants}
Queued(w) == Waiting(w.queue) \cup LaneQueued(w)

(* setPressure: within a window pressure only rises.                        *)
SetPressure(a, p) == IF Severity[p] > Severity[a.pressure] THEN [a EXCEPT !.pressure = p] ELSE a

Admit(w, r) == [w EXCEPT !.status[r] = "active", !.activeCost = @ + CostOf[r]]
Fail(w, r)  == [w EXCEPT !.status[r] = "out"]

(* A dequeued request whose deadline passed before its timer fired is       *)
(* rejected, any other is admitted.                                         *)
Serve(w, r, late) == IF r \in late THEN Fail(w, r) ELSE Admit(w, r)

(* dispatch, one turn of its loop on the shared queue; a turn that finds    *)
(* nothing changes nothing.                                                 *)
DispatchTurn(w, limit, late) ==
  LET room   == limit - w.activeCost
      choice == IF room <= 0 THEN {} ELSE Choice(w.queue, room, w.older)
  IN  IF choice = {} THEN w
      ELSE LET i == CHOOSE j \in choice : TRUE
           IN  Serve([w EXCEPT !.queue = Dequeue(@, i)], HeadAt(w.queue, i), late)

DispatchShared(w, limit, late) ==
  LET turn[n \in 0 .. Cardinality(Waiting(w.queue))] ==
        IF n = 0 THEN w ELSE DispatchTurn(turn[n - 1], limit, late)
  IN  turn[Cardinality(Waiting(w.queue))]

(* Lane t keeps the entries in fifo; removeEmptyLane drops an empty lane.   *)
LaneKeeps(l, t, fifo) ==
  [order |-> IF fifo = <<>> THEN Without(l.order, {t}) ELSE l.order,
   fifo  |-> [l.fifo EXCEPT ![t] = fifo]]

(* dispatchLanes, its loop for one lane: late heads are dropped, then one   *)
(* request is admitted and the next lane has its turn.                      *)
DispatchLane(w, t, limit, late) ==
  LET room  == limit - w.activeCost
      fifo  == w.lanes.fifo[t]
      stays == {k \in 1 .. Len(fifo) : fifo[k] \notin late \/ CostOf[fifo[k]] > room}
      n     == IF stays = {} THEN Len(fifo) ELSE Min(stays) - 1
      rest  == SubSeq(fifo, n + 1, Len(fifo))
      gone  == {fifo[k] : k \in 1 .. n}
      kept  == [w EXCEPT !.status = [r \in Requests |-> IF r \in gone THEN "out" ELSE @[r]]]
  IN  IF room <= 0 THEN w
      ELSE IF rest # <<>> /\ CostOf[Head(rest)] <= room
      THEN Admit([kept EXCEPT !.lanes = LaneKeeps(@, t, Tail(rest))], Head(rest))
      ELSE [kept EXCEPT !.lanes = LaneKeeps(@, t, rest)]

DispatchLanes(w, limit, late) ==
  LET turn[n \in 0 .. Len(w.lanes.order)] ==
        IF n = 0 THEN w ELSE DispatchLane(turn[n - 1], w.lanes.order[n], limit, late)
  IN  turn[Len(w.lanes.order)]

(* dispatch: the shared queue first; while anything waits there, no lane.   *)
Dispatch(w, limit, late) ==
  LET v == DispatchShared(w, limit, late)
  IN  IF v.queue.order # <<>> THEN v ELSE DispatchLanes(v, limit, late)

(* Which waiting requests are past their deadline when a step dispatches.   *)
Lates == {late \in SUBSET Queued(Work) : Cardinality(late) <= MaxLate}

Dispatches == config.mode = "enforce" /\ ~shutDown
Dispatched(w, limit, late) == IF Dispatches THEN Dispatch(w, limit, late) ELSE w
-----------------------------------------------------------------------------
(* acquire, up to the decision: refused requests leave no trace.            *)
ShouldAdmitSolo(r, a) ==
  /\ CostOf[r] <= config.maxLimit
  /\ \A s \in Requests : status[s] # "active"
  /\ Queued(Work) = {}
  /\ a.pressure = "normal"

Acquires(r) == ~shutDown /\ status[r] = "out"
Fits(r) == activeCost + CostOf[r] <= adapt.limit

AdmitsAtOnce(r, a) ==
  \/ config.mode = "shadow"
  \/ /\ config.mode = "enforce"
     /\ IF CostOf[r] > adapt.limit THEN ShouldAdmitSolo(r, a)
        ELSE queue.order = <<>> /\ Fits(r)

(* Which FIFO an enforced request waits in.                                 *)
UsesLane(r) == TenantOf[r] # DefaultTenant /\ config.lanes

Queues(r, a) ==
  /\ config.mode = "enforce" /\ CostOf[r] <= adapt.limit /\ ~AdmitsAtOnce(r, a)
  /\ CanAccept(queue, r, config.maxCount, config.maxCost)
  /\ UsesLane(r) =>
       LET fifo == lanes.fifo[TenantOf[r]]
       IN  Len(fifo) < config.maxCount /\ Cost(Range(fifo)) + CostOf[r] <= config.maxCost

Enqueued(w, r) ==
  LET t == TenantOf[r]
      v == [w EXCEPT !.status[r] = "queued", !.older = @ \cup (Queued(w) \X {r})]
  IN  IF UsesLane(r)
      THEN [v EXCEPT !.lanes.order = IF t \in Range(@) THEN @ ELSE Append(@, t),
                     !.lanes.fifo[t] = Append(@, r)]
      ELSE [v EXCEPT !.queue = Enqueue(@, r)]

AcquireAtOnce(r, p) ==
  /\ Acquires(r) /\ adapt' = SetPressure(adapt, p)
  /\ AdmitsAtOnce(r, adapt')
  /\ Becomes(Admit(Work, r))
  /\ UNCHANGED <<config, shutDown>>

(* enqueue dispatches before and after it arms the deadline.                *)
AcquireQueued(r, p) ==
  /\ Acquires(r) /\ adapt' = SetPressure(adapt, p)
  /\ Queues(r, adapt')
  /\ \E late \in Lates :
       Becomes(Dispatch(Dispatch(Enqueued(Work, r), adapt.limit, late), adapt.limit, late))
  /\ UNCHANGED <<config, shutDown>>

(* A rejected request, or one let through unaccounted in mode off, may      *)
(* still have reported pressure.                                            *)
AcquireRefused(r, p) ==
  /\ Acquires(r) /\ adapt' = SetPressure(adapt, p)
  /\ ~AdmitsAtOnce(r, adapt') /\ ~Queues(r, adapt')
  /\ UNCHANGED <<config, queue, lanes, status, older, activeCost, shutDown>>

(* releaseLease, with its outcome and the pressure it reports.              *)
ReleaseLease(r, failed, p) ==
  /\ status[r] = "active"
  /\ adapt' = [SetPressure(adapt, p) EXCEPT !.completed = TRUE,
                                            !.freezeGrowth = @ \/ failed]
  /\ \E late \in Lates :
       Becomes(Dispatched([Work EXCEPT !.status[r] = "out", !.activeCost = @ - CostOf[r]],
                          adapt.limit, late))
  /\ UNCHANGED <<config, shutDown>>

Bug_ExpiredWithoutDispatch(w, late) == w
ExpiredThenDispatch(w, late) == Dispatched(w, adapt.limit, late)

(* expireEntry: the deadline of a waiting request or its client's abort.    *)
ExpireEntry(r) ==
  LET t == TenantOf[r]
      shared == [Work EXCEPT !.queue = RemoveById(@, r), !.status[r] = "out"]
      laned  == [Work EXCEPT !.lanes = LaneKeeps(@, t, Without(@.fifo[t], {r})),
                             !.status[r] = "out"]
  IN  /\ status[r] = "queued"
      /\ \E late \in Lates :
           Becomes(ExpiredThenDispatch(IF r \in Waiting(queue) THEN shared ELSE laned, late))
      /\ UNCHANGED <<config, adapt, shutDown>>

(* observePressure: the first critical report of a window halves the limit. *)
ObservePressure(p) ==
  /\ IF p = "critical" /\ ~adapt.criticalConsumed
     THEN LET half == adapt.limit \div 2
              limit == IF half < config.minLimit THEN config.minLimit ELSE half
          IN  /\ adapt' = [SetPressure(adapt, p) EXCEPT !.limit = limit,
                                                        !.criticalConsumed = TRUE]
              /\ \E late \in Lates : Becomes(Dispatched(Work, limit, late))
     ELSE /\ adapt' = SetPressure(adapt, p)
          /\ UNCHANGED <<queue, lanes, status, older, activeCost>>
  /\ UNCHANGED <<config, shutDown>>

(* evictIdleLanes: lanes not used for ADMISSION_LANE_TTL_MS are dropped and *)
(* what waits in them is rejected.                                          *)
WithoutLanes(w, idle) ==
  LET gone == UNION {Range(w.lanes.fifo[t]) : t \in idle}
  IN  [w EXCEPT !.status = [r \in Requests |-> IF r \in gone THEN "out" ELSE @[r]],
                !.lanes.order = Without(@, idle),
                !.lanes.fifo = [t \in Tenants |-> IF t \in idle THEN <<>> ELSE @[t]]]

EvictIdleLanes ==
  /\ ~shutDown
  /\ \E idle \in SUBSET Range(lanes.order) : idle # {} /\ Becomes(WithoutLanes(Work, idle))
  /\ UNCHANGED <<config, adapt, shutDown>>

(* closeAdaptationWindow: the limit of the next window.                     *)
NextLimit(utilization, gradient) ==
  LET a == adapt
      adjusted == CASE a.pressure = "critical" ->
                         IF a.criticalConsumed THEN a.limit ELSE a.limit \div 2
                    [] a.pressure = "high" \/ (a.pressure # "critical" /\ a.completed /\ gradient) ->
                         (a.limit * 8) \div 10
                    [] OTHER ->
                         IF ~a.freezeGrowth /\ utilization = "high" /\ a.completed
                         THEN a.limit + StepUp ELSE a.limit
      ceiling == RecoveryCeiling(config)
      recovers == /\ utilization = "low" /\ a.pressure # "critical" /\ ~a.freezeGrowth
                  /\ ~a.completed /\ a.limit < ceiling
  IN  ClampLimit(IF ~recovers THEN adjusted
                 ELSE IF adjusted + StepUp < ceiling THEN adjusted + StepUp ELSE ceiling,
                 config)

(* A window in which nothing ran has no utilisation.                        *)
Levels == {"low", "middle", "high"}
Utilizations == IF activeCost = 0 /\ ~adapt.completed THEN {"low"} ELSE Levels

Tick(utilization, gradient) ==
  /\ ~shutDown /\ config.mode # "off"
  /\ utilization \in Utilizations
  /\ LET limit == NextLimit(utilization, gradient)
     IN  /\ adapt' = NewWindow(limit)
         /\ \E idle \in SUBSET Range(lanes.order), late \in Lates :
              Becomes(Dispatched(WithoutLanes(Work, idle), limit, late))
  /\ UNCHANGED <<config, shutDown>>

(* updateConfig: everything queued is drained, the shared queue first, and, *)
(* under the new configuration, admitted, failed or queued again in the     *)
(* shared queue.                                                            *)
AllDrained ==
  LET upTo[n \in 0 .. Len(lanes.order)] ==
        IF n = 0 THEN Drained(queue, older) ELSE upTo[n - 1] \o lanes.fifo[lanes.order[n]]
  IN  upTo[Len(lanes.order)]

Requeued(w, r, c, limit) ==
  IF c.mode # "enforce" THEN Admit(w, r)
  ELSE IF CostOf[r] > limit \/ ~CanAccept(w.queue, r, c.maxCount, c.maxCost) THEN Fail(w, r)
  ELSE [w EXCEPT !.queue = Enqueue(@, r)]

Moved(drained, c, limit) ==
  LET after[n \in 0 .. Len(drained)] ==
        IF n = 0 THEN [Work EXCEPT !.queue = EmptyQueue, !.lanes = NoLanes]
        ELSE Requeued(after[n - 1], drained[n], c, limit)
  IN  after[Len(drained)]

UpdateConfig(c) ==
  LET limit == ClampLimit(adapt.limit, c)
      moved == Moved(AllDrained, c, limit)
  IN  /\ config' = c
      /\ adapt' = NewWindow(limit)
      /\ IF c.mode = "enforce" /\ ~shutDown
         THEN \E late \in Lates : Becomes(Dispatch(moved, limit, late))
         ELSE Becomes(moved)
      /\ UNCHANGED shutDown

Shutdown ==
  /\ ~shutDown /\ shutDown' = TRUE
  /\ Becomes([Work EXCEPT !.queue = EmptyQueue, !.lanes = NoLanes,
               !.status = [r \in Requests |-> IF @[r] = "queued" THEN "out" ELSE @[r]]])
  /\ UNCHANGED <<config, adapt>>

Next ==
  \/ \E r \in Requests, p \in Pressures :
       \/ AcquireAtOnce(r, p) \/ AcquireQueued(r, p) \/ AcquireRefused(r, p)
       \/ \E failed \in BOOLEAN : ReleaseLease(r, failed, p)
  \/ \E r \in Requests : ExpireEntry(r)
  \/ \E p \in Pressures : ObservePressure(p)
  \/ \E u \in Levels, gradient \in BOOLEAN : Tick(u, gradient)
  \/ EvictIdleLanes
  \/ \E c \in Configs : UpdateConfig(c)
  \/ Shutdown

Spec == Init /\ [][Next]_vars
-----------------------------------------------------------------------------
(* Every variable has its type, the queue's books are in order, a request   *)
(* waits in one place or holds a lease, and activeCost is the cost of the   *)
(* leases held.                                                             *)
TypeOK ==
  /\ config \in Configs
  /\ adapt \in [limit : config.minLimit .. config.maxLimit, pressure : Pressures,
                freezeGrowth : BOOLEAN, completed : BOOLEAN, criticalConsumed : BOOLEAN]
  /\ QueueOK(queue)
  /\ status \in [Requests -> {"out", "queued", "active"}]
  /\ \A t \in Tenants : (lanes.fifo[t] # <<>>) = (t \in Range(lanes.order))
  /\ Waiting(queue) \cap LaneQueued(Work) = {}
  /\ Queued(Work) = InQueue(Work)
  /\ older \subseteq Queued(Work) \X Queued(Work)
  /\ \A r, s \in Queued(Work) : r # s => (<<r, s>> \in older) # (<<s, r>> \in older)
  /\ activeCost = Cost({r \in Requests : status[r] = "active"})
  /\ shutDown \in BOOLEAN

(* No request waits at the head of the shared queue for an event that has   *)
(* nothing to do with it: between two steps, what dispatch would take next  *)
(* does not fit.  Every release, expiry, abort, limit change and new        *)
(* configuration has to have dispatched ("so a now-fitting successor is not *)
(* stranded until unrelated activity", expireEntry).                        *)
NoFittingHeadWaits ==
  Dispatches /\ queue.order # <<>> =>
    adapt.limit <= activeCost \/ Choice(queue, adapt.limit - activeCost, older) = {}

(* In mode enforce a step that admits leaves the active cost within the     *)
(* limit, unless one request was let in alone, as shouldAdmitSolo promises: *)
(* within maxLimit, into a system where nothing runs and nothing waits, and *)
(* without pressure.  And nobody overtakes a head that has reserved the     *)
(* capacity: no younger request is admitted while an aged one waits,        *)
(* directly or from any queue.  A configuration update starts the counts of *)
(* pass-overs anew and has a property of its own.                           *)
Admitted == {r \in Requests : status[r] # "active" /\ status'[r] = "active"}
StillAged == {HeadAt(queue, i) : i \in Aged(queue)} \cap {HeadAt(queue', i) : i \in Aged(queue')}
Older(r, h) == r \in Waiting(queue) /\ <<r, h>> \in older
InAlone ==
  \E r \in Requests :
     /\ Admitted = {r} /\ CostOf[r] <= config.maxLimit
     /\ \A s \in Requests : status[s] = "out"
     /\ adapt'.pressure = "normal"

AdmissionsRespectBudget ==
  [][Admitted # {} /\ config'.mode = "enforce" =>
       /\ activeCost' <= adapt'.limit \/ InAlone
       /\ \/ \A h \in StillAged, r \in Admitted : Older(r, h)
          \/ \E c \in Configs : UpdateConfig(c)]_vars

(* Room is offered to the head that reserved it before anybody else: if it  *)
(* waits on after a step in mode enforce, it is larger than what was free   *)
(* under the step's limit.  So also for an update of the configuration that *)
(* raises the limit: of all it drains and queues again, that head is first. *)
ReservedHead == HeadAt(queue, Reserved(queue, older))

ReservedHeadIsServedFirst ==
  [][/\ config'.mode = "enforce" /\ ~shutDown' /\ Aged(queue) # {}
     /\ ReservedHead \in Waiting(queue')
     => CostOf[ReservedHead] > adapt'.limit - activeCost]_vars
=============================================================================
