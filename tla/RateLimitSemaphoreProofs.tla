---------------------- MODULE RateLimitSemaphoreProofs ----------------------
(***************************************************************************)
(* Proofs about RateLimitSemaphore, for every set of requests, caps, queue *)
(* sizes, cooldowns and bounds.                                            *)
(*                                                                         *)
(* That somebody wakes every waiter is not inductive as it stands: a       *)
(* waiter may be let in by a release now and stand alone later.  What      *)
(* makes it so is a fact about the limit and the timers alone (a limit of  *)
(* the gate in the map has a timer on this object that is not due before   *)
(* the limit is over), and one about the gate (a queue that nobody's       *)
(* release will drain is held up by a limit).                              *)
(***************************************************************************)
EXTENDS RateLimitSemaphore, QueueFacts

GateOK(g) ==
    /\ g \in Gate
    /\ g.max \in Caps
    /\ Distinct(g.queue)
    /\ ~Present(g) => g.queue = << >> /\ g.running = 0

\* A gate g with waiters w and holders h.
Consistent(g, w, h) ==
    /\ GateOK(g)
    /\ h \subseteq Req
    /\ w = Entries(g.queue)
    /\ w \cap h = {}
    /\ g.running = Cardinality(h)

\* A limit of gate g, in lim, has its timer among ts.
LimitHasTimer(g, lim, ts) ==
    Present(g) /\ lim[g.object] # 0 =>
       \E t \in ts : t.object = g.object /\ t.due >= lim[g.object]

\* Waiters of gate g that no release will wake are held up by a limit.
LimitHoldsUp(g, lim) ==
    g.queue # << >> /\ g.running = 0 => lim[g.object] # 0

IInv ==
    /\ TypeOK
    /\ Consistent(gate, awaiting, holding)
    /\ LimitHasTimer(gate, limit, timers)
    /\ LimitHoldsUp(gate, limit)

-----------------------------------------------------------------------------
(* Gates and drains.                                                       *)

\* The parts of a well-formed gate.
LEMMA GateFacts ==
  ASSUME NEW g, GateOK(g)
  PROVE  /\ g.queue \in Seq(Req) /\ Len(g.queue) \in Nat /\ Distinct(g.queue)
         /\ g.running \in Nat /\ g.max \in Caps /\ g.max \in Nat \ {0}
         /\ g.object \in Objects /\ g.entry \in {"present", "absent"}
         /\ Entries(g.queue) = Elements(g.queue) /\ Entries(g.queue) \subseteq Req
         /\ Cardinality(Entries(g.queue)) = Len(g.queue)
         /\ g.queue = << >> <=> Len(g.queue) = 0
<1>1. /\ g.queue \in Seq(Req) /\ Distinct(g.queue) /\ g.running \in Nat
      /\ g.max \in Caps /\ g.max \in Nat \ {0} /\ g.object \in Objects
      /\ g.entry \in {"present", "absent"}
  BY ConstantsAssumption DEF GateOK, Gate
<1>2. Entries(g.queue) = Elements(g.queue)
  BY DEF Entries, Elements
<1>. QED
  BY <1>1, <1>2, ElementsFacts

\* How many waiters a drain admits: nobody while the gate is limited, and
\* somebody otherwise when there are a waiter and room.
LEMMA AdmittableBounds ==
  ASSUME NEW g, GateOK(g), NEW lim
  PROVE  /\ Admittable(g, lim) \in 0..Len(g.queue)
         /\ Admittable(g, lim) > 0 => ~IsRateLimited(lim, g)
         /\ Admittable(g, lim) > 0 => g.running + Admittable(g, lim) <= g.max
         /\ Admittable(g, lim) = 0 /\ g.queue # << >> /\ g.running = 0 => IsRateLimited(lim, g)
<1>1. /\ g.running \in Nat /\ g.max \in Nat \ {0} /\ Len(g.queue) \in Nat
      /\ g.queue = << >> <=> Len(g.queue) = 0
  BY GateFacts
<1>. QED
  BY <1>1 DEF Admittable

\* The requests a drain admits are as many as it adds to running.
LEMMA AdmittedRequests ==
  ASSUME NEW g, GateOK(g), NEW lim
  PROVE  /\ Admitted(g, lim) \subseteq Entries(g.queue)
         /\ IsFiniteSet(Admitted(g, lim))
         /\ Cardinality(Admitted(g, lim)) = Admittable(g, lim)
         /\ Admitted(g, lim) # {} => Admittable(g, lim) > 0
<1> DEFINE k == Admittable(g, lim)
           q == g.queue
<1>1. q \in Seq(Req) /\ Distinct(q) /\ Len(q) \in Nat /\ Entries(q) = Elements(q)
  BY GateFacts
<1>2. k \in 0..Len(q)
  BY AdmittableBounds
<1>3. Admitted(g, lim) = {q[i] : i \in 1..k}
  BY DEF Admitted
<1> HIDE DEF k, q
<1>4. /\ {q[i] : i \in 1..k} \subseteq Elements(q) /\ IsFiniteSet({q[i] : i \in 1..k})
      /\ Cardinality({q[i] : i \in 1..k}) = k
  BY <1>1, <1>2, PrefixFacts
<1>5. {q[i] : i \in 1..k} # {} => k > 0
  BY <1>1, <1>2
<1>. QED
  BY <1>1, <1>3, <1>4, <1>5 DEF k, q

\* The stand-in for a model without a gate.
LEMMA NoGateOK ==
  /\ GateOK(NoGate) /\ ~Present(NoGate) /\ NoGate.queue = << >> /\ NoGate.running = 0
<1>1. /\ NoGate.queue = << >> /\ NoGate.running = 0 /\ NoGate.max = DefaultMax
      /\ ~Present(NoGate)
  BY DEF NoGate, Present
<1>2. DefaultMax \in Caps /\ DefaultMax \in Nat /\ 0 \in Objects
  BY ConstantsAssumption DEF Objects
<1>3. NoGate \in Gate
  BY <1>2, EmptyQueueFacts DEF NoGate, Gate
<1>4. Distinct(NoGate.queue)
  BY <1>1, EmptyQueueFacts
<1>. QED
  BY <1>1, <1>2, <1>3, <1>4 DEF GateOK

\* What is left of gate g, with some requests in the queue and some running.
LEMMA IdleGate ==
  ASSUME NEW g, GateOK(g)
  PROVE  /\ GateOK(DeleteIfIdle(g))
         /\ DeleteIfIdle(g).running = g.running /\ DeleteIfIdle(g).queue = g.queue
         /\ Present(DeleteIfIdle(g)) => DeleteIfIdle(g) = g
         /\ g.queue # << >> \/ g.running # 0 => DeleteIfIdle(g) = g
<1>1. CASE g.running = 0 /\ g.queue = << >>
  <2>1. DeleteIfIdle(g) = NoGate
    BY <1>1 DEF DeleteIfIdle
  <2>. QED
    BY <1>1, <2>1, NoGateOK
<1>2. CASE ~(g.running = 0 /\ g.queue = << >>)
  <2>1. DeleteIfIdle(g) = g
    BY <1>2 DEF DeleteIfIdle
  <2>. QED
    BY <2>1
<1>. QED
  BY <1>1, <1>2

\* What a drain leaves behind: the waiters it did not admit, a gate within its
\* cap if it did admit, and whoever is left alone held up by a limit.
LEMMA DrainEffect ==
  ASSUME NEW g, GateOK(g), Present(g), NEW lim \in [Objects -> Nat], now \in Nat
  PROVE  /\ GateOK(DrainQueue(g, lim))
         /\ DrainQueue(g, lim).running = g.running + Admittable(g, lim)
         /\ Entries(DrainQueue(g, lim).queue) = Entries(g.queue) \ Admitted(g, lim)
         /\ Present(DrainQueue(g, lim)) => DrainQueue(g, lim).object = g.object
         /\ Admittable(g, lim) > 0 => DrainQueue(g, lim).max = g.max
         /\ LimitsAfterDrain(g, lim) \in [Objects -> Nat]
         /\ LimitsAfterDrain(g, lim)[g.object] \in {0, lim[g.object]}
         /\ LimitHoldsUp(DrainQueue(g, lim), LimitsAfterDrain(g, lim))
<1> DEFINE k == Admittable(g, lim)
           q == SubSeq(g.queue, k + 1, Len(g.queue))
           d == [g EXCEPT !.running = @ + k, !.queue = SubSeq(@, k + 1, Len(@))]
           D == DrainQueue(g, lim)
           after == LimitsAfterDrain(g, lim)
<1>1. /\ g \in Gate /\ g.queue \in Seq(Req) /\ Len(g.queue) \in Nat /\ Distinct(g.queue)
      /\ g.running \in Nat /\ g.max \in Caps /\ g.max \in Nat \ {0} /\ g.object \in Objects
      /\ Entries(g.queue) = Elements(g.queue) /\ (g.queue = << >> <=> Len(g.queue) = 0)
  BY GateFacts DEF GateOK
<1>2. /\ k \in 0..Len(g.queue)
      /\ k = 0 /\ g.queue # << >> /\ g.running = 0 => IsRateLimited(lim, g)
  BY AdmittableBounds
<1>3. D = DeleteIfIdle(d)
  BY DEF DrainQueue
<1>4. Admitted(g, lim) = {g.queue[i] : i \in 1..k}
  BY DEF Admitted
<1> HIDE DEF k
<1>5. /\ q \in Seq(Req) /\ Len(q) = Len(g.queue) - k /\ Distinct(q)
      /\ Elements(q) = Elements(g.queue) \ Admitted(g, lim)
  <2> DEFINE p == g.queue
             d2 == SubSeq(p, k + 1, Len(p))
             A == {p[i] : i \in 1..k}
  <2>1. p \in Seq(Req) /\ Distinct(p) /\ k \in 0..Len(p)
    BY <1>1, <1>2
  <2> HIDE DEF p
  <2>2. /\ d2 \in Seq(Req) /\ Len(d2) = Len(p) - k /\ Distinct(d2)
        /\ Elements(d2) = Elements(p) \ A
    BY <2>1, DropFacts
  <2>. QED
    BY <1>4, <2>2 DEF p
<1>6. d = [g EXCEPT !.running = g.running + k, !.queue = q]
  OBVIOUS
<1> HIDE DEF q, d, D
<1>7. /\ d \in Gate /\ d.running = g.running + k /\ d.queue = q /\ d.max = g.max
      /\ d.object = g.object /\ d.entry = g.entry
  <2>1. g.running + k \in Nat
    BY <1>1, <1>2
  <2>. QED
    BY <1>1, <1>5, <1>6, <2>1 DEF Gate
<1>8. Present(d)
  BY <1>7 DEF Present
<1>9. GateOK(d)
  BY <1>1, <1>5, <1>7, <1>8 DEF GateOK
<1>10. /\ GateOK(D) /\ D.running = d.running /\ D.queue = d.queue
       /\ Present(D) => D = d
       /\ d.queue # << >> \/ d.running # 0 => D = d
  BY <1>3, <1>9, IdleGate
<1>11. Entries(D.queue) = Entries(g.queue) \ Admitted(g, lim)
  BY <1>1, <1>5, <1>7, <1>10 DEF Entries, Elements
<1>12. k > 0 => D.max = g.max
  <2>1. k > 0 => d.running # 0
    BY <1>1, <1>2, <1>7
  <2>. QED
    BY <1>7, <1>10, <2>1
<1>13. /\ after \in [Objects -> Nat] /\ after[g.object] \in {0, lim[g.object]}
       /\ now < lim[g.object] => after = lim
  BY <1>1 DEF LimitsAfterDrain
<1> HIDE DEF after
<1>14. LimitHoldsUp(D, after)
  <2> SUFFICES ASSUME D.queue # << >>, D.running = 0
               PROVE  after[D.object] # 0
    BY DEF LimitHoldsUp
  <2>1. D = d /\ q # << >>
    BY <1>7, <1>10
  <2>2. k = 0 /\ g.running = 0
    BY <1>1, <1>2, <1>7, <2>1
  <2>3. Len(q) = 0 => q = << >>
    BY <1>5, EmptySeq
  <2>4. g.queue # << >>
    BY <1>1, <1>5, <2>1, <2>2, <2>3
  <2>5. IsRateLimited(lim, g)
    BY <1>2, <2>2, <2>4
  <2>6. lim[g.object] # 0 /\ after = lim
    BY <1>13, <2>5 DEF IsRateLimited
  <2>. QED
    BY <1>7, <2>1, <2>6
<1>. QED
  BY <1>7, <1>10, <1>11, <1>12, <1>13, <1>14 DEF D, k, after

\* A drain moves requests from the queue to the holders and counts each once.
LEMMA DrainConsistent ==
  ASSUME NEW g, NEW w, NEW h, Consistent(g, w, h), Present(g),
         NEW lim \in [Objects -> Nat], now \in Nat
  PROVE  Consistent(DrainQueue(g, lim), w \ Admitted(g, lim), h \cup Admitted(g, lim))
<1> DEFINE d == DrainQueue(g, lim)
           A == Admitted(g, lim)
           k == Admittable(g, lim)
<1>1. /\ GateOK(g) /\ w = Entries(g.queue) /\ w \cap h = {} /\ h \subseteq Req
      /\ g.running = Cardinality(h) /\ g.running \in Nat
  BY GateFacts DEF Consistent
<1>2. GateOK(d) /\ d.running = g.running + k /\ Entries(d.queue) = Entries(g.queue) \ A
  BY <1>1, DrainEffect
<1>3. A \subseteq Entries(g.queue) /\ IsFiniteSet(A) /\ Cardinality(A) = k
  BY <1>1, AdmittedRequests
<1>4. Entries(g.queue) \subseteq Req
  BY <1>1, GateFacts
<1>5. IsFiniteSet(h)
  BY <1>1, FS_Subset, ConstantsAssumption
<1> HIDE DEF A, d, k
<1>6. h \cap A = {} /\ h \cup A \subseteq Req
  BY <1>1, <1>3, <1>4
<1>7. Cardinality(h \cup A) = Cardinality(h) + k
  <2>1. Cardinality(h \cup A) = Cardinality(h) + Cardinality(A) - Cardinality(h \cap A)
    BY <1>3, <1>5, FS_Union
  <2>2. Cardinality(h \cap A) = 0 /\ k \in Nat /\ Cardinality(h) \in Nat
    BY <1>3, <1>5, <1>6, FS_EmptySet, FS_CardinalityType
  <2>. QED
    BY <1>3, <2>1, <2>2
<1>8. (w \ A) \cap (h \cup A) = {} /\ w \ A = Entries(d.queue)
  BY <1>1, <1>2
<1>. QED
  BY <1>1, <1>2, <1>6, <1>7, <1>8 DEF Consistent, d, A

-----------------------------------------------------------------------------
(* One lemma for each kind of step.                                        *)

\* The facts of the invariant that most steps use.
LEMMA Facts ==
  ASSUME IInv
  PROVE  /\ GateOK(gate) /\ gate \in Gate /\ gate.running \in Nat
         /\ gate.queue \in Seq(Req) /\ Distinct(gate.queue) /\ Len(gate.queue) \in Nat
         /\ gate.max \in Caps /\ gate.object \in Objects
         /\ limit \in [Objects -> Nat] /\ now \in Nat /\ timers \subseteq Timer /\ cooldown \in Nat
         /\ awaiting = Entries(gate.queue) /\ awaiting \cap holding = {}
         /\ holding \subseteq Req /\ gate.running = Cardinality(holding)
         /\ IsFiniteSet(holding) /\ Consistent(gate, awaiting, holding)
<1>1. Consistent(gate, awaiting, holding) /\ GateOK(gate)
  BY DEF IInv, Consistent
<1>2. /\ limit \in [Objects -> Nat] /\ now \in Nat /\ timers \subseteq Timer
      /\ cooldown \in Nat /\ gate \in Gate
  BY DEF IInv, TypeOK
<1>3. IsFiniteSet(holding)
  BY <1>1, FS_Subset, ConstantsAssumption DEF Consistent
<1>. QED
  BY <1>1, <1>2, <1>3, GateFacts DEF Consistent

\* What a step must show.
LEMMA Reestablish ==
  ASSUME Consistent(gate', awaiting', holding'), LimitHasTimer(gate', limit', timers'),
         LimitHoldsUp(gate', limit'), limit' \in [Objects -> Nat], now' \in Nat,
         timers' \subseteq Timer, cooldown' \in Nat
  PROVE  IInv'
<1>1. GateOK(gate') /\ awaiting' = Entries(gate'.queue) /\ holding' \subseteq Req
  BY DEF Consistent
<1>2. awaiting' \subseteq Req /\ gate' \in Gate /\ gate'.max \in Caps
  BY <1>1, GateFacts DEF GateOK
<1>. QED
  BY <1>1, <1>2 DEF IInv, TypeOK

\* What every admission must respect.
AdmissionOK ==
    NewHolders # {} => /\ gate'.running <= gate'.max
                       /\ ~(Present(gate) /\ IsRateLimited(limit, gate))

\* acquire finds a slot, in the gate of the map or in a new one.
LEMMA AcquireSlotStep ==
  ASSUME IInv, NEW r \in Req, NEW max \in Caps, AcquireSlot(r, max)
  PROVE  IInv' /\ AdmissionOK
<1>1. PICK o \in Objects :
         LET g == GateFor(max, o)
             lim == LimitsFor(o)
         IN  /\ Idle(r) /\ (Free(o) \/ Present(gate))
             /\ HasRoom(g) /\ ~IsRateLimited(lim, g)
             /\ gate' = [g EXCEPT !.running = @ + 1]
             /\ limit' = [lim EXCEPT ![g.object] = 0]
             /\ holding' = holding \cup {r}
             /\ UNCHANGED <<now, timers, awaiting, cooldown>>
  BY DEF AcquireSlot
<1> DEFINE g == GateFor(max, o)
           lim == LimitsFor(o)
<1>2. max \in Nat /\ max \in Caps
  BY ConstantsAssumption
<1>3. /\ GateOK(g) /\ Present(g) /\ g.queue = gate.queue /\ g.running = gate.running
      /\ lim \in [Objects -> Nat] /\ g.max = max
      /\ Present(gate) => g.object = gate.object /\ lim = limit
  <2>1. CASE Present(gate)
    <3>1. g = [gate EXCEPT !.max = max] /\ lim = limit
      BY <2>1 DEF GateFor, LimitsFor
    <3>2. /\ g \in Gate /\ g.max = max /\ g.queue = gate.queue /\ g.running = gate.running
          /\ g.object = gate.object /\ g.entry = gate.entry
      BY <1>2, <3>1, Facts DEF Gate
    <3>3. GateOK(g) /\ Present(g)
      BY <1>2, <2>1, <3>2, Facts DEF GateOK, Present
    <3>. QED
      BY <3>1, <3>2, <3>3, Facts
  <2>2. CASE ~Present(gate)
    <3>1. g = [entry |-> "present", running |-> 0, max |-> max, queue |-> << >>, object |-> o]
      BY <2>2 DEF GateFor
    <3>2. /\ g \in Gate /\ g.max = max /\ g.queue = << >> /\ g.running = 0 /\ Present(g)
      BY <1>2, <3>1, EmptyQueueFacts DEF Gate, Present
    <3>3. gate.queue = << >> /\ gate.running = 0
      BY <2>2, Facts DEF GateOK
    <3>4. lim \in [Objects -> Nat]
      BY <2>2, Facts DEF LimitsFor
    <3>. QED
      BY <1>2, <2>2, <3>2, <3>3, <3>4, EmptyQueueFacts DEF GateOK
  <2>. QED
    BY <2>1, <2>2
<1>4. /\ Idle(r) /\ HasRoom(g) /\ ~IsRateLimited(lim, g)
      /\ gate' = [g EXCEPT !.running = @ + 1] /\ limit' = [lim EXCEPT ![g.object] = 0]
      /\ holding' = holding \cup {r} /\ UNCHANGED <<now, timers, awaiting, cooldown>>
  BY <1>1
<1> HIDE DEF g, lim
<1>5. /\ g \in Gate /\ g.running \in Nat /\ g.object \in Objects /\ g.max \in Caps
      /\ Distinct(g.queue)
  BY <1>3, GateFacts DEF GateOK
<1>6. /\ gate' \in Gate /\ gate'.running = g.running + 1 /\ gate'.max = g.max
      /\ gate'.queue = g.queue /\ gate'.object = g.object /\ gate'.entry = g.entry
  <2>1. g.running + 1 \in Nat
    BY <1>5
  <2>2. gate' = [g EXCEPT !.running = g.running + 1]
    BY <1>4
  <2>. QED
    BY <1>5, <2>1, <2>2 DEF Gate
<1>7. GateOK(gate') /\ Present(gate')
  BY <1>3, <1>5, <1>6 DEF GateOK, Present
<1>8. r \notin awaiting /\ r \notin holding
  BY <1>4 DEF Idle
<1>9. Cardinality(holding \cup {r}) = Cardinality(holding) + 1
  BY <1>8, Facts, FS_AddElement
<1>10. gate'.queue = gate.queue /\ gate'.running = Cardinality(holding')
  BY <1>3, <1>4, <1>6, <1>9, Facts
<1>11. Consistent(gate', awaiting', holding')
  BY <1>4, <1>7, <1>8, <1>10, Facts DEF Consistent
<1>12. limit' \in [Objects -> Nat] /\ limit'[gate'.object] = 0
  BY <1>3, <1>4, <1>5, <1>6
<1>13. LimitHasTimer(gate', limit', timers')
  BY <1>12 DEF LimitHasTimer
<1>14. gate'.running # 0
  BY <1>5, <1>6
<1>15. LimitHoldsUp(gate', limit')
  BY <1>14 DEF LimitHoldsUp
<1>16. IInv'
  BY <1>4, <1>11, <1>12, <1>13, <1>15, Facts, Reestablish
<1>17. gate'.running <= gate'.max
  BY <1>2, <1>3, <1>4, <1>5, <1>6 DEF HasRoom
<1>18. Present(gate) => ~IsRateLimited(limit, gate)
  BY <1>3, <1>4 DEF IsRateLimited
<1>. QED
  BY <1>16, <1>17, <1>18 DEF AdmissionOK

\* getGate on a gate in the map overwrites its cap only.
LEMMA CapOverwritten ==
  ASSUME IInv, NEW m \in Caps, NEW g, g = [gate EXCEPT !.max = m]
  PROVE  /\ GateOK(g) /\ g \in Gate /\ g.max = m /\ g.queue = gate.queue
         /\ g.running = gate.running /\ g.object = gate.object /\ (Present(g) <=> Present(gate))
         /\ Consistent(g, awaiting, holding)
<1>1. m \in Nat
  BY ConstantsAssumption
<1>2. /\ g \in Gate /\ g.max = m /\ g.queue = gate.queue
      /\ g.running = gate.running /\ g.object = gate.object /\ g.entry = gate.entry
  BY <1>1, Facts DEF Gate
<1>3. Present(g) <=> Present(gate)
  BY <1>2 DEF Present
<1>4. GateOK(g)
  BY <1>2, <1>3, Facts DEF GateOK
<1>. QED
  BY <1>2, <1>3, <1>4, Facts DEF Consistent

\* acquire fails over at once; an idle gate is deleted.
LEMMA AcquireRejectedStep ==
  ASSUME IInv, NEW r \in Req, NEW max \in Caps, NEW size \in QueueSizes,
         AcquireRejected(r, max, size)
  PROVE  IInv'
<1> DEFINE g == [gate EXCEPT !.max = max]
<1>1. /\ gate' = DeleteIfIdle(g)
      /\ UNCHANGED <<limit, now, timers, awaiting, holding, cooldown>>
  BY DEF AcquireRejected
<1>2. /\ GateOK(g) /\ g.queue = gate.queue /\ g.running = gate.running
      /\ g.object = gate.object /\ (Present(g) <=> Present(gate))
  BY CapOverwritten
<1> HIDE DEF g
<1>3. /\ GateOK(gate') /\ gate'.running = gate.running /\ gate'.queue = gate.queue
      /\ Present(gate') => gate' = g
      /\ g.queue # << >> \/ g.running # 0 => gate' = g
  BY <1>1, <1>2, IdleGate
<1>4. Consistent(gate', awaiting', holding')
  BY <1>1, <1>3, Facts DEF Consistent
<1>5. LimitHasTimer(gate', limit', timers')
  BY <1>1, <1>2, <1>3 DEF LimitHasTimer, IInv
<1>6. LimitHoldsUp(gate', limit')
  BY <1>1, <1>2, <1>3 DEF LimitHoldsUp, IInv
<1>. QED
  BY <1>1, <1>4, <1>5, <1>6, Facts, Reestablish

\* acquire queues the request: behind holders, or behind a limit.
LEMMA AcquireQueuedStep ==
  ASSUME IInv, NEW r \in Req, NEW max \in Caps, NEW size \in QueueSizes,
         AcquireQueued(r, max, size)
  PROVE  IInv'
<1> DEFINE g == [gate EXCEPT !.max = max]
           p == gate.queue
           q == Append(p, r)
<1>1. /\ Idle(r) /\ Present(gate) /\ MustWait(g)
      /\ gate' = [g EXCEPT !.queue = Append(@, r)] /\ awaiting' = awaiting \cup {r}
      /\ UNCHANGED <<limit, now, timers, holding, cooldown>>
  BY DEF AcquireQueued
<1>2. /\ GateOK(g) /\ g \in Gate /\ g.max = max /\ g.queue = p /\ g.running = gate.running
      /\ g.object = gate.object /\ Present(g)
  BY <1>1, CapOverwritten
<1>3. gate' = [g EXCEPT !.queue = q]
  BY <1>1, <1>2
<1>4. /\ p \in Seq(Req) /\ Distinct(p) /\ awaiting = Elements(p) /\ r \notin awaiting
      /\ r \notin holding
  BY <1>1, Facts DEF Idle, Entries, Elements
<1> HIDE DEF g, p
<1>5. q \in Seq(Req) /\ Elements(q) = Elements(p) \cup {r} /\ Distinct(q)
  BY <1>4, AppendFacts
<1> HIDE DEF q
<1>6. /\ gate' \in Gate /\ gate'.queue = q /\ gate'.max = max /\ gate'.running = gate.running
      /\ gate'.object = gate.object /\ gate'.entry = g.entry
  BY <1>2, <1>3, <1>5 DEF Gate
<1>7. Present(gate')
  BY <1>2, <1>6 DEF Present
<1>8. GateOK(gate')
  BY <1>5, <1>6, <1>7 DEF GateOK
<1>9. awaiting' = Entries(gate'.queue)
  BY <1>1, <1>4, <1>5, <1>6 DEF Entries, Elements
<1>10. Consistent(gate', awaiting', holding')
  BY <1>1, <1>4, <1>6, <1>8, <1>9, Facts DEF Consistent
<1>11. LimitHasTimer(gate', limit', timers')
  BY <1>1, <1>6 DEF LimitHasTimer, IInv
<1>12. LimitHoldsUp(gate', limit')
  <2> SUFFICES ASSUME gate'.running = 0
               PROVE  limit'[gate'.object] # 0
    BY DEF LimitHoldsUp
  <2>1. g.running = 0 /\ g.max \in Nat \ {0}
    BY <1>2, <1>6, ConstantsAssumption
  <2>2. HasRoom(g)
    BY <2>1 DEF HasRoom
  <2>. QED
    BY <1>1, <1>2, <1>6, <2>2 DEF MustWait, IsRateLimited
<1>. QED
  BY <1>1, <1>10, <1>11, <1>12, Facts, Reestablish

\* A waiter's time is over: its entry is taken out.
LEMMA QueueTimeoutStep ==
  ASSUME IInv, NEW r \in Req, QueueTimeout(r)
  PROVE  IInv'
<1> DEFINE p == gate.queue
           k == CHOOSE i \in 1..Len(p) : p[i] = r
           q == Without(p, r)
<1>1. /\ r \in Elements(p) /\ gate' = [gate EXCEPT !.queue = q] /\ awaiting' = awaiting \ {r}
      /\ UNCHANGED <<limit, now, timers, holding, cooldown>>
  BY DEF QueueTimeout, Entries, Elements
<1>2. p \in Seq(Req) /\ Distinct(p) /\ awaiting = Elements(p)
  BY Facts DEF Entries, Elements
<1>3. k \in 1..Len(p) /\ p[k] = r
  BY <1>1 DEF Elements
<1>4. q = [i \in 1..(Len(p) - 1) |-> IF i < k THEN p[i] ELSE p[i + 1]]
  BY DEF Without
<1>5. Present(gate)
  <2>1. p # << >>
    BY <1>1, <1>2, ElementsFacts
  <2>. QED
    BY <2>1, Facts DEF GateOK
<1> HIDE DEF k, q, p
<1>6. q \in Seq(Req) /\ Distinct(q) /\ Elements(q) = Elements(p) \ {r}
  BY <1>2, <1>3, <1>4, SpliceFacts
<1>7. /\ gate' \in Gate /\ gate'.queue = q /\ gate'.max = gate.max
      /\ gate'.running = gate.running /\ gate'.object = gate.object /\ gate'.entry = gate.entry
  BY <1>1, <1>6, Facts DEF Gate
<1>8. Present(gate')
  BY <1>5, <1>7 DEF Present
<1>9. GateOK(gate')
  BY <1>6, <1>7, <1>8, Facts DEF GateOK
<1>10. awaiting' = Entries(gate'.queue)
  BY <1>1, <1>2, <1>6, <1>7 DEF Entries, Elements
<1>11. Consistent(gate', awaiting', holding')
  BY <1>1, <1>7, <1>9, <1>10, Facts DEF Consistent
<1>12. LimitHasTimer(gate', limit', timers')
  BY <1>1, <1>5, <1>7 DEF LimitHasTimer, IInv
<1>13. LimitHoldsUp(gate', limit')
  <2>1. gate.queue # << >>
    BY <1>1, <1>2, ElementsFacts DEF p
  <2>. QED
    BY <1>1, <1>7, <2>1 DEF LimitHoldsUp, IInv
<1>. QED
  BY <1>1, <1>11, <1>12, <1>13, Facts, Reestablish

\* A step that ends with a drain of gate g under limits lim, for holders h.
LEMMA DrainStep ==
  ASSUME IInv, NEW g, NEW lim \in [Objects -> Nat], NEW h,
         Consistent(g, awaiting, h), Present(g), LimitHasTimer(g, lim, timers'),
         Drain(g, lim, h), timers' \subseteq Timer, now' = now, cooldown' = cooldown
  PROVE  /\ IInv'
         /\ holding' # h => gate'.running <= gate'.max /\ ~IsRateLimited(lim, g)
<1> DEFINE A == Admitted(g, lim)
           d == DrainQueue(g, lim)
           after == LimitsAfterDrain(g, lim)
           k == Admittable(g, lim)
<1>1. gate' = d /\ limit' = after /\ holding' = h \cup A /\ awaiting' = awaiting \ A
  BY DEF Drain
<1>2. GateOK(g) /\ now \in Nat /\ cooldown \in Nat
  BY Facts DEF Consistent
<1>3. Consistent(gate', awaiting', holding')
  BY <1>1, <1>2, DrainConsistent
<1>4. /\ d.running = g.running + k /\ (Present(d) => d.object = g.object)
      /\ (k > 0 => d.max = g.max) /\ after \in [Objects -> Nat]
      /\ after[g.object] \in {0, lim[g.object]} /\ LimitHoldsUp(d, after)
  BY <1>2, DrainEffect
<1>5. /\ k > 0 => ~IsRateLimited(lim, g) /\ g.running + k <= g.max
      /\ A # {} => k > 0
  BY <1>2, AdmittableBounds, AdmittedRequests
<1> HIDE DEF A, d, after, k
<1>6. LimitHasTimer(gate', limit', timers')
  BY <1>1, <1>4 DEF LimitHasTimer
<1>7. IInv'
  BY <1>1, <1>2, <1>3, <1>4, <1>6, Reestablish
<1>8. holding' # h => A # {}
  BY <1>1
<1>. QED
  BY <1>1, <1>4, <1>5, <1>7, <1>8

\* release: the slot is given back once, and the queue is drained with it.
LEMMA ReleaseStep ==
  ASSUME IInv, NEW r \in Req, Release(r)
  PROVE  IInv' /\ AdmissionOK
<1> DEFINE g == [gate EXCEPT !.running = @ - 1]
           h == holding \ {r}
<1>1. r \in holding /\ UNCHANGED <<now, timers, cooldown>>
  BY DEF Release, GiveBack
<1>2. Cardinality(h) = Cardinality(holding) - 1 /\ IsFiniteSet(h) /\ Cardinality(h) \in Nat
  BY <1>1, Facts, FS_RemoveElement, FS_CardinalityType
<1>3. gate.running # 0 /\ gate.running - 1 \in Nat /\ gate.running - 1 = Cardinality(h)
  BY <1>2, Facts
<1>4. Present(gate)
  BY <1>3, Facts DEF GateOK
<1>5. /\ g \in Gate /\ g.running = gate.running - 1 /\ g.queue = gate.queue
      /\ g.max = gate.max /\ g.object = gate.object /\ g.entry = gate.entry
  BY <1>3, Facts DEF Gate
<1>6. \/ /\ g.running = 0 /\ g.queue = << >> /\ gate' = NoGate /\ holding' = h
         /\ UNCHANGED <<limit, awaiting>>
      \/ Drain(g, limit, h)
  BY <1>3, <1>4 DEF Release, GiveBack
<1> HIDE DEF g
<1>7. Present(g)
  BY <1>4, <1>5 DEF Present
<1>8. GateOK(g)
  BY <1>5, <1>7, Facts DEF GateOK
<1>9. Consistent(g, awaiting, h)
  BY <1>3, <1>5, <1>8, Facts DEF Consistent
<1> HIDE DEF h
<1>10. CASE g.running = 0 /\ g.queue = << >> /\ gate' = NoGate /\ holding' = h
            /\ UNCHANGED <<limit, awaiting>>
  <2>1. Consistent(gate', awaiting', holding')
    BY <1>9, <1>10, NoGateOK DEF Consistent
  <2>2. LimitHasTimer(gate', limit', timers') /\ LimitHoldsUp(gate', limit')
    BY <1>10, NoGateOK DEF LimitHasTimer, LimitHoldsUp
  <2>3. IInv'
    BY <1>1, <1>10, <2>1, <2>2, Facts, Reestablish
  <2>4. NewHolders = {}
    BY <1>10 DEF NewHolders, h
  <2>. QED
    BY <2>3, <2>4 DEF AdmissionOK
<1>11. CASE Drain(g, limit, h)
  <2>1. LimitHasTimer(g, limit, timers')
    BY <1>1, <1>4, <1>5 DEF IInv, LimitHasTimer
  <2>2. limit \in [Objects -> Nat] /\ timers' \subseteq Timer
    BY <1>1, Facts
  <2>3. /\ IInv'
        /\ holding' # h => gate'.running <= gate'.max /\ ~IsRateLimited(limit, g)
    BY <1>1, <1>7, <1>9, <1>11, <2>1, <2>2, DrainStep
  <2>4. NewHolders # {} => holding' # h
    BY DEF NewHolders, h
  <2>5. IsRateLimited(limit, g) <=> IsRateLimited(limit, gate)
    BY <1>5 DEF IsRateLimited
  <2>. QED
    BY <2>3, <2>4, <2>5 DEF AdmissionOK
<1>. QED
  BY <1>6, <1>10, <1>11

\* markRateLimited: the limit gets a timer that is not due before it is over.
LEMMA MarkRateLimitedStep ==
  ASSUME IInv, NEW r \in Req, NEW cd \in Cooldowns, MarkRateLimited(r, cd)
  PROVE  IInv'
<1>1. /\ Present(gate) /\ gate' = [gate EXCEPT !.max = DefaultMax]
      /\ limit' = [limit EXCEPT ![gate.object] = now + cd] /\ cooldown' = now + cd
      /\ UNCHANGED <<now, awaiting, holding>>
  BY DEF MarkRateLimited
<1>2. PICK id \in 1..MaxTimers :
         timers' = timers \cup {[id |-> id, due |-> now + cd + Slack, object |-> gate.object]}
  BY DEF MarkRateLimited
<1> DEFINE t == [id |-> id, due |-> now + cd + Slack, object |-> gate.object]
<1>3. /\ now \in Nat /\ gate.object \in Objects /\ limit \in [Objects -> Nat]
      /\ timers \subseteq Timer
  BY Facts
<1>4. cd \in Nat \ {0} /\ Slack \in Nat /\ DefaultMax \in Caps
  BY ConstantsAssumption
<1>5. now + cd \in Nat \ {0} /\ now + cd + Slack \in Nat /\ now + cd + Slack >= now + cd
  BY <1>3, <1>4
<1>6. t \in Timer /\ t.due >= now + cd /\ t.object = gate.object
  BY <1>3, <1>5 DEF Timer
<1>7. t \in timers' /\ timers' \subseteq Timer
  BY <1>2, <1>3, <1>6
<1> HIDE DEF t
<1>8. /\ limit' \in [Objects -> Nat] /\ limit'[gate.object] = now + cd
      /\ limit'[gate.object] # 0
  BY <1>1, <1>3, <1>5
<1>9. /\ gate'.queue = gate.queue /\ gate'.running = gate.running
      /\ gate'.object = gate.object /\ Consistent(gate', awaiting, holding)
  BY <1>1, <1>4, CapOverwritten
<1>10. Consistent(gate', awaiting', holding')
  BY <1>1, <1>9
<1>11. LimitHasTimer(gate', limit', timers')
  BY <1>6, <1>7, <1>8, <1>9 DEF LimitHasTimer
<1>12. LimitHoldsUp(gate', limit')
  BY <1>8, <1>9 DEF LimitHoldsUp
<1>. QED
  BY <1>1, <1>3, <1>5, <1>7, <1>8, <1>10, <1>11, <1>12, Reestablish

\* A timer fires: it was the last hope of a limit only if that limit is over,
\* and then the limit is lifted and the queue drained.
LEMMA TimerFiresStep ==
  ASSUME IInv, NEW t \in timers, TimerFires(t)
  PROVE  IInv' /\ AdmissionOK
<1> DEFINE lim == [limit EXCEPT ![t.object] = 0]
<1>1. now >= t.due /\ timers' = timers \ {t} /\ UNCHANGED <<now, cooldown>>
  BY DEF TimerFires
<1>2. /\ t.object \in Objects /\ t.due \in Nat /\ limit \in [Objects -> Nat]
      /\ now \in Nat /\ cooldown \in Nat /\ gate.object \in Objects /\ timers' \subseteq Timer
  BY <1>1, Facts DEF Timer
<1>3. Consistent(gate, awaiting, holding) /\ LimitHasTimer(gate, limit, timers)
      /\ LimitHoldsUp(gate, limit)
  BY DEF IInv
<1>4. ASSUME Present(gate), limit[gate.object] # 0,
             ~(t.object = gate.object /\ now >= limit[gate.object])
      PROVE  \E u \in timers' : u.object = gate.object /\ u.due >= limit[gate.object]
  <2>1. PICK u \in timers : u.object = gate.object /\ u.due >= limit[gate.object]
    BY <1>3, <1>4 DEF LimitHasTimer
  <2>2. limit[gate.object] \in Nat /\ u.due \in Nat
    BY <1>2, Facts DEF Timer
  <2>3. u # t
    BY <1>1, <1>2, <1>4, <2>1, <2>2
  <2>. QED
    BY <1>1, <2>1, <2>3
<1>5. CASE limit[t.object] # 0 /\ now >= limit[t.object] /\ Present(gate)
  <2>1. Drain(gate, lim, holding)
    BY <1>5 DEF TimerFires
  <2>2. /\ lim \in [Objects -> Nat]
        /\ t.object = gate.object => lim[gate.object] = 0
        /\ t.object # gate.object => lim[gate.object] = limit[gate.object]
    BY <1>2
  <2> HIDE DEF lim
  <2>3. LimitHasTimer(gate, lim, timers')
    BY <1>4, <2>2 DEF LimitHasTimer
  <2>4. /\ IInv'
        /\ holding' # holding => gate'.running <= gate'.max /\ ~IsRateLimited(lim, gate)
    BY <1>1, <1>2, <1>3, <1>5, <2>1, <2>2, <2>3, DrainStep
  <2>5. IsRateLimited(limit, gate) => IsRateLimited(lim, gate)
    BY <1>2, <1>5, <2>2 DEF IsRateLimited
  <2>. QED
    BY <2>4, <2>5 DEF AdmissionOK, NewHolders
<1>6. CASE limit[t.object] # 0 /\ now >= limit[t.object] /\ ~Present(gate)
  <2>1. limit' = lim /\ UNCHANGED <<gate, holding, awaiting>>
    BY <1>6 DEF TimerFires
  <2>2. lim \in [Objects -> Nat]
    BY <1>2
  <2>3. gate.queue = << >>
    BY <1>6, Facts DEF GateOK
  <2>4. LimitHasTimer(gate', limit', timers') /\ LimitHoldsUp(gate', limit')
    BY <1>6, <2>1, <2>3 DEF LimitHasTimer, LimitHoldsUp
  <2>5. IInv'
    BY <1>1, <1>2, <1>3, <2>1, <2>2, <2>4, Reestablish
  <2>. QED
    BY <2>1, <2>5 DEF AdmissionOK, NewHolders
<1>7. CASE ~(limit[t.object] # 0 /\ now >= limit[t.object])
  <2>1. UNCHANGED <<gate, limit, holding, awaiting>>
    BY <1>7 DEF TimerFires
  <2>2. LimitHasTimer(gate', limit', timers')
    BY <1>4, <1>7, <2>1 DEF LimitHasTimer
  <2>3. LimitHoldsUp(gate', limit')
    BY <1>3, <2>1 DEF LimitHoldsUp
  <2>4. IInv'
    BY <1>1, <1>2, <1>3, <2>1, <2>2, <2>3, Reestablish
  <2>. QED
    BY <2>1, <2>4 DEF AdmissionOK, NewHolders
<1>. QED
  BY <1>5, <1>6, <1>7

-----------------------------------------------------------------------------
(* The invariant and the properties.                                       *)

\* No gate, no timer, nobody.
LEMMA InitIInv == Init => IInv
<1> SUFFICES ASSUME Init PROVE IInv
  OBVIOUS
<1>1. GateOK(gate) /\ gate.queue = << >> /\ gate.running = 0 /\ ~Present(gate)
  BY NoGateOK DEF Init
<1>2. holding = {} /\ awaiting = {} /\ Cardinality(holding) = 0
  BY FS_EmptySet DEF Init
<1>3. Entries(gate.queue) = {}
  BY <1>1, EmptyQueueFacts DEF Entries, Elements
<1>4. Consistent(gate, awaiting, holding)
  BY <1>1, <1>2, <1>3 DEF Consistent
<1>5. TypeOK
  BY <1>1 DEF Init, TypeOK, GateOK
<1>6. LimitHasTimer(gate, limit, timers) /\ LimitHoldsUp(gate, limit)
  BY <1>1 DEF LimitHasTimer, LimitHoldsUp
<1>. QED
  BY <1>4, <1>5, <1>6 DEF IInv

\* One case per action.
LEMMA NextIInv == IInv /\ [Next]_vars => IInv' /\ AdmissionOK
<1> SUFFICES ASSUME IInv, [Next]_vars PROVE IInv' /\ AdmissionOK
  OBVIOUS
<1>1. CASE \E r \in Req, max \in Caps : AcquireSlot(r, max)
  BY <1>1, AcquireSlotStep
<1>2. CASE \E r \in Req, max \in Caps, size \in QueueSizes : AcquireRejected(r, max, size)
  BY <1>2, AcquireRejectedStep DEF AcquireRejected, AdmissionOK, NewHolders
<1>3. CASE \E r \in Req, max \in Caps, size \in QueueSizes : AcquireQueued(r, max, size)
  BY <1>3, AcquireQueuedStep DEF AcquireQueued, AdmissionOK, NewHolders
<1>4. CASE \E r \in Req : QueueTimeout(r)
  BY <1>4, QueueTimeoutStep DEF QueueTimeout, AdmissionOK, NewHolders
<1>5. CASE \E r \in Req : Release(r)
  BY <1>5, ReleaseStep
<1>6. CASE \E r \in Req, cd \in Cooldowns : MarkRateLimited(r, cd)
  BY <1>6, MarkRateLimitedStep DEF MarkRateLimited, AdmissionOK, NewHolders
<1>7. CASE \E t \in timers : TimerFires(t)
  BY <1>7, TimerFiresStep
<1>8. CASE Tick
  <2>1. now' = now + 1 /\ UNCHANGED <<gate, limit, timers, awaiting, holding, cooldown>>
    BY <1>8 DEF Tick
  <2>2. now' \in Nat
    BY <2>1, Facts
  <2>3. IInv'
    BY <2>1, <2>2 DEF IInv, TypeOK, Consistent, LimitHasTimer, LimitHoldsUp
  <2>. QED
    BY <2>1, <2>3 DEF AdmissionOK, NewHolders
<1>9. CASE UNCHANGED vars
  BY <1>9 DEF vars, IInv, TypeOK, Consistent, LimitHasTimer, LimitHoldsUp, AdmissionOK, NewHolders
<1>. QED
  BY <1>1, <1>2, <1>3, <1>4, <1>5, <1>6, <1>7, <1>8, <1>9 DEF Next

\* The inductive invariant holds in every state.
THEOREM Invariance == Spec => []IInv
  BY InitIInv, NextIInv, PTL DEF Spec

\* Gate, limits and timers have their types, also across the deletion and the
\* re-creation of the gate.
THEOREM TypeCorrect == Spec => []TypeOK
<1>1. IInv => TypeOK
  BY DEF IInv
<1>. QED
  BY <1>1, Invariance, PTL

\* running is exactly the number of open release functions.
THEOREM SlotsAccounted == Spec => []SlotAccounting
<1>1. IInv => SlotAccounting
  BY DEF IInv, Consistent, SlotAccounting
<1>. QED
  BY <1>1, Invariance, PTL

\* No acquire promise is lost, and a deleted gate had nobody in its queue.
THEOREM NoLostWaiter == Spec => []WaitersAreQueued
<1>1. ASSUME IInv
      PROVE  WaitersAreQueued
  BY <1>1, Facts, GateFacts DEF WaitersAreQueued, GateOK
<1>. QED
  BY <1>1, Invariance, PTL

\* Whoever waits has a release or a timer to come that wakes it: a limit that
\* expires lazily or moves to another gate object never strands the queue.
THEOREM NoStrandedWaiter == Spec => []WaitersHaveWaker
<1>1. ASSUME IInv, gate.queue # << >>, ~(gate.running > 0)
      PROVE  \E t \in timers : /\ t.object = gate.object
                               /\ limit[gate.object] # 0
                               /\ t.due >= limit[gate.object]
  <2>1. gate.running = 0 /\ Present(gate)
    BY <1>1, Facts DEF GateOK
  <2>2. limit[gate.object] # 0
    BY <1>1, <2>1 DEF IInv, LimitHoldsUp
  <2>. QED
    BY <1>1, <2>1, <2>2 DEF IInv, LimitHasTimer
<1>2. IInv => WaitersHaveWaker
  BY <1>1 DEF WaitersHaveWaker
<1>. QED
  BY <1>2, Invariance, PTL

\* Every admission leaves the gate within the cap in force, and none happens
\* while the gate in the map is limited.
THEOREM AdmissionsGuarded == Spec => AdmissionGuarded
<1>1. IInv /\ [Next]_vars =>
         [NewHolders # {} => /\ gate'.running <= gate'.max
                             /\ ~(Present(gate) /\ IsRateLimited(limit, gate))]_vars
  BY NextIInv DEF AdmissionOK
<1>. QED
  BY <1>1, Invariance, PTL DEF Spec, AdmissionGuarded
=============================================================================
