----------------------- MODULE AccountSemaphoreProofs -----------------------
(***************************************************************************)
(* Proofs about AccountSemaphore, for every set of callers, every caps,    *)
(* cooldowns and bounds.                                                   *)
(*                                                                         *)
(* SlotAccounting and CooldownHonoured are not inductive as they stand.    *)
(* The first needs to know that a drain admits as many callers as it adds  *)
(* to running, so that the queue holds no caller twice and no holder; the  *)
(* second that a cooldown not over yet is still written in a gate that     *)
(* exists, whatever was cleaned up in between.  IInv adds both.            *)
(***************************************************************************)
EXTENDS AccountSemaphore, FunctionTheorems, FiniteSetTheorems, SequenceTheorems, TLAPS

NoDuplicates(q) == \A i, j \in 1..Len(q) : q[i] = q[j] => i = j

GateOK(g) ==
    /\ g \in Gate
    /\ g.maxConcurrency \in Caps
    /\ g.running <= MaxCap
    /\ NoDuplicates(g.queue)
    /\ Len(g.queue) <= MaxQueueSize
    /\ ~Present(g) => g.queue = << >> /\ g.running = 0

\* A gate g with waiters w and holders h after n resets.
Consistent(g, w, h, n) ==
    /\ GateOK(g)
    /\ h \subseteq Req
    /\ w = Entries(g.queue)
    /\ w \cap h = {}
    /\ g.running <= Cardinality(h)
    /\ Cardinality(h) <= g.running + MaxCap * n

CooldownIsWritten ==
    now < cooldown => Present(gate) /\ gate.blockedUntil = cooldown

IInv ==
    /\ TypeOK
    /\ Consistent(gate, awaiting, holding, resets)
    /\ CooldownIsWritten

-----------------------------------------------------------------------------
(* Sequences and gates.                                                    *)

\* A prefix of a queue without duplicates has as many callers as entries.
LEMMA PrefixCardinality ==
  ASSUME NEW q \in Seq(Req), NoDuplicates(q), NEW k \in 0..Len(q)
  PROVE  /\ IsFiniteSet({q[i] : i \in 1..k})
         /\ Cardinality({q[i] : i \in 1..k}) = k
<1> DEFINE S == {q[i] : i \in 1..k}
           f == [i \in 1..k |-> q[i]]
<1>1. k \in Nat /\ Len(q) \in Nat
  BY LenProperties
<1>2. f \in Bijection(1..k, S)
  <2>1. f \in [1..k -> S]
    OBVIOUS
  <2>2. \A i, j \in 1..k : f[i] = f[j] => i = j
    BY <1>1 DEF NoDuplicates
  <2>3. \A s \in S : \E i \in 1..k : f[i] = s
    OBVIOUS
  <2>. QED
    BY <2>1, <2>2, <2>3, Zenon DEF Bijection, Injection, Surjection, IsInjective
<1>3. ExistsBijection(1..k, S)
  BY <1>2 DEF ExistsBijection
<1>. HIDE DEF S
<1>4. Cardinality(S) = k
  BY <1>1, <1>3, FS_CountingElements
<1>5. IsFiniteSet(S)
  BY <1>1, <1>3, FS_NatBijection
<1>. QED
  BY <1>4, <1>5 DEF S

\* How many waiters a drain admits: never more than wait or than have room,
\* and none at all at a blocked gate.
LEMMA AdmittableBounds ==
  ASSUME NEW g, GateOK(g), now \in Nat
  PROVE  /\ Admittable(g) \in 0..Len(g.queue)
         /\ Admittable(g) > 0 => ~IsBlocked(g)
         /\ Admittable(g) > 0 => g.running + Admittable(g) <= g.maxConcurrency
<1>1. g.queue \in Seq(Req) /\ g.running \in Nat /\ g.maxConcurrency \in Nat
  BY DEF GateOK, Gate
<1>2. Len(g.queue) \in Nat
  BY <1>1, LenProperties
<1>. QED
  BY <1>1, <1>2 DEF Admittable

\* What a drain leaves behind.
LEMMA DrainEffect ==
  ASSUME NEW g, GateOK(g), Present(g), now \in Nat
  PROVE  /\ GateOK(DrainQueue(g))
         /\ Present(DrainQueue(g))
         /\ DrainQueue(g).running = g.running + Admittable(g)
         /\ DrainQueue(g).maxConcurrency = g.maxConcurrency
         /\ Entries(DrainQueue(g).queue) = Entries(g.queue) \ Admitted(g)
         /\ now < g.blockedUntil => DrainQueue(g).blockedUntil = g.blockedUntil
<1> DEFINE k == Admittable(g)
           d == DrainQueue(g)
<1>1. /\ g \in Gate /\ g.queue \in Seq(Req) /\ g.running \in Nat
      /\ g.maxConcurrency \in Caps /\ g.blockedUntil \in Nat
      /\ Len(g.queue) \in Nat /\ MaxCap \in Nat /\ g.maxConcurrency \in 1..MaxCap
      /\ g.running <= MaxCap /\ Len(g.queue) <= MaxQueueSize /\ MaxQueueSize \in Nat
  BY ConstantsAssumption DEF GateOK, Gate
<1>2. /\ k \in 0..Len(g.queue)
      /\ k > 0 => g.running + k <= g.maxConcurrency
  BY AdmittableBounds
<1> HIDE DEF k
<1>3. /\ d.running = g.running + k
      /\ d.maxConcurrency = g.maxConcurrency
      /\ d.queue = SubSeq(g.queue, k + 1, Len(g.queue))
  BY <1>1 DEF k, DrainQueue, Gate
<1>4. Present(d)
  BY <1>1 DEF DrainQueue, Gate, Present
<1>5. /\ d.blockedUntil \in {0, g.blockedUntil}
      /\ now < g.blockedUntil => d.blockedUntil = g.blockedUntil
  BY <1>1 DEF DrainQueue, Gate
<1>6. d.queue \in Seq(Req) /\ d.running \in Nat => d \in Gate
  BY <1>1, <1>3, <1>5 DEF k, DrainQueue, Gate
<1> HIDE DEF d
<1>7. /\ d.queue \in Seq(Req)
      /\ Len(d.queue) = Len(g.queue) - k
      /\ \A i \in 1..Len(d.queue) : d.queue[i] = g.queue[i + k]
  <2>1. \A i \in (k + 1)..Len(g.queue) : g.queue[i] \in Req
    BY <1>1, <1>2, ElementOfSeq
  <2>2. /\ d.queue \in Seq(Req)
        /\ Len(d.queue) = IF k + 1 <= Len(g.queue) THEN Len(g.queue) - (k + 1) + 1 ELSE 0
        /\ \A i \in 1..(Len(g.queue) - (k + 1) + 1) : d.queue[i] = g.queue[(k + 1) + i - 1]
    BY <1>1, <1>2, <1>3, <2>1, SubSeqProperties
  <2>3. Len(d.queue) = Len(g.queue) - k
    BY <1>1, <1>2, <2>2
  <2>4. \A i \in 1..Len(d.queue) : (k + 1) + i - 1 = i + k
    BY <1>1, <1>2, <2>3
  <2>. QED
    BY <1>1, <1>2, <2>2, <2>3, <2>4
<1>8. NoDuplicates(d.queue)
  <2> SUFFICES ASSUME NEW i \in 1..Len(d.queue), NEW j \in 1..Len(d.queue),
                      d.queue[i] = d.queue[j]
               PROVE  i = j
    BY DEF NoDuplicates
  <2>1. i + k \in 1..Len(g.queue) /\ j + k \in 1..Len(g.queue)
    BY <1>1, <1>2, <1>7
  <2>2. g.queue[i + k] = g.queue[j + k]
    BY <1>7
  <2>3. i + k = j + k
    BY <2>1, <2>2 DEF GateOK, NoDuplicates
  <2>. QED
    BY <1>2, <2>3, <1>1, <1>7
<1>9. Entries(d.queue) = Entries(g.queue) \ Admitted(g)
  <2>1. Admitted(g) = {g.queue[i] : i \in 1..k}
    BY DEF Admitted, k
  <2>2. ASSUME NEW x \in Entries(d.queue)
        PROVE  x \in Entries(g.queue) \ Admitted(g)
    <3>1. PICK i \in 1..Len(d.queue) : x = d.queue[i]
      BY <2>2 DEF Entries
    <3>2. i + k \in 1..Len(g.queue) /\ x = g.queue[i + k]
      BY <1>1, <1>2, <1>7, <3>1
    <3>3. \A j \in 1..k : j \in 1..Len(g.queue) /\ j # i + k
      BY <1>1, <1>2, <1>7
    <3>4. \A j \in 1..k : g.queue[j] # x
      BY <3>2, <3>3 DEF GateOK, NoDuplicates
    <3>. QED
      BY <2>1, <3>2, <3>4 DEF Entries
  <2>3. ASSUME NEW x \in Entries(g.queue) \ Admitted(g)
        PROVE  x \in Entries(d.queue)
    <3>1. PICK i \in 1..Len(g.queue) : x = g.queue[i]
      BY <2>3 DEF Entries
    <3>2. i \notin 1..k
      BY <2>1, <2>3, <3>1
    <3>3. i - k \in 1..Len(d.queue) /\ (i - k) + k = i
      BY <1>1, <1>2, <1>7, <3>1, <3>2
    <3>4. d.queue[i - k] = x
      BY <1>7, <3>1, <3>3
    <3>. QED
      BY <3>3, <3>4 DEF Entries
  <2>. QED
    BY <2>2, <2>3
<1>10. d \in Gate
  BY <1>1, <1>2, <1>3, <1>6, <1>7
<1>11. GateOK(d)
  <2>1. d.running <= MaxCap /\ Len(d.queue) <= MaxQueueSize
    BY <1>1, <1>2, <1>3, <1>7
  <2>2. d.maxConcurrency \in Caps
    BY <1>1, <1>3
  <2>. QED
    BY <1>4, <1>8, <1>10, <2>1, <2>2, Zenon DEF GateOK
<1>. QED
  BY <1>3, <1>4, <1>5, <1>9, <1>11, Zenon DEF d, k

\* The callers a drain admits are as many as it adds to running, and they come
\* from the queue.
LEMMA AdmittedCallers ==
  ASSUME NEW g, GateOK(g), now \in Nat
  PROVE  /\ Admitted(g) \subseteq Entries(g.queue)
         /\ IsFiniteSet(Admitted(g))
         /\ Cardinality(Admitted(g)) = Admittable(g)
         /\ Admitted(g) # {} => /\ ~IsBlocked(g)
                                /\ g.running + Admittable(g) <= g.maxConcurrency
<1>1. g.queue \in Seq(Req) /\ Len(g.queue) \in Nat /\ NoDuplicates(g.queue)
  BY DEF GateOK, Gate
<1>2. /\ Admittable(g) \in 0..Len(g.queue)
      /\ Admittable(g) > 0 => ~IsBlocked(g)
      /\ Admittable(g) > 0 => g.running + Admittable(g) <= g.maxConcurrency
  BY AdmittableBounds
<1>3. /\ IsFiniteSet(Admitted(g))
      /\ Cardinality(Admitted(g)) = Admittable(g)
  BY <1>1, <1>2, PrefixCardinality DEF Admitted
<1>4. Admitted(g) \subseteq Entries(g.queue)
  BY <1>1, <1>2 DEF Admitted, Entries
<1>5. Admitted(g) # {} => Admittable(g) > 0
  BY <1>1, <1>2 DEF Admitted
<1>. QED
  BY <1>2, <1>3, <1>4, <1>5

\* Taking a waiter's entry out of the queue leaves the others.
LEMMA WithoutEffect ==
  ASSUME NEW q \in Seq(Req), NoDuplicates(q), NEW r \in Entries(q)
  PROVE  /\ Without(q, r) \in Seq(Req)
         /\ Len(Without(q, r)) = Len(q) - 1
         /\ NoDuplicates(Without(q, r))
         /\ Entries(Without(q, r)) = Entries(q) \ {r}
<1> DEFINE k == CHOOSE i \in 1..Len(q) : q[i] = r
           w == Without(q, r)
<1>1. Len(q) \in Nat /\ \A i \in 1..Len(q) : q[i] \in Req
  BY ElementOfSeq
<1>2. k \in 1..Len(q) /\ q[k] = r
  BY DEF Entries
<1>3. w = [i \in 1..(Len(q) - 1) |-> IF i < k THEN q[i] ELSE q[i + 1]]
  BY DEF Without
<1> HIDE DEF k, w
<1>4. w \in Seq(Req) /\ Len(w) = Len(q) - 1
  <2>1. Len(q) - 1 \in Nat
    BY <1>1, <1>2
  <2>2. \A i \in 1..(Len(q) - 1) : i \in 1..Len(q) /\ i + 1 \in 1..Len(q)
    BY <1>1
  <2>3. \A i \in 1..(Len(q) - 1) : (IF i < k THEN q[i] ELSE q[i + 1]) \in Req
    BY <1>1, <2>2
  <2>. QED
    BY <1>3, <2>1, <2>3
<1>5. \A i \in 1..Len(w) : w[i] = IF i < k THEN q[i] ELSE q[i + 1]
  BY <1>3, <1>4
<1>6. NoDuplicates(w)
  <2> SUFFICES ASSUME NEW i \in 1..Len(w), NEW j \in 1..Len(w), w[i] = w[j]
               PROVE  i = j
    BY DEF NoDuplicates
  <2> DEFINE i2 == IF i < k THEN i ELSE i + 1
             j2 == IF j < k THEN j ELSE j + 1
  <2>1. i2 \in 1..Len(q) /\ j2 \in 1..Len(q)
    BY <1>1, <1>2, <1>4
  <2>2. q[i2] = q[j2]
    BY <1>5
  <2>3. i2 = j2
    BY <2>1, <2>2 DEF NoDuplicates
  <2>. QED
    BY <1>1, <1>2, <1>4, <2>3
<1>7. Entries(w) = Entries(q) \ {r}
  <2>1. ASSUME NEW x \in Entries(w)
        PROVE  x \in Entries(q) \ {r}
    <3>1. PICK i \in 1..Len(w) : x = w[i]
      BY <2>1 DEF Entries
    <3> DEFINE i2 == IF i < k THEN i ELSE i + 1
    <3>2. i2 \in 1..Len(q) /\ i2 # k
      BY <1>1, <1>2, <1>4
    <3>3. x = q[i2]
      BY <1>5, <3>1
    <3>4. x # r
      BY <1>2, <3>2, <3>3 DEF NoDuplicates
    <3>. QED
      BY <3>2, <3>3, <3>4 DEF Entries
  <2>2. ASSUME NEW x \in Entries(q) \ {r}
        PROVE  x \in Entries(w)
    <3>1. PICK i \in 1..Len(q) : x = q[i]
      BY <2>2 DEF Entries
    <3>2. i # k
      BY <1>2, <2>2, <3>1
    <3> DEFINE i2 == IF i < k THEN i ELSE i - 1
    <3>3. i2 \in 1..Len(w) /\ (IF i2 < k THEN i2 ELSE i2 + 1) = i
      BY <1>1, <1>2, <1>4, <3>1, <3>2
    <3>4. w[i2] = q[i]
      BY <1>5, <3>3
    <3>. QED
      BY <3>1, <3>3, <3>4 DEF Entries
  <2>. QED
    BY <2>1, <2>2
<1>. QED
  BY <1>4, <1>6, <1>7 DEF w

\* Only gate fields that Consistent does not mention change.
LEMMA SameCounts ==
  ASSUME NEW g, NEW f, NEW w, NEW h, NEW n, Consistent(g, w, h, n),
         f \in Gate, f.maxConcurrency \in Caps, f.running = g.running,
         f.queue = g.queue, Present(f) \/ (g.queue = << >> /\ g.running = 0)
  PROVE  Consistent(f, w, h, n)
  BY Zenon DEF Consistent, GateOK

\* A gate that ensureGate has just created is well formed and empty.
LEMMA NewGateOK ==
  ASSUME NEW max \in Caps
  PROVE  /\ GateOK(NewGate(max)) /\ Present(NewGate(max))
         /\ NewGate(max).queue = << >> /\ NewGate(max).running = 0
         /\ NewGate(max).maxConcurrency = max
         /\ NewGate(max).blockedUntil = 0
<1>1. MaxQueueSize \in Nat /\ MaxCap \in Nat /\ max \in Nat
  BY ConstantsAssumption
<1>2. Present(NewGate(max))
  BY DEF NewGate, Present
<1>3. NewGate(max) \in Gate
  BY <1>1 DEF NewGate, Gate
<1>4. /\ NewGate(max).queue = << >> /\ NewGate(max).running = 0
      /\ NewGate(max).maxConcurrency = max
      /\ NewGate(max).blockedUntil = 0
  BY DEF NewGate
<1>5. /\ NewGate(max).running <= MaxCap
      /\ Len(NewGate(max).queue) <= MaxQueueSize
      /\ NoDuplicates(NewGate(max).queue)
  BY <1>1, <1>4 DEF NoDuplicates
<1>. QED
  BY <1>2, <1>3, <1>4, <1>5 DEF GateOK

\* So is the stand-in for a key without a gate.
LEMMA NoGateOK ==
  /\ GateOK(NoGate) /\ NoGate.queue = << >> /\ NoGate.running = 0
  /\ ~Present(NoGate) /\ NoGate.maxConcurrency = 1
<1>1. MaxQueueSize \in Nat /\ MaxCap \in Nat /\ 1 \in Caps
  BY ConstantsAssumption
<1>3. NoGate \in Gate
  BY DEF Gate, NoGate
<1>4. /\ NoGate.queue = << >> /\ NoGate.running = 0 /\ NoGate.maxConcurrency = 1
  BY DEF NoGate
<1>5. ~Present(NoGate)
  BY DEF NoGate, Present
<1>6. /\ NoGate.running <= MaxCap
      /\ Len(NoGate.queue) <= MaxQueueSize
      /\ NoDuplicates(NoGate.queue)
  BY <1>1, <1>4 DEF NoDuplicates
<1>. QED
  BY <1>1, <1>3, <1>4, <1>5, <1>6 DEF GateOK

\* A drain moves callers from the queue to the holders and counts each once.
LEMMA DrainConsistent ==
  ASSUME NEW g, NEW w, NEW h, NEW n \in Nat, Consistent(g, w, h, n), Present(g),
         now \in Nat
  PROVE  Consistent(DrainQueue(g), w \ Admitted(g), h \cup Admitted(g), n)
<1> DEFINE d == DrainQueue(g)
           A == Admitted(g)
<1>1. GateOK(g) /\ w = Entries(g.queue) /\ w \cap h = {} /\ h \subseteq Req
  BY DEF Consistent
<1>2. /\ GateOK(d)
      /\ d.running = g.running + Admittable(g)
      /\ Entries(d.queue) = Entries(g.queue) \ A
  BY <1>1, DrainEffect
<1>3. A \subseteq Entries(g.queue) /\ IsFiniteSet(A) /\ Cardinality(A) = Admittable(g)
  BY <1>1, AdmittedCallers
<1>4. A \cap h = {} /\ A \subseteq Req
  <2>1. Entries(g.queue) \subseteq Req
    BY <1>1, ElementOfSeq DEF GateOK, Gate, Entries
  <2>. QED
    BY <1>1, <1>3, <2>1
<1>5. IsFiniteSet(h) /\ Cardinality(h) \in Nat
  BY <1>1, FS_Subset, FS_CardinalityType, ConstantsAssumption
<1> HIDE DEF A, d
<1>6. Cardinality(h \cup A) = Cardinality(h) + Admittable(g)
  <2>1. h \cap A = {}
    BY <1>4
  <2>2. Cardinality(h \cup A) = Cardinality(h) + Cardinality(A) - Cardinality(h \cap A)
    BY <1>3, <1>5, FS_Union
  <2>3. Cardinality(A) \in Nat /\ Cardinality({}) = 0
    BY <1>3, FS_CardinalityType, FS_EmptySet
  <2>4. Cardinality(h \cap A) = 0
    BY <2>1, <2>3
  <2>. QED
    BY <1>3, <1>5, <2>2, <2>3, <2>4
<1>7. g.running \in Nat /\ Admittable(g) \in Nat /\ MaxCap * n \in Nat
  BY <1>1, <1>3, FS_CardinalityType, ConstantsAssumption DEF GateOK, Gate
<1>8. /\ g.running <= Cardinality(h)
      /\ Cardinality(h) <= g.running + MaxCap * n
  BY DEF Consistent
<1>9. /\ d.running <= Cardinality(h \cup A)
      /\ Cardinality(h \cup A) <= d.running + MaxCap * n
  BY <1>2, <1>5, <1>6, <1>7, <1>8
<1>10. (w \ A) \cap (h \cup A) = {} /\ h \cup A \subseteq Req /\ w \ A = Entries(d.queue)
  BY <1>1, <1>2, <1>4
<1>. QED
  BY <1>2, <1>9, <1>10, Zenon DEF Consistent, d, A

-----------------------------------------------------------------------------
(* One lemma for each kind of step.                                        *)

\* The facts of the invariant that most steps use.
LEMMA Facts ==
  ASSUME IInv
  PROVE  /\ GateOK(gate) /\ gate \in Gate
         /\ gate.running \in Nat /\ gate.queue \in Seq(Req) /\ Len(gate.queue) \in Nat
         /\ gate.maxConcurrency \in Caps /\ gate.blockedUntil \in Nat
         /\ now \in Nat /\ cooldown \in Nat /\ resets \in Nat
         /\ awaiting = Entries(gate.queue) /\ awaiting \subseteq Req
         /\ holding \subseteq Req /\ bypassing \subseteq Req
         /\ unblockTimers \subseteq Timer
         /\ IsFiniteSet(holding) /\ Cardinality(holding) \in Nat
         /\ MaxCap \in Nat /\ MaxCap * resets \in Nat
  BY FS_Subset, FS_CardinalityType, ConstantsAssumption
     DEF IInv, TypeOK, Consistent, GateOK, Gate

\* What a step has to establish.
LEMMA Reestablish ==
  ASSUME IInv, resets' \in Nat,
         Consistent(gate', awaiting', holding', resets'),
         bypassing' \subseteq Req, unblockTimers' \subseteq Timer, now' \in Nat,
         cooldown' \in Nat,
         now' < cooldown' => Present(gate') /\ gate'.blockedUntil = cooldown'
  PROVE  IInv'
<1>1. gate' \in Gate /\ gate'.maxConcurrency \in Caps /\ awaiting' \subseteq Req /\ holding' \subseteq Req
  BY ElementOfSeq DEF Consistent, GateOK, Gate, Entries
<1>. QED
  BY <1>1, Zenon DEF IInv, TypeOK, CooldownIsWritten

\* ensureGate and clearCleanupTimer change no count.
LEMMA AskedConsistent ==
  ASSUME IInv, NEW max \in Caps
  PROVE  /\ Consistent(Asked(max), awaiting, holding, resets)
         /\ Present(Asked(max))
         /\ Asked(max).maxConcurrency = max
         /\ Asked(max).running = gate.running
         /\ Asked(max).queue = gate.queue
         /\ now < cooldown => Asked(max).blockedUntil = cooldown
<1>1. CASE Present(gate)
  <2>1. Asked(max) = [gate EXCEPT !.maxConcurrency = max, !.cleanupTimer = "null"]
    BY <1>1 DEF Asked
  <2>2. /\ Asked(max) \in Gate
        /\ Asked(max).maxConcurrency = max
        /\ Asked(max).running = gate.running
        /\ Asked(max).queue = gate.queue
        /\ Asked(max).blockedUntil = gate.blockedUntil
    <3>1. gate \in Gate /\ max \in Nat
      BY Facts, ConstantsAssumption
    <3>2. Asked(max) \in Gate
      BY <2>1, <3>1 DEF Gate
    <3>3. /\ Asked(max).maxConcurrency = max
          /\ Asked(max).running = gate.running
          /\ Asked(max).queue = gate.queue
          /\ Asked(max).blockedUntil = gate.blockedUntil
      BY <2>1, <3>1 DEF Gate
    <3>. QED
      BY <3>2, <3>3
  <2>4. Present(Asked(max))
    BY <1>1, <2>1, Facts DEF Gate, Present
  <2>5. Consistent(Asked(max), awaiting, holding, resets)
    BY <2>2, <2>4, SameCounts DEF IInv
  <2>. QED
    BY <2>2, <2>4, <2>5 DEF IInv, CooldownIsWritten
<1>2. CASE ~Present(gate)
  <2>1. gate.queue = << >> /\ gate.running = 0
    BY <1>2, Facts DEF GateOK
  <2>2. Asked(max) = NewGate(max)
    BY <1>2 DEF Asked
  <2>3. /\ Asked(max) \in Gate
        /\ Asked(max).maxConcurrency = max
        /\ Asked(max).running = 0
        /\ Asked(max).queue = << >>
    BY <2>2, NewGateOK DEF GateOK
  <2>4. Present(Asked(max))
    BY <2>2, NewGateOK
  <2>5. Consistent(Asked(max), awaiting, holding, resets)
    BY <2>1, <2>3, <2>4, SameCounts DEF IInv
  <2>6. ~(now < cooldown)
    BY <1>2 DEF IInv, CooldownIsWritten
  <2>. QED
    BY <2>1, <2>3, <2>4, <2>5, <2>6
<1>. QED
  BY <1>1, <1>2

\* The fast path of acquire counts its caller, within the cap and after the
\* cooldown.
LEMMA AcquireSlotStep ==
  ASSUME IInv, NEW r \in Req, NEW max \in Caps, AcquireSlot(r, max)
  PROVE  IInv' /\ gate'.running <= gate'.maxConcurrency /\ now >= cooldown
<1> DEFINE g == Asked(max)
<1>1. /\ Consistent(g, awaiting, holding, resets) /\ Present(g)
      /\ g.maxConcurrency = max
      /\ now < cooldown => g.blockedUntil = cooldown
  BY AskedConsistent
<1>2. /\ g \in Gate /\ g.running \in Nat /\ g.blockedUntil \in Nat /\ GateOK(g)
      /\ g.maxConcurrency \in 1..MaxCap
  BY <1>1, ConstantsAssumption DEF Consistent, GateOK, Gate
<1>3. /\ g.running < max
      /\ ~IsBlocked(g)
      /\ gate' = [g EXCEPT !.running = @ + 1, !.blockedUntil = 0]
      /\ r \notin awaiting /\ r \notin holding
      /\ holding' = holding \cup {r}
      /\ UNCHANGED <<now, unblockTimers, awaiting, bypassing, cooldown, resets>>
  BY <1>1 DEF AcquireSlot, HasRoom, Idle
<1> HIDE DEF g
<1>4. /\ gate' \in Gate
      /\ gate'.running = g.running + 1
      /\ gate'.maxConcurrency = max
      /\ gate'.queue = g.queue
  <2>1. g \in Gate /\ g.running \in Nat /\ gate' = [g EXCEPT !.running = @ + 1, !.blockedUntil = 0]
    BY <1>2, <1>3
  <2>2. gate' \in Gate
    <3>1. PICK n \in Nat : n = g.running + 1
      BY <2>1
    <3>2. gate' = [g EXCEPT !.running = n, !.blockedUntil = 0]
      BY <2>1, <3>1
    <3>3. g \in Gate
      BY <1>2
    <3>. QED
      BY <3>2, <3>3 DEF Gate
  <2>3. /\ gate'.running = g.running + 1
        /\ gate'.maxConcurrency = g.maxConcurrency
        /\ gate'.queue = g.queue
    BY <2>1 DEF Gate
  <2>. QED
    BY <1>1, <2>2, <2>3
<1>5. Present(gate')
  BY <1>1, <1>2, <1>3 DEF Gate, Present
<1>6. now >= cooldown
  BY <1>1, <1>3, Facts DEF IsBlocked
<1>7. Cardinality(holding') = Cardinality(holding) + 1
  BY <1>3, Facts, FS_AddElement
<1>8. Consistent(gate', awaiting', holding', resets')
  <2>1. gate'.running <= MaxCap
    BY <1>1, <1>2, <1>3, <1>4, ConstantsAssumption
  <2>2. GateOK(gate')
    BY <1>2, <1>4, <1>5, <2>1, Zenon DEF GateOK
  <2>3. /\ g.running <= Cardinality(holding)
        /\ Cardinality(holding) <= g.running + MaxCap * resets
    BY <1>1 DEF Consistent
  <2>4. /\ gate'.running <= Cardinality(holding')
        /\ Cardinality(holding') <= gate'.running + MaxCap * resets'
    <3>1. MaxCap * resets' = MaxCap * resets
      BY <1>3
    <3>2. Cardinality(holding) \in Nat /\ MaxCap * resets \in Nat
      BY Facts
    <3>. QED
      BY <1>2, <1>4, <1>7, <2>3, <3>1, <3>2
  <2>5. /\ awaiting' = Entries(gate'.queue)
        /\ awaiting' \cap holding' = {}
        /\ holding' \subseteq Req
    BY <1>1, <1>3, <1>4 DEF Consistent
  <2>. QED
    BY <2>2, <2>4, <2>5 DEF Consistent
<1>9. /\ resets' \in Nat /\ bypassing' \subseteq Req /\ unblockTimers' \subseteq Timer
      /\ now' \in Nat /\ cooldown' \in Nat /\ ~(now' < cooldown')
  BY <1>3, <1>6, Facts
<1>10. IInv'
  BY <1>8, <1>9, Reestablish
<1>. QED
  BY <1>1, <1>2, <1>3, <1>4, <1>6, <1>10

\* A refused acquire leaves cap and cleanup timer changed and every count as it was.
LEMMA AcquireRejectedStep ==
  ASSUME IInv, NEW r \in Req, NEW max \in Caps, AcquireRejected(r, max)
  PROVE  IInv'
<1>1. /\ Consistent(Asked(max), awaiting, holding, resets) /\ Present(Asked(max))
      /\ now < cooldown => Asked(max).blockedUntil = cooldown
  BY AskedConsistent
<1>2. /\ gate' = Asked(max)
      /\ UNCHANGED <<now, unblockTimers, awaiting, holding, bypassing, cooldown, resets>>
  BY DEF AcquireRejected
<1>. QED
  BY <1>1, <1>2, Facts, Reestablish

\* A queued acquire adds one entry for one caller, within the queue's limit.
LEMMA AcquireQueuedStep ==
  ASSUME IInv, NEW r \in Req, NEW max \in Caps, AcquireQueued(r, max)
  PROVE  IInv'
<1> DEFINE g == Asked(max)
<1>1. /\ Consistent(g, awaiting, holding, resets) /\ Present(g)
      /\ now < cooldown => g.blockedUntil = cooldown
      /\ g.queue = gate.queue
  BY AskedConsistent
<1>2. /\ g \in Gate /\ g.queue \in Seq(Req) /\ Len(g.queue) \in Nat /\ GateOK(g)
      /\ NoDuplicates(g.queue)
  BY <1>1 DEF Consistent, GateOK, Gate
<1>3. /\ Len(g.queue) < MaxQueueSize
      /\ gate' = [g EXCEPT !.queue = Append(@, r)]
      /\ r \notin awaiting /\ r \notin holding
      /\ awaiting' = awaiting \cup {r}
      /\ UNCHANGED <<now, unblockTimers, holding, bypassing, cooldown, resets>>
  BY <1>1 DEF AcquireQueued, Enqueue, Idle
<1> HIDE DEF g
<1> DEFINE q == Append(g.queue, r)
<1>4. /\ q \in Seq(Req) /\ Len(q) = Len(g.queue) + 1 /\ q[Len(q)] = r
      /\ \A i \in 1..Len(g.queue) : q[i] = g.queue[i]
  BY <1>2
<1> HIDE DEF q
<1>5. Entries(q) = Entries(g.queue) \cup {r}
  <2>1. \A i \in 1..Len(q) : i \in 1..Len(g.queue) \/ i = Len(q)
    BY <1>2, <1>4
  <2>2. \A i \in 1..Len(g.queue) : i \in 1..Len(q)
    BY <1>2, <1>4
  <2>3. Len(q) \in 1..Len(q)
    BY <1>2, <1>4
  <2>. QED
    BY <1>4, <2>1, <2>2, <2>3 DEF Entries
<1>6. NoDuplicates(q)
  <2>1. r \notin Entries(g.queue)
    BY <1>1, <1>3 DEF Consistent
  <2>2. \A i \in 1..Len(q) : i \in 1..Len(g.queue) \/ i = Len(q)
    BY <1>2, <1>4
  <2>. QED
    BY <1>2, <1>4, <2>1, <2>2 DEF NoDuplicates, Entries
<1>7. gate' = [g EXCEPT !.queue = q]
  BY <1>3 DEF q
<1>8. /\ gate'.running = g.running /\ gate'.queue = q
      /\ gate'.maxConcurrency = g.maxConcurrency /\ gate'.blockedUntil = g.blockedUntil
  BY <1>2, <1>7 DEF Gate
<1>9. gate' \in Gate /\ Present(gate')
  BY <1>1, <1>2, <1>4, <1>7 DEF Gate, Present
<1>10. GateOK(gate')
  <2>1. Len(q) <= MaxQueueSize
    BY <1>2, <1>3, <1>4, ConstantsAssumption
  <2>. QED
    BY <1>2, <1>6, <1>8, <1>9, <2>1, Zenon DEF GateOK
<1>11. Consistent(gate', awaiting', holding', resets')
  BY <1>1, <1>3, <1>5, <1>8, <1>10 DEF Consistent
<1>. QED
  BY <1>1, <1>3, <1>8, <1>9, <1>11, Facts, Reestablish

\* A timeout or an abort takes its entry and its caller away together.
LEMMA LeaveQueueStep ==
  ASSUME IInv, NEW r \in Req, LeaveQueue(r)
  PROVE  IInv'
<1>1. /\ r \in Entries(gate.queue)
      /\ gate' = ScheduleCleanupIfIdle([gate EXCEPT !.queue = Without(@, r)])
      /\ awaiting' = awaiting \ {r}
      /\ UNCHANGED <<now, unblockTimers, holding, bypassing, cooldown, resets>>
  BY DEF LeaveQueue
<1>2. GateOK(gate) /\ gate \in Gate /\ gate.queue \in Seq(Req) /\ NoDuplicates(gate.queue)
      /\ Len(gate.queue) \in Nat
  BY Facts DEF GateOK
<1> DEFINE q == Without(gate.queue, r)
           g == [gate EXCEPT !.queue = q]
<1>3. /\ q \in Seq(Req) /\ Len(q) = Len(gate.queue) - 1
      /\ NoDuplicates(q) /\ Entries(q) = Entries(gate.queue) \ {r}
  BY <1>1, <1>2, WithoutEffect
<1>4. gate.queue # << >>
  BY <1>1 DEF Entries
<1> HIDE DEF q
<1>5. /\ g \in Gate /\ g.running = gate.running /\ g.queue = q
      /\ g.maxConcurrency = gate.maxConcurrency /\ g.blockedUntil = gate.blockedUntil
      /\ g.entry = gate.entry
  BY <1>2, <1>3 DEF Gate
<1>6. gate' = ScheduleCleanupIfIdle(g)
  BY <1>1 DEF q
<1> HIDE DEF g
<1>7. /\ gate' \in Gate /\ gate'.running = gate.running /\ gate'.queue = q
      /\ gate'.maxConcurrency = gate.maxConcurrency /\ gate'.blockedUntil = gate.blockedUntil
      /\ gate'.entry = gate.entry
  BY <1>5, <1>6 DEF ScheduleCleanupIfIdle, Gate
<1>8. Present(gate')
  BY <1>2, <1>4, <1>7 DEF GateOK, Present
<1>9. GateOK(gate')
  <2>1. Len(q) <= MaxQueueSize
    BY <1>2, <1>3, ConstantsAssumption DEF GateOK
  <2>. QED
    BY <1>2, <1>3, <1>7, <1>8, <2>1, Zenon DEF GateOK
<1>10. Consistent(gate', awaiting', holding', resets')
  BY <1>1, <1>3, <1>7, <1>9 DEF Consistent, IInv
<1>11. now' < cooldown' => Present(gate') /\ gate'.blockedUntil = cooldown'
  BY <1>1, <1>7, <1>8 DEF IInv, CooldownIsWritten
<1>. QED
  BY <1>1, <1>10, <1>11, Facts, Reestablish

\* Draining a gate g after which the holders are h, where g is the gate with
\* running or blockedUntil changed: common to Release, LiftBlock and the timer.
LEMMA DrainStep ==
  ASSUME IInv, NEW g, NEW h,
         Consistent(g, awaiting, h, resets), Present(g),
         gate' \in Gate, gate'.running = DrainQueue(g).running,
         gate'.maxConcurrency = DrainQueue(g).maxConcurrency,
         gate'.queue = DrainQueue(g).queue,
         gate'.blockedUntil = DrainQueue(g).blockedUntil,
         Present(gate'),
         holding' = h \cup Admitted(g),
         awaiting' = awaiting \ Admitted(g),
         now' = now, resets' = resets, bypassing' = bypassing, cooldown' \in Nat,
         unblockTimers' \subseteq Timer,
         now < cooldown' => g.blockedUntil = cooldown'
  PROVE  /\ IInv'
         /\ Admitted(g) # {} => gate'.running <= gate'.maxConcurrency /\ now >= cooldown'
<1>1. Consistent(DrainQueue(g), awaiting', holding', resets')
  BY DrainConsistent, Facts
<1>2. GateOK(DrainQueue(g)) /\ DrainQueue(g).maxConcurrency \in Caps
  BY <1>1 DEF Consistent, GateOK
<1>3. Consistent(gate', awaiting', holding', resets')
  BY <1>1, <1>2, SameCounts
<1>4. /\ now < g.blockedUntil => DrainQueue(g).blockedUntil = g.blockedUntil
      /\ DrainQueue(g).running = g.running + Admittable(g)
      /\ DrainQueue(g).maxConcurrency = g.maxConcurrency
  BY DrainEffect, Facts DEF Consistent
<1>5. now' < cooldown' => Present(gate') /\ gate'.blockedUntil = cooldown'
  BY <1>4
<1>6. IInv'
  BY <1>3, <1>5, Facts, Reestablish
<1>7. ASSUME Admitted(g) # {}
      PROVE  gate'.running <= gate'.maxConcurrency /\ now >= cooldown'
  <2>1. ~IsBlocked(g) /\ g.running + Admittable(g) <= g.maxConcurrency
    BY <1>7, AdmittedCallers, Facts DEF Consistent
  <2>2. ~(now < cooldown')
    BY <2>1, Facts DEF IsBlocked
  <2>. QED
    BY <1>4, <2>1, <2>2, Facts
<1>. QED
  BY <1>6, <1>7

\* A release gives back one slot, none to a gate created since a reset that
\* counts nobody, and drains the queue within the cap.
LEMMA ReleaseStep ==
  ASSUME IInv, NEW r \in Req, Release(r)
  PROVE  /\ IInv'
         /\ NewHolders # {} => gate'.running <= gate'.maxConcurrency /\ now >= cooldown'
<1>1. r \in holding /\ UNCHANGED <<now, unblockTimers, bypassing, cooldown, resets>>
  BY DEF Release, GiveBack
<1>2. Cardinality(holding \ {r}) = Cardinality(holding) - 1 /\ Cardinality(holding) > 0
  <2>1. IsFiniteSet(holding) /\ Cardinality(holding) \in Nat /\ holding # {}
    BY <1>1, Facts
  <2>2. Cardinality(holding \ {r}) = Cardinality(holding) - 1
    BY <1>1, <2>1, FS_RemoveElement
  <2>3. Cardinality(holding) # 0
    BY <2>1, FS_EmptySet
  <2>. QED
    BY <2>1, <2>2, <2>3
<1>3. CASE Present(gate)
  <2> DEFINE g == Released(gate)
             h == holding \ {r}
             n == IF gate.running > 0 THEN gate.running - 1 ELSE 0
  <2>1. /\ gate' = AfterRelease(g)
        /\ holding' = h \cup Admitted(g)
        /\ awaiting' = awaiting \ Admitted(g)
    BY <1>3 DEF Release, GiveBack
  <2>2. n \in Nat
    BY Facts
  <2>3. g = [gate EXCEPT !.running = n]
    BY DEF Released
  <2> HIDE DEF n
  <2>4. /\ g \in Gate /\ g.running = n /\ g.queue = gate.queue
        /\ g.maxConcurrency = gate.maxConcurrency /\ g.blockedUntil = gate.blockedUntil
        /\ g.entry = gate.entry
    BY <2>2, <2>3, Facts DEF Gate
  <2> HIDE DEF g
  <2>5. Present(g)
    BY <1>3, <2>4 DEF Present
  <2>6. Consistent(g, awaiting, h, resets)
    <3>1. GateOK(g)
      <4>1. n <= MaxCap
        BY Facts DEF GateOK, n
      <4>. QED
        BY <2>4, <2>5, <4>1, Facts, Zenon DEF GateOK
    <3>2. /\ gate.running <= Cardinality(holding)
          /\ Cardinality(holding) <= gate.running + MaxCap * resets
      BY DEF IInv, Consistent
    <3>3. n <= Cardinality(h) /\ Cardinality(h) <= n + MaxCap * resets
      <4>1. /\ gate.running \in Nat /\ Cardinality(holding) \in Nat /\ MaxCap * resets \in Nat
        BY Facts
      <4>. QED
        BY <1>2, <3>2, <4>1 DEF n
    <3>4. awaiting = Entries(g.queue) /\ awaiting \cap h = {} /\ h \subseteq Req
      BY <2>4 DEF IInv, Consistent
    <3>. QED
      BY <2>4, <3>1, <3>3, <3>4 DEF Consistent
  <2>7. now < cooldown' => g.blockedUntil = cooldown'
    BY <1>1, <2>4 DEF IInv, CooldownIsWritten
  <2>8. NewHolders \subseteq Admitted(g)
    BY <2>1 DEF NewHolders
  <2>9. CASE g.queue # << >>
    <3>1. gate' = DrainQueue(g)
      BY <2>1, <2>9 DEF AfterRelease
    <3>2. gate' \in Gate /\ Present(gate')
      BY <2>5, <2>6, <3>1, DrainEffect, Facts DEF Consistent, GateOK
    <3>. QED
      BY <1>1, <2>1, <2>5, <2>6, <2>7, <2>8, <3>1, <3>2, DrainStep, Facts
  <2>10. CASE g.queue = << >>
    <3>1. gate' = [g EXCEPT !.cleanupTimer = "armed"]
      BY <2>1, <2>10 DEF AfterRelease, ScheduleCleanup
    <3>2. /\ gate' \in Gate /\ gate'.running = g.running /\ gate'.queue = g.queue
          /\ gate'.maxConcurrency = g.maxConcurrency /\ gate'.blockedUntil = g.blockedUntil
          /\ gate'.entry = g.entry
      BY <2>4, <3>1 DEF Gate
    <3>3. Present(gate') /\ gate'.maxConcurrency \in Caps
      BY <2>4, <2>5, <3>2, Facts DEF Present
    <3>4. Admitted(g) = {}
      <4>1. Admitted(g) \subseteq Entries(g.queue)
        BY <2>6, AdmittedCallers, Facts DEF Consistent
      <4>2. Entries(g.queue) = {}
        BY <2>10 DEF Entries
      <4>. QED
        BY <4>1, <4>2
    <3>5. holding' = h /\ awaiting' = awaiting
      BY <2>1, <3>4
    <3>6. Consistent(gate', awaiting', holding', resets')
      BY <1>1, <2>6, <3>2, <3>3, <3>5, SameCounts
    <3>7. now' < cooldown' => Present(gate') /\ gate'.blockedUntil = cooldown'
      BY <1>1, <2>7, <3>2, <3>3
    <3>8. IInv'
      BY <1>1, <3>6, <3>7, Facts, Reestablish
    <3>. QED
      BY <2>8, <3>4, <3>8
  <2>. QED
    BY <2>9, <2>10
<1>4. CASE ~Present(gate)
  <2>1. gate' = gate /\ awaiting' = awaiting /\ holding' = holding \ {r}
    BY <1>4 DEF Release, GiveBack
  <2>2. gate.running = 0
    BY <1>4, Facts DEF GateOK
  <2>3. Consistent(gate', awaiting', holding', resets')
    <3>1. /\ gate.running <= Cardinality(holding)
          /\ Cardinality(holding) <= gate.running + MaxCap * resets
      BY DEF IInv, Consistent
    <3>2. /\ gate'.running <= Cardinality(holding')
          /\ Cardinality(holding') <= gate'.running + MaxCap * resets'
      <4>1. Cardinality(holding) \in Nat /\ MaxCap * resets \in Nat
        BY Facts
      <4>2. MaxCap * resets' = MaxCap * resets
        BY <1>1
      <4>. QED
        BY <1>2, <2>1, <2>2, <3>1, <4>1, <4>2
    <3>. QED
      BY <2>1, <3>2 DEF IInv, Consistent
  <2>4. now' < cooldown' => Present(gate') /\ gate'.blockedUntil = cooldown'
    BY <1>1, <2>1 DEF IInv, CooldownIsWritten
  <2>5. IInv'
    BY <1>1, <2>3, <2>4, Facts, Reestablish
  <2>6. NewHolders = {}
    BY <2>1 DEF NewHolders
  <2>. QED
    BY <2>5, <2>6
<1>. QED
  BY <1>3, <1>4

\* markBlocked writes the cooldown to the gate, creating one if need be.
LEMMA MarkBlockedStep ==
  ASSUME IInv, NEW cd \in Cooldowns, MarkBlocked(cd)
  PROVE  IInv'
<1> DEFINE f == IF Present(gate) THEN gate ELSE NewGate(1)
<1>1. /\ gate' = [f EXCEPT !.cleanupTimer = "null", !.blockedUntil = now + cd]
      /\ cooldown' = now + cd
      /\ UNCHANGED <<now, awaiting, holding, bypassing, resets>>
  BY DEF MarkBlocked
<1>2. unblockTimers' \subseteq Timer
  <2>1. PICK id \in 1..MaxTimers :
          unblockTimers' = unblockTimers \cup {[id |-> id, due |-> now + cd + Slack]}
    BY DEF MarkBlocked
  <2>2. now + cd + Slack \in Nat
    BY Facts, ConstantsAssumption
  <2>. QED
    BY <2>1, <2>2, Facts DEF Timer
<1>3. now + cd \in Nat /\ 1 \in Caps
  BY Facts, ConstantsAssumption
<1>4. /\ f \in Gate /\ f.maxConcurrency \in Caps /\ Present(f)
      /\ f.running = gate.running /\ f.queue = gate.queue
  <2>1. CASE Present(gate)
    BY <2>1, Facts
  <2>2. CASE ~Present(gate)
    <3>1. gate.queue = << >> /\ gate.running = 0
      BY <2>2, Facts DEF GateOK
    <3>2. f = NewGate(1)
      BY <2>2
    <3>. QED
      BY <1>3, <3>1, <3>2, NewGateOK DEF GateOK
  <2>. QED
    BY <2>1, <2>2
<1> HIDE DEF f
<1>5. PICK u \in Nat : u = now + cd
  BY <1>3
<1>6. gate' = [f EXCEPT !.cleanupTimer = "null", !.blockedUntil = u]
  BY <1>1, <1>5
<1>7. /\ gate' \in Gate /\ gate'.running = f.running /\ gate'.queue = f.queue
      /\ gate'.maxConcurrency = f.maxConcurrency /\ gate'.blockedUntil = u
      /\ gate'.entry = f.entry
  BY <1>4, <1>6 DEF Gate
<1>8. Present(gate') /\ gate'.maxConcurrency \in Caps
  BY <1>4, <1>7 DEF Present
<1>9. Consistent(gate', awaiting', holding', resets')
  BY <1>1, <1>4, <1>7, <1>8, SameCounts DEF IInv
<1>10. cooldown' = u /\ now' \in Nat
  BY <1>1, <1>5, Facts
<1>. QED
  BY <1>1, <1>2, <1>7, <1>8, <1>9, <1>10, Facts, Reestablish

\* A gate whose block is dropped.
LEMMA Unblocked ==
  ASSUME IInv, Present(gate)
  PROVE  /\ Consistent([gate EXCEPT !.blockedUntil = 0], awaiting, holding, resets)
         /\ Present([gate EXCEPT !.blockedUntil = 0])
<1> DEFINE g == [gate EXCEPT !.blockedUntil = 0]
<1>1. /\ g \in Gate /\ g.running = gate.running /\ g.queue = gate.queue
      /\ g.maxConcurrency = gate.maxConcurrency /\ g.entry = gate.entry
  BY Facts DEF Gate
<1>2. Present(g) /\ g.maxConcurrency \in Caps
  BY <1>1, Facts DEF Present
<1> HIDE DEF g
<1>3. Consistent(g, awaiting, holding, resets)
  BY <1>1, <1>2, SameCounts DEF IInv
<1>. QED
  BY <1>2, <1>3 DEF g

\* markBlocked without a cooldown lifts the block and drains the queue.
LEMMA LiftBlockStep ==
  ASSUME IInv, LiftBlock
  PROVE  /\ IInv'
         /\ NewHolders # {} => gate'.running <= gate'.maxConcurrency /\ now >= cooldown'
<1> DEFINE g == [gate EXCEPT !.blockedUntil = 0]
<1>1. /\ Present(gate)
      /\ gate' = DrainQueue(g)
      /\ holding' = holding \cup Admitted(g)
      /\ awaiting' = awaiting \ Admitted(g)
      /\ cooldown' = 0
      /\ UNCHANGED <<now, unblockTimers, bypassing, resets>>
  BY DEF LiftBlock
<1>2. Consistent(g, awaiting, holding, resets) /\ Present(g)
  BY <1>1, Unblocked
<1> HIDE DEF g
<1>3. gate' \in Gate /\ Present(gate')
  BY <1>1, <1>2, DrainEffect, Facts DEF Consistent, GateOK
<1>4. ~(now < cooldown') /\ cooldown' \in Nat
  BY <1>1, Facts
<1>5. NewHolders \subseteq Admitted(g)
  BY <1>1 DEF NewHolders
<1>6. /\ IInv'
      /\ Admitted(g) # {} => gate'.running <= gate'.maxConcurrency /\ now >= cooldown'
  BY <1>1, <1>2, <1>3, <1>4, DrainStep, Facts
<1>. QED
  BY <1>5, <1>6

\* The unblock timer drains the queue only once the block in force is over.
LEMMA UnblockTimerStep ==
  ASSUME IInv, NEW t \in unblockTimers, UnblockTimerFires(t)
  PROVE  /\ IInv'
         /\ NewHolders # {} => gate'.running <= gate'.maxConcurrency /\ now >= cooldown'
<1>1. /\ unblockTimers' \subseteq Timer
      /\ UNCHANGED <<now, bypassing, cooldown, resets>>
  BY Facts DEF UnblockTimerFires
<1>2. CASE Present(gate) /\ gate.blockedUntil # 0 /\ now >= gate.blockedUntil
  <2> DEFINE g == [gate EXCEPT !.blockedUntil = 0]
  <2>1. /\ gate' = ScheduleCleanupIfIdle(DrainQueue(g))
        /\ holding' = holding \cup Admitted(g)
        /\ awaiting' = awaiting \ Admitted(g)
    BY <1>2 DEF UnblockTimerFires
  <2>2. Consistent(g, awaiting, holding, resets) /\ Present(g)
    BY <1>2, Unblocked
  <2> HIDE DEF g
  <2> DEFINE d == DrainQueue(g)
  <2>3. d \in Gate /\ Present(d)
    BY <2>2, DrainEffect, Facts DEF Consistent, GateOK
  <2> HIDE DEF d
  <2>4. gate' = ScheduleCleanupIfIdle(d)
    BY <2>1 DEF d
  <2>5. /\ gate' \in Gate /\ gate'.running = d.running /\ gate'.queue = d.queue
        /\ gate'.maxConcurrency = d.maxConcurrency /\ gate'.blockedUntil = d.blockedUntil
        /\ gate'.entry = d.entry
    BY <2>3, <2>4 DEF ScheduleCleanupIfIdle, Gate
  <2>6. Present(gate')
    BY <2>3, <2>5 DEF Present
  <2>7. ~(now < cooldown') /\ cooldown' \in Nat
    BY <1>1, <1>2, Facts DEF IInv, CooldownIsWritten
  <2>8. NewHolders \subseteq Admitted(g)
    BY <2>1 DEF NewHolders
  <2>9. /\ IInv'
        /\ Admitted(g) # {} => gate'.running <= gate'.maxConcurrency /\ now >= cooldown'
    BY <1>1, <2>1, <2>2, <2>5, <2>6, <2>7, DrainStep, Facts DEF d
  <2>. QED
    BY <2>8, <2>9
<1>3. CASE ~(Present(gate) /\ gate.blockedUntil # 0 /\ now >= gate.blockedUntil)
  <2>1. UNCHANGED <<gate, holding, awaiting>>
    BY <1>3 DEF UnblockTimerFires
  <2>2. IInv'
    BY <1>1, <2>1 DEF IInv, TypeOK, Consistent, CooldownIsWritten
  <2>3. NewHolders = {}
    BY <2>1 DEF NewHolders
  <2>. QED
    BY <2>2, <2>3
<1>. QED
  BY <1>2, <1>3

\* The cleanup timer deletes only a gate without slots, waiters and block.
LEMMA CleanupTimerStep ==
  ASSUME IInv, CleanupTimerFires
  PROVE  IInv'
<1> DEFINE g == [gate EXCEPT !.cleanupTimer = "null"]
<1>1. /\ gate' = CleanupGateIfIdle(g)
      /\ UNCHANGED <<now, unblockTimers, awaiting, holding, bypassing, cooldown, resets>>
  BY DEF CleanupTimerFires
<1>2. /\ g \in Gate /\ g.running = gate.running /\ g.queue = gate.queue
      /\ g.maxConcurrency = gate.maxConcurrency /\ g.entry = gate.entry
      /\ g.blockedUntil = gate.blockedUntil
  BY Facts DEF Gate
<1>3. gate.running \in Nat /\ g.maxConcurrency \in Caps
  BY <1>2, Facts
<1> HIDE DEF g
<1>4. CASE gate' = g
  <2>1. Present(g) \/ (gate.queue = << >> /\ gate.running = 0)
    BY <1>2, Facts DEF GateOK, Present
  <2>2. Consistent(gate', awaiting', holding', resets')
    BY <1>1, <1>2, <1>3, <1>4, <2>1, SameCounts DEF IInv
  <2>3. now' < cooldown' => Present(gate') /\ gate'.blockedUntil = cooldown'
    BY <1>1, <1>2, <1>4 DEF IInv, CooldownIsWritten, Present
  <2>. QED
    BY <1>1, <2>2, <2>3, Facts, Reestablish
<1>5. CASE gate' # g
  <2>1. gate' = NoGate /\ ~(g.running > 0) /\ g.queue = << >> /\ ~IsBlocked(g)
    BY <1>1, <1>5 DEF CleanupGateIfIdle
  <2>2. gate.running = 0 /\ gate.queue = << >>
    BY <1>2, <1>3, <2>1
  <2>3. Consistent(gate', awaiting', holding', resets')
    <3>1. /\ NoGate \in Gate /\ NoGate.maxConcurrency \in Caps
          /\ NoGate.running = 0 /\ NoGate.queue = << >>
      BY NoGateOK DEF GateOK
    <3>. QED
      BY <1>1, <2>1, <2>2, <3>1, SameCounts DEF IInv
  <2>4. ~(now' < cooldown')
    BY <1>1, <1>2, <2>1, Facts DEF IInv, CooldownIsWritten, IsBlocked
  <2>. QED
    BY <1>1, <2>3, <2>4, Facts, Reestablish
<1>. QED
  BY <1>4, <1>5

\* The router's probe forgets only a block that is over.
LEMMA ProbeStep ==
  ASSUME IInv, NEW max \in Caps, IsAccountSemaphoreFull(max)
  PROVE  IInv'
<1>1. /\ Present(gate)
      /\ gate' = ForgetExpiredBlock(gate)
      /\ UNCHANGED <<now, unblockTimers, awaiting, holding, bypassing, cooldown, resets>>
  BY DEF IsAccountSemaphoreFull
<1>2. /\ gate' \in Gate /\ gate'.running = gate.running /\ gate'.queue = gate.queue
      /\ gate'.maxConcurrency = gate.maxConcurrency /\ gate'.entry = gate.entry
      /\ now < gate.blockedUntil => gate'.blockedUntil = gate.blockedUntil
  <2>1. PICK b \in Nat : b = IF now >= gate.blockedUntil THEN 0 ELSE gate.blockedUntil
    BY Facts
  <2>2. gate' = [gate EXCEPT !.blockedUntil = b]
    BY <1>1, <2>1 DEF ForgetExpiredBlock
  <2>3. gate \in Gate
    BY Facts
  <2>4. /\ gate' \in Gate /\ gate'.running = gate.running /\ gate'.queue = gate.queue
        /\ gate'.maxConcurrency = gate.maxConcurrency /\ gate'.entry = gate.entry
        /\ gate'.blockedUntil = b
    BY <2>2, <2>3 DEF Gate
  <2>. QED
    BY <2>1, <2>4, Facts
<1>3. Present(gate') /\ gate'.maxConcurrency \in Caps
  BY <1>1, <1>2, Facts DEF Present
<1>4. Consistent(gate', awaiting', holding', resets')
  BY <1>1, <1>2, <1>3, SameCounts DEF IInv
<1>5. now' < cooldown' => Present(gate') /\ gate'.blockedUntil = cooldown'
  BY <1>1, <1>2, <1>3 DEF IInv, CooldownIsWritten
<1>. QED
  BY <1>1, <1>4, <1>5, Facts, Reestablish

\* reset turns the waiters away and forgets at most one cap's worth of holders.
LEMMA ResetStep ==
  ASSUME IInv, Reset
  PROVE  IInv'
<1>1. /\ gate' = NoGate
      /\ awaiting' = awaiting \ Entries(gate.queue)
      /\ cooldown' = 0
      /\ resets' = resets + 1
      /\ UNCHANGED <<now, unblockTimers, holding, bypassing>>
  BY DEF Reset
<1>2. awaiting' = {} /\ Entries(gate'.queue) = {} /\ gate'.running = 0 /\ GateOK(gate')
  BY <1>1, NoGateOK, Facts DEF Entries
<1>3. Cardinality(holding) <= MaxCap * resets'
  <2>1. /\ gate.running <= MaxCap
        /\ Cardinality(holding) <= gate.running + MaxCap * resets
    BY DEF IInv, Consistent, GateOK
  <2>2. /\ gate.running \in Nat /\ Cardinality(holding) \in Nat /\ MaxCap * resets \in Nat
        /\ MaxCap \in Nat /\ resets \in Nat
    BY Facts
  <2>3. MaxCap * (resets + 1) = MaxCap * resets + MaxCap
    BY <2>2
  <2>. QED
    BY <1>1, <2>1, <2>2, <2>3
<1>4. Cardinality(holding) \in Nat /\ resets' \in Nat /\ MaxCap * resets' \in Nat
  BY <1>1, Facts
<1>5. Consistent(gate', awaiting', holding', resets')
  BY <1>1, <1>2, <1>3, <1>4, Facts DEF Consistent
<1>6. ~(now' < cooldown') /\ cooldown' \in Nat
  BY <1>1, Facts
<1>. QED
  BY <1>1, <1>4, <1>5, <1>6, Facts, Reestablish

-----------------------------------------------------------------------------
(* The invariant and the properties.                                       *)

\* What every step preserves, and what it may do only within the cap and after
\* the cooldown.
AdmissionOK ==
    NewHolders # {} => gate'.running <= gate'.maxConcurrency /\ now >= cooldown'

\* The empty map satisfies the invariant.
LEMMA InitEstablishes == Init => IInv
<1> SUFFICES ASSUME Init PROVE IInv
  OBVIOUS
<1>1. GateOK(gate) /\ gate.queue = << >> /\ gate.running = 0 /\ gate.maxConcurrency \in Caps
  BY NoGateOK, ConstantsAssumption DEF Init
<1>2. Cardinality(holding) = 0 /\ holding = {} /\ awaiting = {} /\ resets = 0
  BY FS_EmptySet DEF Init
<1>3. MaxCap * resets = 0
  BY <1>2, ConstantsAssumption
<1>4. Entries(gate.queue) = {}
  BY <1>1 DEF Entries
<1>5. Consistent(gate, awaiting, holding, resets)
  BY <1>1, <1>2, <1>3, <1>4 DEF Consistent
<1>6. TypeOK
  BY <1>1 DEF Init, TypeOK, GateOK
<1>7. CooldownIsWritten
  BY DEF Init, CooldownIsWritten
<1>. QED
  BY <1>5, <1>6, <1>7 DEF IInv

\* Every call and every timer preserves the invariant and admits only within
\* the cap and after the cooldown.
LEMMA StepPreserves == IInv /\ [Next]_vars => IInv' /\ AdmissionOK
<1> SUFFICES ASSUME IInv, [Next]_vars PROVE IInv' /\ AdmissionOK
  OBVIOUS
<1> USE DEF AdmissionOK
<1>1. ASSUME NEW r \in Req, AcquireBypassed(r)
      PROVE  IInv' /\ AdmissionOK
  BY <1>1 DEF AcquireBypassed, IInv, TypeOK, Consistent, CooldownIsWritten, NewHolders
<1>2. ASSUME NEW r \in Req, NEW max \in Caps, AcquireSlot(r, max)
      PROVE  IInv' /\ AdmissionOK
  BY <1>2, AcquireSlotStep DEF AcquireSlot
<1>3. ASSUME NEW r \in Req, NEW max \in Caps, AcquireRejected(r, max)
      PROVE  IInv' /\ AdmissionOK
  BY <1>3, AcquireRejectedStep DEF AcquireRejected, NewHolders
<1>4. ASSUME NEW r \in Req, NEW max \in Caps, AcquireQueued(r, max)
      PROVE  IInv' /\ AdmissionOK
  BY <1>4, AcquireQueuedStep DEF AcquireQueued, Enqueue, NewHolders
<1>5. ASSUME NEW r \in Req, LeaveQueue(r)
      PROVE  IInv' /\ AdmissionOK
  BY <1>5, LeaveQueueStep DEF LeaveQueue, NewHolders
<1>6. ASSUME NEW r \in Req, ReleaseNoop(r)
      PROVE  IInv' /\ AdmissionOK
  BY <1>6 DEF ReleaseNoop, IInv, TypeOK, Consistent, CooldownIsWritten, NewHolders
<1>7. ASSUME NEW r \in Req, Release(r)
      PROVE  IInv' /\ AdmissionOK
  BY <1>7, ReleaseStep
<1>8. ASSUME NEW cd \in Cooldowns, MarkBlocked(cd)
      PROVE  IInv' /\ AdmissionOK
  BY <1>8, MarkBlockedStep DEF MarkBlocked, NewHolders
<1>9. CASE LiftBlock
  BY <1>9, LiftBlockStep
<1>10. ASSUME NEW t \in unblockTimers, UnblockTimerFires(t)
       PROVE  IInv' /\ AdmissionOK
  BY <1>10, UnblockTimerStep
<1>11. CASE CleanupTimerFires
  BY <1>11, CleanupTimerStep DEF CleanupTimerFires, NewHolders
<1>12. ASSUME NEW max \in Caps, IsAccountSemaphoreFull(max)
       PROVE  IInv' /\ AdmissionOK
  BY <1>12, ProbeStep DEF IsAccountSemaphoreFull, NewHolders
<1>13. CASE Reset
  BY <1>13, ResetStep DEF Reset, NewHolders
<1>14. CASE Tick
  <2>1. /\ now' = now + 1
        /\ UNCHANGED <<gate, unblockTimers, awaiting, holding, bypassing, cooldown, resets>>
    BY <1>14 DEF Tick
  <2>2. now' < cooldown' => now < cooldown
    BY <2>1, Facts
  <2>3. now' < cooldown' => Present(gate') /\ gate'.blockedUntil = cooldown'
    BY <2>1, <2>2 DEF IInv, CooldownIsWritten
  <2>4. Consistent(gate', awaiting', holding', resets')
    BY <2>1 DEF IInv, Consistent
  <2>5. IInv'
    BY <2>1, <2>3, <2>4, Facts, Reestablish
  <2>. QED
    BY <2>1, <2>5 DEF NewHolders
<1>15. CASE UNCHANGED vars
  BY <1>15 DEF vars, IInv, TypeOK, Consistent, CooldownIsWritten, NewHolders
<1>. QED
  BY <1>1, <1>2, <1>3, <1>4, <1>5, <1>6, <1>7, <1>8, <1>9, <1>10, <1>11, <1>12,
     <1>13, <1>14, <1>15 DEF Next, QueueTimeout, AbortWaiting

\* The inductive invariant holds in every reachable state.
LEMMA Invariance == Spec => []IInv
  BY InitEstablishes, StepPreserves, PTL DEF Spec

\* Every value the gate, the clock and the timers take has its type, whatever
\* the callers do.
THEOREM TypeCorrect == Spec => []TypeOK
<1>1. IInv => TypeOK
  BY DEF IInv
<1>. QED
  BY <1>1, Invariance, PTL

\* The gate counts its holders exactly until a reset, and misses at most one
\* cap's worth of them for each reset.
THEOREM SlotsAccounted == Spec => []SlotAccounting
<1>1. IInv => SlotAccounting
  BY DEF IInv, Consistent, SlotAccounting
<1>. QED
  BY <1>1, Invariance, PTL

\* No acquire promise is lost and no entry outlives its caller.
THEOREM NoLostWaiter == Spec => []WaitersAreQueued
<1>1. IInv => WaitersAreQueued
  <2> SUFFICES ASSUME IInv PROVE WaitersAreQueued
    OBVIOUS
  <2>1. /\ gate.queue \in Seq(Req) /\ Len(gate.queue) \in Nat /\ NoDuplicates(gate.queue)
        /\ awaiting = Entries(gate.queue)
        /\ ~Present(gate) => gate.queue = << >>
    BY Facts DEF GateOK
  <2>2. Len(gate.queue) \in 0..Len(gate.queue)
    BY <2>1
  <2>3. Cardinality(Entries(gate.queue)) = Len(gate.queue)
    BY <2>1, <2>2, PrefixCardinality DEF Entries
  <2>. QED
    BY <2>1, <2>3 DEF WaitersAreQueued
<1>. QED
  BY <1>1, Invariance, PTL

\* The queue never outgrows its limit.
THEOREM QueueStaysBounded == Spec => []QueueBounded
<1>1. IInv => QueueBounded
  BY DEF IInv, Consistent, GateOK, QueueBounded
<1>. QED
  BY <1>1, Invariance, PTL

\* Every admission leaves the gate within the cap in force.
THEOREM AdmissionsWithinCap == Spec => AdmissionWithinCap
<1>1. IInv /\ [Next]_vars => [NewHolders # {} => gate'.running <= gate'.maxConcurrency]_vars
  BY StepPreserves DEF AdmissionOK
<1>. QED
  BY <1>1, Invariance, PTL DEF Spec, AdmissionWithinCap

\* Nobody is admitted before the cooldown of the last markBlocked is over.
THEOREM CooldownsHonoured == Spec => CooldownHonoured
<1>1. IInv /\ [Next]_vars => [NewHolders # {} => now >= cooldown']_vars
  BY StepPreserves DEF AdmissionOK
<1>. QED
  BY <1>1, Invariance, PTL DEF Spec, CooldownHonoured

\* FifoAmongWaiters, for one step.
InOrder ==
  \A i, j \in 1..Len(gate.queue) :
     i < j /\ gate.queue[j] \in NewHolders => gate.queue[i] \in holding'

\* A step that lets nobody of the queue in keeps the order.
LEMMA NobodyQueuedAdmitted ==
  ASSUME IInv, NewHolders \cap awaiting = {}
  PROVE  InOrder
<1>1. \A j \in 1..Len(gate.queue) : gate.queue[j] \in awaiting
  BY Facts DEF Entries
<1> QED
  BY <1>1 DEF InOrder

\* Draining a gate with this queue lets a prefix of it in.
LEMMA DrainInOrder ==
  ASSUME IInv, NEW g, g.queue = gate.queue, g.running \in Nat, g.maxConcurrency \in Nat,
         Admitted(g) \subseteq holding', holding' \subseteq holding \cup Admitted(g)
  PROVE  InOrder
<1>1. /\ Len(gate.queue) \in Nat
      /\ \A i, j \in 1..Len(gate.queue) : gate.queue[i] = gate.queue[j] => i = j
  BY Facts DEF GateOK, NoDuplicates
<1>2. Admittable(g) \in 0..Len(gate.queue)
  BY <1>1 DEF Admittable
<1>3. ASSUME NEW i \in 1..Len(gate.queue), NEW j \in 1..Len(gate.queue),
             i < j, gate.queue[j] \in NewHolders
      PROVE  gate.queue[i] \in holding'
  <2>1. gate.queue[j] \in Admitted(g)
    BY <1>3 DEF NewHolders
  <2>2. PICK m \in 1..Admittable(g) : gate.queue[m] = gate.queue[j]
    BY <2>1 DEF Admitted
  <2>3. m = j
    BY <1>1, <1>2, <2>2
  <2>4. i \in 1..Admittable(g)
    BY <1>2, <1>3, <2>3
  <2> QED
    BY <2>4 DEF Admitted
<1> QED
  BY <1>3 DEF InOrder

\* The steps that drain the queue keep the order.
LEMMA DrainStepsInOrder ==
  ASSUME IInv, \/ \E r \in Req : Release(r)
               \/ LiftBlock
               \/ \E t \in unblockTimers : UnblockTimerFires(t)
  PROVE  InOrder
<1>1. /\ gate \in Gate /\ gate.running \in Nat /\ gate.maxConcurrency \in Nat
  BY Facts DEF Gate
<1>2. ASSUME NEW r \in Req, Release(r)
      PROVE  InOrder
  <2>1. CASE Present(gate)
    <3> DEFINE g == Released(gate)
    <3>1. r \in holding /\ holding' = (holding \ {r}) \cup Admitted(g)
      BY <1>2, <2>1 DEF Release, GiveBack
    <3>2. g.queue = gate.queue /\ g.maxConcurrency \in Nat
      BY <1>1 DEF Released, Gate
    <3>3. g.running \in Nat
      BY <1>1 DEF Released, Gate
    <3> HIDE DEF g
    <3> QED
      BY <3>1, <3>2, <3>3, DrainInOrder
  <2>2. CASE ~Present(gate)
    BY <1>2, <2>2, NobodyQueuedAdmitted DEF Release, GiveBack, NewHolders
  <2> QED
    BY <2>1, <2>2
<1>3. [gate EXCEPT !.blockedUntil = 0].queue = gate.queue
      /\ [gate EXCEPT !.blockedUntil = 0].running \in Nat
      /\ [gate EXCEPT !.blockedUntil = 0].maxConcurrency \in Nat
  BY <1>1 DEF Gate
<1>4. CASE LiftBlock
  BY <1>3, <1>4, DrainInOrder DEF LiftBlock
<1>5. ASSUME NEW t \in unblockTimers, UnblockTimerFires(t)
      PROVE  InOrder
  <2>1. CASE Present(gate) /\ gate.blockedUntil # 0 /\ now >= gate.blockedUntil
    <3>1. holding' = holding \cup Admitted([gate EXCEPT !.blockedUntil = 0])
      BY <1>5, <2>1 DEF UnblockTimerFires
    <3> QED
      BY <1>3, <3>1, DrainInOrder
  <2>2. CASE ~(Present(gate) /\ gate.blockedUntil # 0 /\ now >= gate.blockedUntil)
    BY <1>5, <2>2, NobodyQueuedAdmitted DEF UnblockTimerFires, NewHolders
  <2> QED
    BY <2>1, <2>2
<1> QED
  BY <1>2, <1>4, <1>5

\* Whoever leaves the queue with a slot leaves together with everyone queued
\* before, though the fast path of acquire does not look at the queue.
THEOREM WaitersServedInOrder == Spec => FifoAmongWaiters
<1>1. IInv /\ [Next]_vars => [InOrder]_vars
  <2> SUFFICES ASSUME IInv, Next PROVE InOrder
    OBVIOUS
  <2>1. ASSUME NEW r \in Req, NEW max \in Caps, AcquireSlot(r, max)
        PROVE  InOrder
    BY <2>1, NobodyQueuedAdmitted DEF AcquireSlot, Idle, NewHolders
  <2>2. CASE \/ \E r \in Req : Release(r)
             \/ LiftBlock
             \/ \E t \in unblockTimers : UnblockTimerFires(t)
    BY <2>2, DrainStepsInOrder
  <2>3. CASE UNCHANGED holding
    BY <2>3, NobodyQueuedAdmitted DEF NewHolders
  <2> QED
    BY <2>1, <2>2, <2>3
    DEF Next, AcquireBypassed, AcquireRejected, AcquireQueued, Enqueue, QueueTimeout,
        AbortWaiting, LeaveQueue, ReleaseNoop, MarkBlocked, CleanupTimerFires,
        IsAccountSemaphoreFull, Reset, Tick
<1>. QED
  BY <1>1, Invariance, PTL DEF Spec, FifoAmongWaiters, InOrder

-----------------------------------------------------------------------------
(* The gate implements ConcurrencyGate.                                    *)

\* The slots in use fit the abstract budget.
LEMMA WithinBudget ==
  ASSUME IInv
  PROVE  Cardinality(holding) <= MaxCap * (1 + resets)
<1>1. /\ gate.running <= MaxCap
      /\ Cardinality(holding) <= gate.running + MaxCap * resets
  BY DEF IInv, Consistent, GateOK
<1>2. /\ gate.running \in Nat /\ Cardinality(holding) \in Nat
      /\ MaxCap \in Nat /\ resets \in Nat /\ MaxCap * resets \in Nat
  BY Facts
<1>3. MaxCap * (1 + resets) = MaxCap + MaxCap * resets
  BY <1>2
<1>. QED
  BY <1>1, <1>2, <1>3

\* A step that drains the queue after the caller set gone (one holder or
\* nobody) has left: the abstract admission.
LEMMA AbstractAdmission ==
  ASSUME IInv, IInv', AdmissionOK, resets' = resets, now' = now, NEW A, NEW gone,
         A \cap holding = {}, holding' = (holding \ gone) \cup A
  PROVE  CG!Admit(A, gone)
<1>1. A # {} => NewHolders # {}
  BY DEF NewHolders
<1>2. A # {} => now >= cooldown'
  BY <1>1 DEF AdmissionOK
<1>3. now' \in Nat /\ cooldown' \in Nat /\ now \in Nat
  BY Facts DEF IInv, TypeOK
<1>4. Cardinality(holding') <= MaxCap * (1 + resets)
  <2>1. (Cardinality(holding) <= MaxCap * (1 + resets))'
    BY WithinBudget, PTL
  <2>. QED
    BY <2>1
<1>5. A # {} => ~(now' < cooldown')
  BY <1>2, <1>3
<1>. QED
  BY <1>4, <1>5, Zenon DEF CG!Admit, CG!Cardinality, Cardinality

\* Every step of the gate is a step of ConcurrencyGate or changes nothing that
\* ConcurrencyGate sees.
LEMMA StepSimulation ==
  ASSUME IInv, [Next]_vars
  PROVE  CG!Next \/ UNCHANGED CG!vars
<1>1. IInv' /\ AdmissionOK
  BY StepPreserves
<1>2. /\ now \in Nat /\ cooldown \in Nat /\ resets \in Nat /\ MaxCap \in Nat
      /\ awaiting = Entries(gate.queue) /\ awaiting \cap holding = {}
  BY Facts DEF IInv, Consistent
<1>3. ASSUME UNCHANGED <<awaiting, holding, now, cooldown, resets>>
      PROVE  UNCHANGED CG!vars
  BY <1>3 DEF CG!vars
<1>4. ASSUME NEW r \in Req, NEW max \in Caps, AcquireSlot(r, max)
      PROVE  CG!Next
  <2>1. /\ r \notin awaiting /\ r \notin holding /\ holding' = holding \cup {r}
        /\ UNCHANGED <<now, awaiting, cooldown, resets>>
    BY <1>4 DEF AcquireSlot, Idle
  <2>2. {r} \cap holding = {} /\ holding' = (holding \ {}) \cup {r}
    BY <2>1
  <2>3. CG!Admit({r}, {})
    BY <1>1, <2>1, <2>2, AbstractAdmission
  <2>4. CG!Enter(r)
    BY <2>1, <2>3 DEF CG!Enter
  <2>. QED
    BY <2>4 DEF CG!Next
<1>5. ASSUME NEW r \in Req, NEW max \in Caps, AcquireQueued(r, max)
      PROVE  CG!Next
  <2>1. CG!Wait(r)
    BY <1>5 DEF AcquireQueued, Enqueue, Idle, CG!Wait
  <2>. QED
    BY <2>1 DEF CG!Next
<1>6. ASSUME NEW r \in Req, LeaveQueue(r)
      PROVE  CG!Next
  <2>1. CG!GiveUp(r)
    BY <1>6 DEF LeaveQueue, CG!GiveUp
  <2>. QED
    BY <2>1 DEF CG!Next
<1>7. ASSUME NEW r \in Req, Release(r)
      PROVE  CG!Next
  <2>1. r \in holding /\ UNCHANGED <<now, cooldown, resets>>
    BY <1>7 DEF Release, GiveBack
  <2>2. PICK A \in SUBSET awaiting :
          holding' = (holding \ {r}) \cup A /\ awaiting' = awaiting \ A
    <3>1. CASE Present(gate)
      <4> DEFINE B == Admitted(Released(gate))
      <4>1. /\ holding' = (holding \ {r}) \cup B
            /\ awaiting' = awaiting \ B
        BY <1>7, <3>1 DEF Release, GiveBack
      <4>2. holding' = (holding \ {r}) \cup (B \cap awaiting)
        <5>1. B \subseteq awaiting
          <6>1. PICK n \in Nat : n = IF gate.running > 0 THEN gate.running - 1 ELSE 0
            BY Facts
          <6>2. Released(gate) = [gate EXCEPT !.running = n]
            BY <6>1 DEF Released
          <6>3. gate \in Gate /\ gate.running <= MaxCap
            BY Facts DEF GateOK
          <6>4. /\ Released(gate) \in Gate /\ Released(gate).queue = gate.queue
                /\ Released(gate).running = n /\ Released(gate).entry = gate.entry
                /\ Released(gate).maxConcurrency = gate.maxConcurrency
            BY <6>2, <6>3 DEF Gate
          <6>5. n <= MaxCap
            BY <6>1, <6>3, Facts
          <6>6. Present(Released(gate))
            BY <3>1, <6>4 DEF Present
          <6>7. GateOK(Released(gate))
            BY <6>4, <6>5, <6>6, Facts, Zenon DEF GateOK
          <6>. QED
            BY <6>4, <6>7, <1>2, AdmittedCallers
        <5>. QED
          BY <4>1, <5>1
      <4>. QED
        BY <4>1, <4>2
    <3>2. CASE ~Present(gate)
      <4>1. holding' = (holding \ {r}) \cup {} /\ awaiting' = awaiting \ {}
        BY <1>7, <3>2 DEF Release, GiveBack
      <4>. QED
        BY <4>1
    <3>. QED
      BY <3>1, <3>2
  <2>3. A \cap holding = {}
    BY <1>2
  <2>4. CG!Admit(A, {r})
    BY <1>1, <2>1, <2>2, <2>3, AbstractAdmission
  <2>5. CG!Finish(r, A)
    BY <2>1, <2>2, <2>4 DEF CG!Finish
  <2>. QED
    BY <2>5 DEF CG!Next
<1>8. ASSUME NEW cd \in Cooldowns, MarkBlocked(cd)
      PROVE  CG!Next
  <2>1. now' < cooldown'
    BY <1>2, <1>8, ConstantsAssumption DEF MarkBlocked
  <2>2. CG!Cool
    BY <1>8, <2>1 DEF MarkBlocked, CG!Cool
  <2>. QED
    BY <2>2 DEF CG!Next
<1>9. ASSUME NEW A \in SUBSET awaiting, holding' = holding \cup A, awaiting' = awaiting \ A,
             now' = now, resets' = resets, ~(now' < cooldown')
      PROVE  CG!Next
  <2>1. A \cap holding = {} /\ holding' = (holding \ {}) \cup A
    BY <1>2, <1>9
  <2>2. CG!Admit(A, {})
    BY <1>1, <1>9, <2>1, AbstractAdmission
  <2>3. CG!Resume(A)
    BY <1>9, <2>2 DEF CG!Resume
  <2>. QED
    BY <2>3 DEF CG!Next
<1>10. ASSUME Present(gate)
       PROVE  Admitted([gate EXCEPT !.blockedUntil = 0]) \subseteq awaiting
  BY <1>10, Unblocked, AdmittedCallers, <1>2 DEF Consistent
<1>11. CASE LiftBlock
  <2>1. ~(now' < cooldown')
    BY <1>2, <1>11 DEF LiftBlock
  <2>. QED
    BY <1>9, <1>10, <1>11, <2>1 DEF LiftBlock
<1>12. ASSUME NEW t \in unblockTimers, UnblockTimerFires(t)
       PROVE  CG!Next \/ UNCHANGED CG!vars
  <2>1. CASE Present(gate) /\ gate.blockedUntil # 0 /\ now >= gate.blockedUntil
    <3>1. now' = now /\ cooldown' = cooldown /\ resets' = resets
      BY <1>12 DEF UnblockTimerFires
    <3>2. ~(now' < cooldown')
      BY <1>2, <2>1, <3>1, Facts DEF IInv, CooldownIsWritten
    <3>. QED
      BY <1>9, <1>10, <1>12, <2>1, <3>1, <3>2 DEF UnblockTimerFires
  <2>2. CASE ~(Present(gate) /\ gate.blockedUntil # 0 /\ now >= gate.blockedUntil)
    BY <1>3, <1>12, <2>2 DEF UnblockTimerFires
  <2>. QED
    BY <2>1, <2>2
<1>13. CASE Reset
  <2>1. awaiting' = {} /\ holding' = holding /\ resets' = resets + 1 /\ now' = now /\ cooldown' = 0
    BY <1>2, <1>13 DEF Reset
  <2>2. ~(now' < cooldown')
    BY <1>2, <2>1
  <2>3. MaxCap * (1 + resets') = MaxCap * (1 + resets) + MaxCap
    BY <1>2, <2>1
  <2>4. CG!WriteOff
    BY <2>1, <2>2, <2>3 DEF CG!WriteOff
  <2>. QED
    BY <2>4 DEF CG!Next
<1>14. CASE Tick
  <2>1. now' = now + 1 /\ UNCHANGED <<awaiting, holding, cooldown, resets>>
    BY <1>14 DEF Tick
  <2>2. CASE (now' < cooldown') = (now < cooldown)
    BY <2>1, <2>2 DEF CG!vars
  <2>3. CASE (now' < cooldown') # (now < cooldown)
    <3>1. ~(now' < cooldown')
      BY <1>2, <2>1, <2>3
    <3>2. CG!Admit({}, {})
      BY <2>1 DEF CG!Admit
    <3>3. CG!Resume({})
      BY <2>1, <3>1, <3>2 DEF CG!Resume
    <3>. QED
      BY <3>3 DEF CG!Next
  <2>. QED
    BY <2>2, <2>3
<1>15. CASE \E r \in Req : AcquireBypassed(r) \/ ReleaseNoop(r)
  BY <1>3, <1>15 DEF AcquireBypassed, ReleaseNoop
<1>16. CASE \/ \E r \in Req, max \in Caps : AcquireRejected(r, max)
            \/ \E max \in Caps : IsAccountSemaphoreFull(max)
            \/ CleanupTimerFires
  BY <1>3, <1>16 DEF AcquireRejected, IsAccountSemaphoreFull, CleanupTimerFires
<1>17. CASE UNCHANGED vars
  BY <1>3, <1>17 DEF vars
<1>. QED
  BY <1>4, <1>5, <1>6, <1>7, <1>8, <1>11, <1>12, <1>13, <1>14, <1>15, <1>16, <1>17
     DEF Next, QueueTimeout, AbortWaiting

\* The account gate implements ConcurrencyGate: never more holders than slots,
\* nobody admitted while the account cools down, for every number of callers,
\* every caps and every order of calls, timers and resets.
THEOREM Implementation == Spec => ImplementsConcurrencyGate
<1>1. Init => CG!Init
  <2> SUFFICES ASSUME Init PROVE CG!Init
    OBVIOUS
  <2>1. ~(now < cooldown) /\ MaxCap * (1 + resets) = MaxCap
    BY ConstantsAssumption DEF Init
  <2>. QED
    BY <2>1 DEF Init, CG!Init
<1>2. IInv /\ [Next]_vars => [CG!Next]_CG!vars
  BY StepSimulation
<1>. QED
  BY <1>1, <1>2, Invariance, PTL DEF Spec, ImplementsConcurrencyGate, CG!Spec
=============================================================================
