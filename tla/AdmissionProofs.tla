--------------------------- MODULE AdmissionProofs ---------------------------
(***************************************************************************)
(* The admission controller, proved for every set of requests, tenants and  *)
(* configurations: the books of its queues are in order and activeCost is   *)
(* the cost of the leases held (TypeOK), no request that fits waits at the  *)
(* head of the shared queue between two steps (NoFittingHeadWaits), every   *)
(* admission respects the budget and the capacity reserved for an aged head *)
(* (AdmissionsRespectBudget), and that head is served before anybody else   *)
(* (ReservedHeadIsServedFirst).                                             *)
(***************************************************************************)
EXTENDS Admission, QueueFacts

-----------------------------------------------------------------------------
(* Sequences.                                                               *)

\* A sequence's range and injectivity, as the facts about queues state them.
LEMMA AsQueue ==
  ASSUME NEW S, NEW q \in Seq(S)
  PROVE  Range(q) = Elements(q) /\ (IsInjective(q) <=> Distinct(q))
<1>1. DOMAIN q = 1..Len(q)
  OBVIOUS
<1> QED BY <1>1 DEF Range, IsInjective, Elements, Distinct

\* The empty sequence.
LEMMA EmptyRange ==
  ASSUME NEW S
  PROVE  << >> \in Seq(S) /\ Range(<< >>) = {} /\ IsInjective(<< >>)
  BY EmptyQueueFacts, AsQueue

\* A sequence without repetitions is as long as its range is large.
LEMMA SeqFacts ==
  ASSUME NEW S, NEW q \in Seq(S)
  PROVE  /\ Len(q) \in Nat
         /\ Range(q) \subseteq S
         /\ q = << >> <=> Len(q) = 0
         /\ q = << >> <=> Range(q) = {}
         /\ IsInjective(q) => IsFiniteSet(Range(q)) /\ Cardinality(Range(q)) = Len(q)
         /\ q # << >> => Head(q) \in Range(q) /\ Head(q) = q[1]
         /\ \A i \in 1..Len(q) : q[i] \in Range(q)
         /\ \A x \in Range(q) : \E i \in 1..Len(q) : q[i] = x
<1>1. q # << >> => Head(q) = q[1] /\ 1 \in 1..Len(q)
  OBVIOUS
<1>2. Range(q) = Elements(q) /\ (IsInjective(q) <=> Distinct(q))
  BY AsQueue
<1>3. /\ Len(q) \in Nat
      /\ Elements(q) \subseteq S
      /\ q = << >> <=> Len(q) = 0
      /\ q = << >> <=> Elements(q) = {}
      /\ Distinct(q) => IsFiniteSet(Elements(q)) /\ Cardinality(Elements(q)) = Len(q)
  BY ElementsFacts
<1>4. /\ \A i \in 1..Len(q) : q[i] \in Elements(q)
      /\ \A x \in Elements(q) : \E i \in 1..Len(q) : q[i] = x
  BY DEF Elements
<1> QED BY <1>1, <1>2, <1>3, <1>4

\* Append.
LEMMA AppendRange ==
  ASSUME NEW S, NEW q \in Seq(S), NEW x \in S
  PROVE  /\ Append(q, x) \in Seq(S)
         /\ Append(q, x) # << >>
         /\ Len(Append(q, x)) = Len(q) + 1
         /\ Range(Append(q, x)) = Range(q) \cup {x}
         /\ q # << >> => Head(Append(q, x)) = Head(q)
         /\ IsInjective(q) /\ x \notin Range(q) => IsInjective(Append(q, x))
<1>1. Append(q, x) \in Seq(S) /\ Range(q) = Elements(q) /\ (IsInjective(q) <=> Distinct(q))
  BY AsQueue
<1>2. /\ Range(Append(q, x)) = Elements(Append(q, x))
      /\ IsInjective(Append(q, x)) <=> Distinct(Append(q, x))
  BY <1>1, AsQueue
<1> QED BY <1>1, <1>2, AppendFacts

\* Tail.
LEMMA TailRange ==
  ASSUME NEW S, NEW q \in Seq(S), q # << >>, IsInjective(q)
  PROVE  /\ Tail(q) \in Seq(S)
         /\ Len(Tail(q)) = Len(q) - 1
         /\ IsInjective(Tail(q))
         /\ Range(Tail(q)) = Range(q) \ {Head(q)}
<1>1. Distinct(q) /\ Range(q) = Elements(q)
  BY AsQueue
<1>2. /\ Tail(q) \in Seq(S)
      /\ Len(Tail(q)) = Len(q) - 1
      /\ Distinct(Tail(q))
      /\ Elements(Tail(q)) = Elements(q) \ {Head(q)}
  BY <1>1, TailFacts
<1>3. /\ Range(Tail(q)) = Elements(Tail(q))
      /\ IsInjective(Tail(q)) <=> Distinct(Tail(q))
  BY <1>2, AsQueue
<1> QED BY <1>1, <1>2, <1>3

\* A suffix.
LEMMA DropRange ==
  ASSUME NEW S, NEW q \in Seq(S), IsInjective(q), NEW k \in 0..Len(q)
  PROVE  /\ SubSeq(q, k + 1, Len(q)) \in Seq(S)
         /\ IsInjective(SubSeq(q, k + 1, Len(q)))
         /\ Range(SubSeq(q, k + 1, Len(q))) = Range(q) \ {q[i] : i \in 1..k}
<1> DEFINE d == SubSeq(q, k + 1, Len(q))
<1>1. Distinct(q) /\ Range(q) = Elements(q)
  BY AsQueue
<1>2. d \in Seq(S) /\ Distinct(d) /\ Elements(d) = Elements(q) \ {q[i] : i \in 1..k}
  BY <1>1, DropFacts
<1> HIDE DEF d
<1>3. Range(d) = Elements(d) /\ (IsInjective(d) <=> Distinct(d))
  BY <1>2, AsQueue
<1>4. d \in Seq(S) /\ IsInjective(d) /\ Range(d) = Range(q) \ {q[i] : i \in 1..k}
  BY <1>1, <1>2, <1>3
<1> QED BY <1>4 DEF d

\* Two sequences one after the other.
LEMMA ConcatRange ==
  ASSUME NEW S, NEW p \in Seq(S), NEW q \in Seq(S)
  PROVE  /\ p \o q \in Seq(S)
         /\ Range(p \o q) = Range(p) \cup Range(q)
         /\ IsInjective(p) /\ IsInjective(q) /\ Range(p) \cap Range(q) = {} => IsInjective(p \o q)
<1> DEFINE c == p \o q
<1>1. c \in Seq(S) /\ Len(c) = Len(p) + Len(q) /\ Len(p) \in Nat /\ Len(q) \in Nat
  OBVIOUS
<1>2. \A i \in 1..Len(c) : c[i] = IF i <= Len(p) THEN p[i] ELSE q[i - Len(p)]
  OBVIOUS
<1> HIDE DEF c
<1>3. \A i \in 1..Len(c) : \/ i \in 1..Len(p) /\ c[i] = p[i]
                           \/ i - Len(p) \in 1..Len(q) /\ c[i] = q[i - Len(p)]
  BY <1>1, <1>2
<1>4. Range(c) \subseteq Range(p) \cup Range(q)
  <2>1. \A x \in Range(c) : \E i \in 1..Len(c) : c[i] = x
    BY <1>1, SeqFacts
  <2>2. \A i \in 1..Len(p) : p[i] \in Range(p)
    BY SeqFacts
  <2>3. \A i \in 1..Len(q) : q[i] \in Range(q)
    BY SeqFacts
  <2> QED BY <1>3, <2>1, <2>2, <2>3
<1>5. ASSUME NEW x \in Range(p) PROVE x \in Range(c)
  <2>1. PICK i \in 1..Len(p) : p[i] = x
    BY SeqFacts
  <2>2. i \in 1..Len(c) /\ c[i] = x
    BY <1>1, <1>2, <2>1
  <2> QED BY <1>1, <2>2, SeqFacts
<1>6. ASSUME NEW x \in Range(q) PROVE x \in Range(c)
  <2>1. PICK i \in 1..Len(q) : q[i] = x
    BY SeqFacts
  <2> DEFINE k == i + Len(p)
  <2>2. k \in 1..Len(c) /\ ~(k <= Len(p)) /\ k - Len(p) = i
    BY <1>1, <2>1
  <2> HIDE DEF k
  <2>3. c[k] = x
    BY <1>2, <2>1, <2>2
  <2> QED BY <1>1, <2>2, <2>3, SeqFacts
<1>7. ASSUME IsInjective(p), IsInjective(q), Range(p) \cap Range(q) = {}
      PROVE  IsInjective(c)
  <2>1. Distinct(p) /\ Distinct(q)
    BY <1>7, AsQueue
  <2>2. SUFFICES ASSUME NEW i \in 1..Len(c), NEW j \in 1..Len(c), c[i] = c[j] PROVE i = j
    BY <1>1, AsQueue DEF Distinct
  <2>3. \A k \in 1..Len(p) : p[k] \in Range(p)
    BY SeqFacts
  <2>4. \A k \in 1..Len(q) : q[k] \in Range(q)
    BY SeqFacts
  <2>5. CASE i \in 1..Len(p) /\ c[i] = p[i]
    <3>1. j \in 1..Len(p) /\ c[j] = p[j]
      BY <1>3, <1>7, <2>2, <2>3, <2>4, <2>5
    <3> QED BY <2>1, <2>2, <2>5, <3>1 DEF Distinct
  <2>6. CASE i - Len(p) \in 1..Len(q) /\ c[i] = q[i - Len(p)]
    <3>1. j - Len(p) \in 1..Len(q) /\ c[j] = q[j - Len(p)]
      BY <1>3, <1>7, <2>2, <2>3, <2>4, <2>6
    <3>2. i - Len(p) = j - Len(p)
      BY <2>1, <2>2, <2>6, <3>1 DEF Distinct
    <3> QED BY <1>1, <3>2
  <2> QED BY <1>3, <2>5, <2>6
<1> QED BY <1>1, <1>4, <1>5, <1>6, <1>7 DEF c

\* What Without keeps: the members that are not in G, once each if they were
\* there once, and a first one that is not in G.
LEMMA WithoutFacts ==
  ASSUME NEW S, NEW q \in Seq(S), NEW G
  PROVE  /\ Without(q, G) \in Seq(S)
         /\ Range(Without(q, G)) = Range(q) \ G
         /\ IsInjective(q) => IsInjective(Without(q, G))
         /\ q # << >> /\ Head(q) \notin G
              => Without(q, G) # << >> /\ Head(Without(q, G)) = Head(q)
<1> DEFINE L == Len(q)
           Turn(n, v) == IF q[n] \in G THEN v ELSE Append(v, q[n])
           step == [n \in 1..L |-> [v \in Seq(S) |-> Turn(n, v)]]
<1>1. L \in Nat /\ \A n \in 1..L : q[n] \in S
  OBVIOUS
<1>2. \A n \in 1..L : \A v \in Seq(S) : Turn(n, v) \in Seq(S)
  BY <1>1
<1>3. step \in [1..L -> [Seq(S) -> Seq(S)]]
  BY <1>2
<1>4. PICK f : RunsFrom(f, L, Seq(S), << >>, step)
  <2>1. << >> \in Seq(S)
    OBVIOUS
  <2> HIDE DEF L, step
  <2> QED BY <1>1, <1>3, <2>1, LoopRuns
<1>5. f = [n \in 0..L |-> IF n = 0 THEN << >> ELSE Turn(n, f[n - 1])]
  <2>1. f \in [0..L -> Seq(S)] /\ f[0] = << >>
    BY <1>4 DEF RunsFrom
  <2>2. ASSUME NEW n \in 1..L PROVE f[n] = Turn(n, f[n - 1])
    <3>1. f[n - 1] \in Seq(S)
      BY <1>1, <2>1
    <3>2. f[n] = step[n][f[n - 1]]
      BY <1>4 DEF RunsFrom
    <3> QED BY <3>1, <3>2
  <2> HIDE DEF Turn, L
  <2>3. \A n \in 0..L : f[n] = IF n = 0 THEN << >> ELSE Turn(n, f[n - 1])
    BY <1>1, <2>1, <2>2
  <2> QED BY <2>1, <2>3
<1> DEFINE kept[n \in 0 .. L] ==
             IF n = 0 THEN <<>>
             ELSE IF q[n] \in G THEN kept[n - 1] ELSE Append(kept[n - 1], q[n])
<1>6. kept = [n \in 0..L |-> IF n = 0 THEN << >> ELSE Turn(n, kept[n - 1])]
  BY <1>5
<1>7. Without(q, G) = kept[L]
  BY DEF Without
<1> HIDE DEF kept, step, Turn
<1>8. kept[0] = << >> /\ \A n \in 1..L : kept[n] = Turn(n, kept[n - 1])
  BY <1>1, <1>6
<1> DEFINE Seen(n) == {q[i] : i \in 1..n}
           P(n) == /\ kept[n] \in Seq(S)
                   /\ Range(kept[n]) = Seen(n) \ G
                   /\ IsInjective(q) => IsInjective(kept[n])
                   /\ n # 0 /\ q[1] \notin G => kept[n] # << >> /\ Head(kept[n]) = q[1]
           T == {n \in 0..L : P(n)}
<1>9. 0 \in T
  <2>1. kept[0] \in Seq(S) /\ Range(kept[0]) = {} /\ IsInjective(kept[0])
    BY <1>8, EmptyRange
  <2>2. Seen(0) = {}
    OBVIOUS
  <2> HIDE DEF Seen
  <2>3. P(0)
    BY <2>1, <2>2
  <2> QED BY <1>1, <2>3
<1>10. ASSUME NEW n \in 1..L, n - 1 \in T PROVE n \in T
  <2>1. P(n - 1) /\ n - 1 \in 0..L
    BY <1>10
  <2>2. Seen(n) = Seen(n - 1) \cup {q[n]}
    BY <1>1
  <2>3. kept[n] = IF q[n] \in G THEN kept[n - 1] ELSE Append(kept[n - 1], q[n])
    BY <1>8 DEF Turn
  <2>5. n = 1 => kept[n - 1] = << >>
    BY <1>8
  <2>6. IsInjective(q) => q[n] \notin Seen(n - 1)
    BY <1>1, AsQueue DEF Distinct
  <2> HIDE DEF Seen
  <2>7. CASE q[n] \in G
    BY <2>1, <2>2, <2>3, <2>5, <2>7
  <2>8. CASE q[n] \notin G
    <3>1. q[n] \in S /\ kept[n - 1] \in Seq(S) /\ kept[n] = Append(kept[n - 1], q[n])
      BY <1>1, <2>1, <2>3, <2>8
    <3>2. kept[n] \in Seq(S) /\ kept[n] # << >> /\ Range(kept[n]) = Range(kept[n - 1]) \cup {q[n]}
      BY <3>1, AppendRange
    <3>3. Range(kept[n]) = Seen(n) \ G
      BY <2>1, <2>2, <2>8, <3>2
    <3>4. IsInjective(q) => IsInjective(kept[n])
      BY <2>1, <2>6, <3>1, AppendRange
    <3>5. kept[n - 1] # << >> => Head(kept[n]) = Head(kept[n - 1])
      BY <3>1, AppendRange
    <3>6. n = 1 => Head(kept[n]) = q[1]
      BY <2>5, <3>1
    <3>7. q[1] \notin G => Head(kept[n]) = q[1]
      BY <2>1, <3>5, <3>6
    <3> QED BY <3>2, <3>3, <3>4, <3>7
  <2> QED BY <2>7, <2>8
<1>11. P(L)
  <2>1. \A n \in 1..L : n - 1 \in T => n \in T
    BY <1>10
  <2>2. \A n \in 0..L : n \in T
    <3> HIDE DEF T, L
    <3> QED BY <1>1, <1>9, <2>1, LoopInduction
  <2> HIDE DEF P
  <2> QED BY <1>1, <2>2
<1>12. Range(q) = Seen(L)
  BY AsQueue DEF Elements
<1>13. q # << >> => Head(q) = q[1] /\ L # 0
  OBVIOUS
<1> HIDE DEF Seen, L
<1> QED BY <1>7, <1>11, <1>12, <1>13

-----------------------------------------------------------------------------
(* Costs.                                                                   *)

\* A set of requests has a cost, which one more request raises by its own.
LEMMA CostFacts ==
  ASSUME NEW A \in SUBSET Requests
  PROVE  /\ Cost(A) \in Nat
         /\ \A r \in Requests \ A : Cost(A \cup {r}) = Cost(A) + CostOf[r]
<1> DEFINE U(B) == UNION {Units(r) : r \in B}
<1>1. ASSUME NEW r \in Requests
      PROVE  CostOf[r] \in Nat /\ IsFiniteSet(Units(r)) /\ Cardinality(Units(r)) = CostOf[r]
  <2>1. CostOf[r] \in Nat
    BY QueueAssumption
  <2>2. IsFiniteSet(1..CostOf[r]) /\ Cardinality(1..CostOf[r]) = CostOf[r]
    BY <2>1, FS_Interval
  <2>3. IsFiniteSet({r}) /\ Cardinality({r}) = 1
    BY FS_Singleton
  <2>4. /\ IsFiniteSet({r} \X (1..CostOf[r]))
        /\ Cardinality({r} \X (1..CostOf[r])) = Cardinality({r}) * Cardinality(1..CostOf[r])
    BY <2>2, <2>3, FS_Product
  <2> QED BY <2>1, <2>2, <2>3, <2>4 DEF Units
<1>2. IsFiniteSet(U(A))
  <2>1. IsFiniteSet(A)
    BY QueueAssumption, FS_Subset
  <2> DEFINE f == [r \in A |-> Units(r)]
             I == {Units(r) : r \in A}
  <2>2. f \in Surjection(A, I)
    BY DEF Surjection
  <2>3. IsFiniteSet(I)
    <3> HIDE DEF f, I
    <3> QED BY <2>1, <2>2, FS_Surjection
  <2>4. \A T \in I : IsFiniteSet(T)
    BY <1>1
  <2>5. IsFiniteSet(UNION I)
    <3> HIDE DEF I
    <3> QED BY <2>3, <2>4, FS_UNION
  <2> QED BY <2>5
<1>3. Cost(A) \in Nat
  <2> HIDE DEF U
  <2>1. Cardinality(U(A)) \in Nat
    BY <1>2, FS_CardinalityType
  <2> QED BY <2>1 DEF Cost, U
<1>4. ASSUME NEW r \in Requests \ A PROVE Cost(A \cup {r}) = Cost(A) + CostOf[r]
  <2>1. U(A \cup {r}) = U(A) \cup Units(r)
    OBVIOUS
  <2>2. U(A) \cap Units(r) = {}
    BY <1>4 DEF Units
  <2>3. IsFiniteSet(Units(r)) /\ Cardinality(Units(r)) = CostOf[r] /\ CostOf[r] \in Nat
    BY <1>1
  <2> HIDE DEF U
  <2>4. Cardinality(U(A) \cup Units(r))
          = Cardinality(U(A)) + Cardinality(Units(r)) - Cardinality(U(A) \cap Units(r))
    BY <1>2, <2>3, FS_Union
  <2>5. Cardinality(U(A)) \in Nat /\ Cardinality(U(A) \cap Units(r)) = 0
    BY <1>2, <2>2, FS_EmptySet, FS_CardinalityType
  <2>6. Cardinality(U(A) \cup Units(r)) = Cardinality(U(A)) + CostOf[r]
    BY <2>3, <2>4, <2>5
  <2> QED BY <2>1, <2>6 DEF Cost, U
<1> QED BY <1>3, <1>4

\* No request costs more than all together, and nothing costs nothing.
LEMMA CostBounds ==
  /\ Cost({}) = 0
  /\ \A r \in Requests : CostOf[r] \in Nat \ {0} /\ CostOf[r] <= Cost(Requests)
<1>1. Cost({}) = 0
  <2>1. UNION {Units(r) : r \in {}} = {}
    OBVIOUS
  <2> QED BY <2>1, FS_EmptySet DEF Cost
<1>2. ASSUME NEW r \in Requests PROVE CostOf[r] \in Nat \ {0} /\ CostOf[r] <= Cost(Requests)
  <2> DEFINE A == Requests \ {r}
  <2>1. A \in SUBSET Requests /\ r \in Requests \ A /\ A \cup {r} = Requests
    OBVIOUS
  <2> HIDE DEF A
  <2>2. Cost(A) \in Nat /\ Cost(Requests) = Cost(A) + CostOf[r]
    BY <2>1, CostFacts
  <2>3. CostOf[r] \in Nat \ {0}
    BY QueueAssumption
  <2> QED BY <2>2, <2>3
<1> QED BY <1>1, <1>2

\* A set of requests without one of them costs that much less.
LEMMA CostWithout ==
  ASSUME NEW A \in SUBSET Requests, NEW r \in A
  PROVE  Cost(A \ {r}) = Cost(A) - CostOf[r]
<1> DEFINE B == A \ {r}
<1>1. B \in SUBSET Requests /\ r \in Requests \ B /\ B \cup {r} = A
  OBVIOUS
<1>2. CostOf[r] \in Nat
  BY QueueAssumption
<1> HIDE DEF B
<1>3. Cost(B) \in Nat /\ Cost(A) = Cost(B) + CostOf[r]
  BY <1>1, CostFacts
<1> QED BY <1>2, <1>3 DEF B

-----------------------------------------------------------------------------
(* Buckets: one FIFO for each tenant, and the tenants that have one that is  *)
(* not empty, in some order.  The shared queue and the lanes are kept so.   *)

BucketsOK(order, bucket) ==
  /\ order \in Seq(Tenants) /\ IsInjective(order)
  /\ bucket \in [Tenants -> Seq(Requests)]
  /\ \A t \in Tenants : /\ t \in Range(order) <=> bucket[t] # << >>
                        /\ IsInjective(bucket[t])
                        /\ \A r \in Range(bucket[t]) : TenantOf[r] = t

Members(bucket) == UNION {Range(bucket[t]) : t \in Tenants}

\* A member is in its tenant's FIFO.
LEMMA MemberFacts ==
  ASSUME NEW o, NEW b, BucketsOK(o, b)
  PROVE  /\ Members(b) \subseteq Requests
         /\ IsFiniteSet(Members(b))
         /\ Cardinality(Members(b)) \in Nat
         /\ \A r \in Members(b) : /\ TenantOf[r] \in Tenants
                                  /\ r \in Range(b[TenantOf[r]])
                                  /\ b[TenantOf[r]] # << >>
         /\ \A t \in Tenants : Range(b[t]) \subseteq Members(b)
         /\ o = << >> <=> Members(b) = {}
<1>1. \A t \in Tenants : b[t] \in Seq(Requests)
  BY DEF BucketsOK
<1>2. \A t \in Tenants : Range(b[t]) \subseteq Requests /\ (b[t] = << >> <=> Range(b[t]) = {})
  BY <1>1, SeqFacts
<1>3. Members(b) \subseteq Requests /\ \A t \in Tenants : Range(b[t]) \subseteq Members(b)
  BY <1>2 DEF Members
<1>4. IsFiniteSet(Members(b)) /\ Cardinality(Members(b)) \in Nat
  BY <1>3, QueueAssumption, FS_Subset, FS_CardinalityType
<1>5. ASSUME NEW r \in Members(b)
      PROVE  TenantOf[r] \in Tenants /\ r \in Range(b[TenantOf[r]]) /\ b[TenantOf[r]] # << >>
  <2>1. PICK t \in Tenants : r \in Range(b[t])
    BY DEF Members
  <2> QED BY <1>2, <2>1 DEF BucketsOK
<1>6. o = << >> <=> Range(o) = {}
  BY SeqFacts DEF BucketsOK
<1>7. Range(o) = {} => Members(b) = {}
  BY <1>2 DEF BucketsOK, Members
<1>8. Members(b) = {} => Range(o) = {}
  <2>1. Range(o) \subseteq Tenants
    BY SeqFacts DEF BucketsOK
  <2> QED BY <1>2, <1>3, <2>1 DEF BucketsOK
<1> QED BY <1>3, <1>4, <1>5, <1>6, <1>7, <1>8

\* c is b with t's FIFO replaced by f.
Updates(b, t, f, c) ==
  c \in [Tenants -> Seq(Requests)] /\ c[t] = f /\ \A u \in Tenants \ {t} : c[u] = b[u]

\* So it is when the buckets are [b EXCEPT ![t] = f].
LEMMA ExceptUpdates ==
  ASSUME NEW b \in [Tenants -> Seq(Requests)], NEW t \in Tenants, NEW f \in Seq(Requests)
  PROVE  Updates(b, t, f, [b EXCEPT ![t] = f])
  BY DEF Updates

\* t's FIFO is replaced by f and the order by o2.
Replaces(o, b, t, f, o2, c) ==
  /\ BucketsOK(o, b) /\ t \in Tenants /\ Updates(b, t, f, c)
  /\ f \in Seq(Requests) /\ IsInjective(f) /\ \A r \in Range(f) : TenantOf[r] = t
  /\ o2 \in Seq(Tenants) /\ IsInjective(o2)
  /\ f = << >> => Range(o2) = Range(o) \ {t}
  /\ f # << >> => Range(o2) = Range(o) \cup {t}

\* One tenant's FIFO is replaced and the order follows.
LEMMA BucketReplaced ==
  ASSUME NEW o, NEW b, NEW t, NEW f, NEW o2, NEW c, Replaces(o, b, t, f, o2, c)
  PROVE  /\ BucketsOK(o2, c)
         /\ Members(c) = (Members(b) \ Range(b[t])) \cup Range(f)
<1> USE DEF Replaces
<1>2. c \in [Tenants -> Seq(Requests)] /\ c[t] = f /\ \A u \in Tenants \ {t} : c[u] = b[u]
  BY DEF Updates
<1>3. ASSUME NEW u \in Tenants
      PROVE  /\ u \in Range(o2) <=> c[u] # << >>
             /\ IsInjective(c[u])
             /\ \A r \in Range(c[u]) : TenantOf[r] = u
  <2>1. CASE u = t
    BY <1>2, <2>1
  <2>2. CASE u # t
    BY <1>2, <2>2 DEF BucketsOK
  <2> QED BY <2>1, <2>2
<1>4. BucketsOK(o2, c)
  BY <1>2, <1>3 DEF BucketsOK
<1>5. Members(c) = (Members(b) \ Range(b[t])) \cup Range(f)
  <2>1. \A u, v \in Tenants : Range(b[u]) \cap Range(b[v]) # {} => u = v
    BY DEF BucketsOK
  <2>2. ASSUME NEW r \in Members(c) PROVE r \in (Members(b) \ Range(b[t])) \cup Range(f)
    <3>1. PICK u \in Tenants : r \in Range(c[u])
      BY DEF Members
    <3>2. CASE u = t
      BY <1>2, <3>1, <3>2
    <3>3. CASE u # t
      <4>1. r \in Range(b[u])
        BY <1>2, <3>1, <3>3
      <4>2. r \notin Range(b[t])
        BY <2>1, <3>3, <4>1
      <4> QED BY <4>1, <4>2 DEF Members
    <3> QED BY <3>2, <3>3
  <2>3. ASSUME NEW r \in Members(b) \ Range(b[t]) PROVE r \in Members(c)
    <3>1. PICK u \in Tenants : r \in Range(b[u])
      BY DEF Members
    <3>2. c[u] = b[u]
      BY <1>2, <2>3, <3>1
    <3> QED BY <3>1, <3>2 DEF Members
  <2>4. Range(f) \subseteq Members(c)
    BY <1>2 DEF Members
  <2> QED BY <2>2, <2>3, <2>4
<1> QED BY <1>4, <1>5

-----------------------------------------------------------------------------
(* The shared queue.                                                        *)

QueueSet == [order : Seq(Tenants), bucket : [Tenants -> Seq(Requests)], cursor : Nat,
             skip : [Requests -> 0..MaxSkips]]

QInv(q) ==
  /\ q \in QueueSet
  /\ BucketsOK(q.order, q.bucket)
  /\ IF q.order = << >> THEN q.cursor = 0 ELSE q.cursor < Len(q.order)

IsHead(q, r) == r \in Waiting(q) /\ r = Head(q.bucket[TenantOf[r]])
AgedHead(q, r) == IsHead(q, r) /\ q.skip[r] >= MaxSkips

\* before is a strict total order of the requests in H.
Ordered(before, H) ==
  /\ StrictOn(before, H)
  /\ \A r, s \in H : r # s => <<r, s>> \in before \/ <<s, r>> \in before

\* Who waits, as the members of the buckets.
LEMMA WaitingFacts ==
  ASSUME NEW q, QInv(q)
  PROVE  /\ Waiting(q) = Members(q.bucket)
         /\ Waiting(q) \subseteq Requests
         /\ IsFiniteSet(Waiting(q))
         /\ Cardinality(Waiting(q)) \in Nat
         /\ \A r \in Waiting(q) : /\ TenantOf[r] \in Tenants
                                  /\ r \in Range(q.bucket[TenantOf[r]])
                                  /\ q.bucket[TenantOf[r]] # << >>
         /\ q.order = << >> <=> Waiting(q) = {}
<1>1. Waiting(q) = Members(q.bucket)
  BY DEF Waiting, Members
<1> QED BY <1>1, MemberFacts DEF QInv

\* The invariant is what QueueOK asks.
LEMMA QueueIsOK ==
  ASSUME NEW q, QInv(q)
  PROVE  QueueOK(q)
<1>1. q.order \in Seq(Tenants) /\ q.cursor \in Nat /\ q.skip \in [Requests -> 0..MaxSkips]
  BY DEF QInv, QueueSet
<1>2. q.cursor \in IF q.order = << >> THEN {0} ELSE Turns(q)
  BY <1>1 DEF QInv, Turns
<1> QED BY <1>1, <1>2 DEF QueueOK, QInv, BucketsOK

\* An empty queue is in order.
LEMMA EmptyQueueOK == QInv(EmptyQueue) /\ Waiting(EmptyQueue) = {}
<1> DEFINE e == EmptyQueue
<1>1. e \in QueueSet /\ e.order = << >> /\ e.cursor = 0 /\ \A t \in Tenants : e.bucket[t] = << >>
  BY QueueAssumption DEF EmptyQueue, QueueSet
<1> HIDE DEF e
<1>2. Range(<< >>) = {} /\ IsInjective(<< >>) /\ << >> \in Seq(Tenants)
  BY EmptyRange
<1>3. e.bucket \in [Tenants -> Seq(Requests)]
  BY <1>1 DEF QueueSet
<1>4. BucketsOK(e.order, e.bucket)
  BY <1>1, <1>2, <1>3 DEF BucketsOK
<1>5. QInv(e)
  BY <1>1, <1>4 DEF QInv
<1>6. Waiting(e) = {}
  BY <1>1, <1>5, WaitingFacts
<1> QED BY <1>5, <1>6 DEF e

\* The round robin meets a bucket that is not empty and its head.
LEMMA TurnFacts ==
  ASSUME NEW q, QInv(q), NEW i \in Turns(q), NEW t, t = q.order[IndexOf(q, i) + 1]
  PROVE  /\ IndexOf(q, i) \in 0..(Len(q.order) - 1)
         /\ t \in Tenants /\ t \in Range(q.order)
         /\ q.bucket[t] # << >> /\ q.bucket[t] \in Seq(Requests)
         /\ HeadAt(q, i) = Head(q.bucket[t])
         /\ HeadAt(q, i) \in Range(q.bucket[t])
         /\ HeadAt(q, i) \in Requests
         /\ TenantOf[HeadAt(q, i)] = t
         /\ IsHead(q, HeadAt(q, i))
<1>1. /\ q.order \in Seq(Tenants) /\ q.cursor \in Nat /\ Len(q.order) \in Nat
      /\ i \in Nat /\ i < Len(q.order)
  BY DEF QInv, QueueSet, Turns
<1>2. IndexOf(q, i) \in 0..(Len(q.order) - 1)
  BY <1>1 DEF IndexOf
<1>3. IndexOf(q, i) + 1 \in 1..Len(q.order)
  BY <1>1, <1>2
<1>4. t \in Range(q.order) /\ t \in Tenants
  BY <1>1, <1>3, SeqFacts
<1>5. q.bucket[t] # << >> /\ q.bucket[t] \in Seq(Requests)
  BY <1>4 DEF QInv, BucketsOK
<1>6. HeadAt(q, i) = Head(q.bucket[t])
  BY DEF HeadAt
<1>7. HeadAt(q, i) \in Range(q.bucket[t]) /\ Range(q.bucket[t]) \subseteq Requests
  BY <1>5, <1>6, SeqFacts
<1>8. TenantOf[HeadAt(q, i)] = t
  BY <1>4, <1>7 DEF QInv, BucketsOK
<1>9. HeadAt(q, i) \in Waiting(q)
  BY <1>4, <1>7 DEF Waiting
<1> QED BY <1>2, <1>4, <1>5, <1>6, <1>7, <1>8, <1>9 DEF IsHead

\* It meets every head.
LEMMA EveryHead ==
  ASSUME NEW q, QInv(q), NEW h, IsHead(q, h)
  PROVE  \E i \in Turns(q) : HeadAt(q, i) = h
<1> DEFINE t == TenantOf[h]
           n == Len(q.order)
<1>1. t \in Tenants /\ q.bucket[t] # << >> /\ h = Head(q.bucket[t])
  BY WaitingFacts DEF IsHead
<1>2. q.order \in Seq(Tenants) /\ t \in Range(q.order) /\ q.cursor \in Nat
  BY <1>1 DEF QInv, QueueSet, BucketsOK
<1>3. PICK k \in 1..n : q.order[k] = t
  BY <1>2, SeqFacts
<1>4. n \in Nat \ {0} /\ k - 1 \in 0..(n - 1) /\ q.cursor \in 0..(n - 1)
  BY <1>2, <1>3 DEF QInv
<1>5. PICK i \in 0..(n - 1) : (q.cursor + i) % n = k - 1
  <2> DEFINE c == q.cursor
             m == k - 1
  <2> HIDE DEF c, m
  <2> SUFFICES \E i \in 0..(n - 1) : (c + i) % n = m
    BY DEF c, m
  <2>1. n \in Nat \ {0} /\ m \in 0..(n - 1) /\ c \in 0..(n - 1)
    BY <1>4 DEF c, m
  <2> HIDE DEF n
  <2>2. CASE m >= c
    <3>1. m - c \in 0..(n - 1) /\ c + (m - c) = m
      BY <2>1, <2>2
    <3>2. m % n = m
      BY <2>1
    <3> QED BY <3>1, <3>2
  <2>3. CASE m < c
    <3>1. m - c + n \in 0..(n - 1) /\ c + (m - c + n) = m + n
      BY <2>1, <2>3
    <3>2. (m + n) % n = m
      BY <2>1
    <3> QED BY <3>1, <3>2
  <2> QED BY <2>1, <2>2, <2>3
<1>6. i \in Turns(q) /\ IndexOf(q, i) + 1 = k
  BY <1>3, <1>4, <1>5 DEF Turns, IndexOf
<1>7. HeadAt(q, i) = h
  BY <1>1, <1>3, <1>6 DEF HeadAt
<1> QED BY <1>6, <1>7

\* The aged turns are those of the aged heads.
LEMMA AgedFacts ==
  ASSUME NEW q, QInv(q)
  PROVE  /\ Aged(q) \subseteq Turns(q)
         /\ \A i \in Aged(q) : AgedHead(q, HeadAt(q, i))
         /\ \A h : AgedHead(q, h) => \E i \in Aged(q) : HeadAt(q, i) = h
<1>1. Aged(q) \subseteq Turns(q)
  BY DEF Aged
<1>2. \A i \in Aged(q) : AgedHead(q, HeadAt(q, i))
  BY TurnFacts DEF Aged, AgedHead
<1>3. ASSUME NEW h, AgedHead(q, h) PROVE \E i \in Aged(q) : HeadAt(q, i) = h
  <2>1. PICK i \in Turns(q) : HeadAt(q, i) = h
    BY <1>3, EveryHead DEF AgedHead
  <2> QED BY <1>3, <2>1 DEF Aged, AgedHead
<1> QED BY <1>1, <1>2, <1>3

\* Some aged head is the oldest, and that is the reserved one.
LEMMA ReservedFacts ==
  ASSUME NEW q, QInv(q), NEW before, Ordered(before, Waiting(q)), Aged(q) # {}
  PROVE  /\ Reserved(q, before) \in Aged(q)
         /\ \A h : AgedHead(q, h) /\ h # HeadAt(q, Reserved(q, before))
                     => <<HeadAt(q, Reserved(q, before)), h>> \in before
<1> DEFINE H == {HeadAt(q, i) : i \in Aged(q)}
<1>1. H \subseteq Waiting(q) /\ H # {}
  BY AgedFacts DEF AgedHead, IsHead
<1>2. IsFiniteSet(H)
  <2> HIDE DEF H
  <2> QED BY <1>1, WaitingFacts, FS_Subset
<1>3. StrictOn(before, H)
  <2> HIDE DEF H
  <2> QED BY <1>1 DEF Ordered, StrictOn
<1>4. PICK x \in H : \A y \in H : <<y, x>> \notin before
  <2> HIDE DEF H
  <2> QED BY <1>1, <1>2, <1>3, FirstOf
<1>5. Oldest(q, before) # {}
  BY <1>4 DEF Oldest
<1>6. Reserved(q, before) \in Oldest(q, before)
  BY <1>5 DEF Reserved
<1>7. ASSUME NEW h, AgedHead(q, h), h # HeadAt(q, Reserved(q, before))
      PROVE  <<HeadAt(q, Reserved(q, before)), h>> \in before
  <2> DEFINE g == HeadAt(q, Reserved(q, before))
  <2>1. PICK j \in Aged(q) : HeadAt(q, j) = h
    BY <1>7, AgedFacts
  <2>2. <<h, g>> \notin before
    BY <1>6, <2>1 DEF Oldest
  <2>3. h \in Waiting(q) /\ g \in Waiting(q)
    BY <1>1, <1>6, <2>1 DEF Oldest
  <2> HIDE DEF g
  <2>4. h # g => <<g, h>> \in before
    BY <2>2, <2>3 DEF Ordered
  <2> QED BY <1>7, <2>4 DEF g
<1> QED BY <1>6, <1>7 DEF Oldest

\* The least of some turns is one of them.
LEMMA MinTurn ==
  ASSUME NEW S \in SUBSET Nat, S # {}
  PROVE  Min(S) \in S /\ \A y \in S : Min(S) <= y
<1>1. \E x \in S : \A y \in S : x <= y
  BY LeastOf
<1> QED BY <1>1 DEF Min

\* dequeue takes the turn of a head that fits, and while heads have aged that
\* of the oldest of them.
LEMMA ChoiceFacts ==
  ASSUME NEW q, QInv(q), NEW before, Ordered(before, Waiting(q)), NEW room,
         NEW i \in Choice(q, room, before)
  PROVE  /\ Choice(q, room, before) = {i}
         /\ i \in Turns(q)
         /\ CostOf[HeadAt(q, i)] <= room
         /\ \A h : AgedHead(q, h) /\ h # HeadAt(q, i) => <<HeadAt(q, i), h>> \in before
<1>1. CASE Aged(q) # {}
  <2>1. i = Reserved(q, before) /\ CostOf[HeadAt(q, i)] <= room /\ Choice(q, room, before) = {i}
    BY <1>1 DEF Choice
  <2> QED BY <1>1, <2>1, ReservedFacts, AgedFacts
<1>2. CASE Aged(q) = {}
  <2>1. /\ Fitting(q, room) # {}
        /\ i = Min(Fitting(q, room)) /\ Choice(q, room, before) = {i}
    BY <1>2 DEF Choice
  <2>2. Fitting(q, room) \in SUBSET Nat
    BY DEF Fitting, Turns
  <2>3. i \in Fitting(q, room)
    BY <2>1, <2>2, MinTurn
  <2>4. \A h : ~AgedHead(q, h)
    BY <1>2, AgedFacts
  <2> QED BY <2>1, <2>3, <2>4 DEF Fitting
<1> QED BY <1>1, <1>2

\* With room for everything dequeue finds whoever waits.
LEMMA ChoiceOfAll ==
  ASSUME NEW q, QInv(q), NEW before, Ordered(before, Waiting(q)), Waiting(q) # {}
  PROVE  Choice(q, Cost(Requests), before) # {}
<1>1. \A i \in Turns(q) : CostOf[HeadAt(q, i)] <= Cost(Requests)
  BY TurnFacts, CostBounds
<1>2. CASE Aged(q) # {}
  BY <1>1, <1>2, ReservedFacts, AgedFacts DEF Choice
<1>3. CASE Aged(q) = {}
  <2>1. q.order # << >> /\ q.order \in Seq(Tenants)
    BY WaitingFacts DEF QInv, QueueSet
  <2>2. 0 \in Turns(q)
    BY <2>1 DEF Turns
  <2>3. Fitting(q, Cost(Requests)) # {}
    BY <1>1, <2>2 DEF Fitting
  <2> QED BY <1>3, <2>3 DEF Choice
<1> QED BY <1>2, <1>3

\* Only the order of the heads matters.
LEMMA ChoiceAgrees ==
  ASSUME NEW q, QInv(q), NEW o1, NEW o2, NEW room,
         \A r, s \in Waiting(q) : <<r, s>> \in o1 <=> <<r, s>> \in o2
  PROVE  Choice(q, room, o1) = Choice(q, room, o2)
<1>1. \A i \in Aged(q) : HeadAt(q, i) \in Waiting(q)
  BY AgedFacts DEF AgedHead, IsHead
<1>2. Oldest(q, o1) = Oldest(q, o2)
  BY <1>1 DEF Oldest
<1> QED BY <1>2 DEF Choice, Reserved

\* A sequence without one of its members is shorter by one.
LEMMA WithoutOne ==
  ASSUME NEW S, NEW q \in Seq(S), IsInjective(q), NEW x \in Range(q)
  PROVE  Len(Without(q, {x})) = Len(q) - 1
<1> DEFINE w == Without(q, {x})
<1>1. w \in Seq(S) /\ IsInjective(w) /\ Range(w) = Range(q) \ {x}
  BY WithoutFacts
<1> HIDE DEF w
<1>2. IsFiniteSet(Range(q)) /\ Cardinality(Range(q)) = Len(q)
  BY SeqFacts
<1>3. Cardinality(Range(w)) = Len(w)
  BY <1>1, SeqFacts
<1>4. Cardinality(Range(w)) = Cardinality(Range(q)) - 1
  BY <1>1, <1>2, FS_RemoveElement
<1> QED BY <1>2, <1>3, <1>4 DEF w

\* A request joins its tenant's bucket at the end: enqueue.
LEMMA EnqueueFacts ==
  ASSUME NEW q, QInv(q), NEW r \in Requests, r \notin Waiting(q)
  PROVE  /\ QInv(Enqueue(q, r))
         /\ Waiting(Enqueue(q, r)) = Waiting(q) \cup {r}
         /\ \A h : IsHead(q, h) => IsHead(Enqueue(q, r), h)
         /\ Enqueue(q, r).skip = q.skip /\ Enqueue(q, r).cursor = q.cursor
         /\ Enqueue(q, r).order # << >>
         /\ q.order # << >> => Head(Enqueue(q, r).order) = Head(q.order)
         /\ q.order = << >> => Head(Enqueue(q, r).order) = TenantOf[r] /\ IsHead(Enqueue(q, r), r)
<1> DEFINE t == TenantOf[r]
           f == Append(q.bucket[t], r)
           o2 == IF q.bucket[t] = << >> THEN Append(q.order, t) ELSE q.order
           b2 == [q.bucket EXCEPT ![t] = f]
           p == Enqueue(q, r)
<1>1. /\ t \in Tenants /\ q \in QueueSet /\ BucketsOK(q.order, q.bucket)
      /\ q.order \in Seq(Tenants) /\ IsInjective(q.order)
      /\ q.bucket[t] \in Seq(Requests) /\ IsInjective(q.bucket[t])
      /\ \A s \in Range(q.bucket[t]) : TenantOf[s] = t
      /\ t \in Range(q.order) <=> q.bucket[t] # << >>
  BY QueueAssumption DEF QInv, BucketsOK
<1>2. r \notin Range(q.bucket[t]) /\ Range(q.bucket[t]) \subseteq Waiting(q)
  BY <1>1 DEF Waiting
<1>3. /\ f \in Seq(Requests) /\ f # << >> /\ Range(f) = Range(q.bucket[t]) \cup {r}
      /\ IsInjective(f) /\ (q.bucket[t] # << >> => Head(f) = Head(q.bucket[t]))
  BY <1>1, <1>2, AppendRange
<1>4. o2 \in Seq(Tenants) /\ IsInjective(o2) /\ Range(o2) = Range(q.order) \cup {t} /\ o2 # << >>
  <2>1. CASE q.bucket[t] = << >>
    BY <1>1, <2>1, AppendRange
  <2>2. CASE q.bucket[t] # << >>
    <3>1. q.order # << >>
      BY <1>1, <2>2, SeqFacts
    <3> QED BY <1>1, <2>2, <3>1
  <2> QED BY <2>1, <2>2
<1>5. Len(o2) >= Len(q.order) /\ Len(o2) \in Nat /\ Len(q.order) \in Nat
  <2>1. CASE q.bucket[t] = << >>
    BY <1>1, <2>1, AppendRange
  <2>2. CASE q.bucket[t] # << >>
    BY <1>1, <2>2
  <2> QED BY <2>1, <2>2
<1>6. /\ p \in QueueSet /\ p.order = o2 /\ p.bucket = b2 /\ p.cursor = q.cursor
      /\ p.skip = q.skip
  <2> HIDE DEF f
  <2>1. q.bucket \in [Tenants -> Seq(Requests)] /\ b2 \in [Tenants -> Seq(Requests)]
    BY <1>1, <1>3 DEF QueueSet
  <2>2. p = [q EXCEPT !.order = o2, !.bucket = b2]
    BY <1>1 DEF Enqueue, QueueSet, f
  <2> HIDE DEF p, o2, b2, t
  <2> QED BY <1>1, <1>4, <2>1, <2>2 DEF QueueSet
<1>7. BucketsOK(o2, b2) /\ Members(b2) = (Members(q.bucket) \ Range(q.bucket[t])) \cup Range(f)
  <2>1. \A s \in Range(f) : TenantOf[s] = t
    BY <1>1, <1>3
  <2>2. f # << >> /\ Range(o2) = Range(q.order) \cup {t}
    BY <1>3, <1>4
  <2>3. t \in Tenants /\ BucketsOK(q.order, q.bucket)
    BY <1>1
  <2>4. f \in Seq(Requests) /\ IsInjective(f) /\ o2 \in Seq(Tenants) /\ IsInjective(o2)
    BY <1>3, <1>4
  <2>5. Updates(q.bucket, t, f, b2)
    BY <2>3, <2>4, ExceptUpdates DEF BucketsOK
  <2> HIDE DEF f, o2, t, b2
  <2>6. Replaces(q.order, q.bucket, t, f, o2, b2)
    BY <2>1, <2>2, <2>3, <2>4, <2>5 DEF Replaces
  <2> QED BY <2>6, BucketReplaced
<1>8. QInv(p)
  <2>1. p.cursor \in Nat
    BY <1>6 DEF QueueSet
  <2>2. q.order = << >> => q.cursor = 0
    BY DEF QInv
  <2>3. q.order # << >> => q.cursor < Len(q.order)
    BY DEF QInv
  <2>4. Len(o2) # 0
    BY <1>4, SeqFacts
  <2>5. p.cursor < Len(o2)
    BY <1>5, <1>6, <2>1, <2>2, <2>3, <2>4
  <2> HIDE DEF p, o2, b2
  <2> QED BY <1>4, <1>6, <1>7, <2>5 DEF QInv
<1>9. Waiting(p) = Waiting(q) \cup {r}
  <2>1. Waiting(p) = Members(p.bucket) /\ Waiting(q) = Members(q.bucket)
    BY DEF Waiting, Members
  <2> HIDE DEF p, f, b2
  <2> QED BY <1>2, <1>3, <1>6, <1>7, <2>1
<1>10. ASSUME NEW h, IsHead(q, h) PROVE IsHead(p, h)
  <2>1. /\ h \in Waiting(q) /\ h = Head(q.bucket[TenantOf[h]])
        /\ TenantOf[h] \in Tenants /\ q.bucket[TenantOf[h]] # << >>
    BY <1>10, WaitingFacts DEF IsHead
  <2>2. q.bucket \in [Tenants -> Seq(Requests)]
    BY <1>1 DEF QueueSet
  <2> HIDE DEF p, f
  <2>3. p.bucket[TenantOf[h]] = IF TenantOf[h] = t THEN f ELSE q.bucket[TenantOf[h]]
    BY <1>1, <1>6, <2>1, <2>2
  <2> HIDE DEF t
  <2> QED BY <1>3, <1>9, <2>1, <2>3 DEF IsHead
<1>11. q.order # << >> => Head(o2) = Head(q.order)
  BY <1>1, AppendRange
<1>12. ASSUME q.order = << >> PROVE Head(o2) = t /\ IsHead(p, r)
  <2>1. q.bucket[t] = << >>
    BY <1>1, <1>12, EmptyRange
  <2>2. Head(Append(<< >>, t)) = t /\ Head(Append(<< >>, r)) = r
    BY <1>1
  <2>3. q.bucket \in [Tenants -> Seq(Requests)]
    BY <1>1 DEF QueueSet
  <2>4. p.bucket[t] = f
    <3> HIDE DEF p, f, t
    <3> QED BY <1>1, <1>6, <2>3
  <2>5. Head(o2) = t /\ Head(f) = r
    BY <1>12, <2>1, <2>2
  <2> HIDE DEF p, f, o2
  <2> QED BY <1>9, <2>4, <2>5 DEF IsHead
<1> HIDE DEF p, o2
<1>13. /\ QInv(p) /\ Waiting(p) = Waiting(q) \cup {r} /\ \A h : IsHead(q, h) => IsHead(p, h)
       /\ p.skip = q.skip /\ p.cursor = q.cursor /\ p.order # << >>
       /\ q.order # << >> => Head(p.order) = Head(q.order)
       /\ q.order = << >> => Head(p.order) = TenantOf[r] /\ IsHead(p, r)
  BY <1>4, <1>6, <1>8, <1>9, <1>10, <1>11, <1>12
<1> QED BY <1>13 DEF p

\* r leaves t's FIFO, which becomes f, and t the order with its last request.
Loses(o, b, t, r, f, o2, c) ==
  /\ BucketsOK(o, b) /\ t \in Tenants /\ Updates(b, t, f, c) /\ r \in Range(b[t])
  /\ f \in Seq(Requests) /\ IsInjective(f) /\ Range(f) = Range(b[t]) \ {r}
  /\ Len(b[t]) > 1 => o2 = o
  /\ ~(Len(b[t]) > 1) => o2 = Without(o, {t})

\* A request leaves its tenant's FIFO.
LEMMA BucketLoses ==
  ASSUME NEW o, NEW b, NEW t, NEW r, NEW f, NEW o2, NEW c, Loses(o, b, t, r, f, o2, c)
  PROVE  /\ BucketsOK(o2, c)
         /\ Members(c) = Members(b) \ {r}
         /\ Len(b[t]) > 1 <=> f # << >>
         /\ Len(b[t]) > 1 => Len(o2) = Len(o)
         /\ ~(Len(b[t]) > 1) => Len(o2) = Len(o) - 1
         /\ Len(o) \in Nat \ {0}
         /\ t \in Range(o)
<1> USE DEF Loses
<1>1. /\ b[t] \in Seq(Requests) /\ IsInjective(b[t]) /\ o \in Seq(Tenants) /\ IsInjective(o)
      /\ \A s \in Range(b[t]) : TenantOf[s] = t
      /\ t \in Range(o) <=> b[t] # << >>
  BY DEF BucketsOK
<1>2. /\ IsFiniteSet(Range(b[t])) /\ Cardinality(Range(b[t])) = Len(b[t]) /\ b[t] # << >>
      /\ Len(b[t]) \in Nat
  BY <1>1, SeqFacts
<1>3. Cardinality(Range(f)) = Len(b[t]) - 1
  BY <1>2, FS_RemoveElement
<1>4. Len(f) \in Nat /\ Cardinality(Range(f)) = Len(f) /\ (f = << >> <=> Len(f) = 0)
  BY SeqFacts
<1>5. Len(b[t]) > 1 <=> f # << >>
  BY <1>2, <1>3, <1>4
<1>6. t \in Range(o)
  BY <1>1, <1>2
<1>7. Len(o) \in Nat \ {0}
  BY <1>1, <1>6, SeqFacts
<1>8. /\ Without(o, {t}) \in Seq(Tenants) /\ IsInjective(Without(o, {t}))
      /\ Range(Without(o, {t})) = Range(o) \ {t} /\ Len(Without(o, {t})) = Len(o) - 1
  BY <1>1, <1>6, WithoutFacts, WithoutOne
<1>9. /\ o2 \in Seq(Tenants) /\ IsInjective(o2)
      /\ f = << >> => Range(o2) = Range(o) \ {t}
      /\ f # << >> => Range(o2) = Range(o) \cup {t}
  BY <1>1, <1>5, <1>6, <1>8
<1>10. \A s \in Range(f) : TenantOf[s] = t
  BY <1>1
<1>11. BucketsOK(o2, c) /\ Members(c) = (Members(b) \ Range(b[t])) \cup Range(f)
  <2>1. Replaces(o, b, t, f, o2, c)
    BY <1>9, <1>10 DEF Replaces
  <2> QED BY <2>1, BucketReplaced
<1>12. Range(b[t]) \subseteq Members(b)
  BY MemberFacts
<1>13. Members(c) = Members(b) \ {r}
  BY <1>11, <1>12
<1> QED BY <1>5, <1>6, <1>7, <1>8, <1>11, <1>13

\* The head of a turn is taken, and the heads before it may be counted as
\* passed over: dequeue.
LEMMA DequeueFacts ==
  ASSUME NEW q, QInv(q), NEW i \in Turns(q)
  PROVE  /\ QInv(Dequeue(q, i))
         /\ HeadAt(q, i) \in Waiting(q)
         /\ Waiting(Dequeue(q, i)) = Waiting(q) \ {HeadAt(q, i)}
         /\ \A h : AgedHead(q, h) /\ h # HeadAt(q, i) => AgedHead(Dequeue(q, i), h)
<1> DEFINE idx == IndexOf(q, i)
           t == q.order[idx + 1]
           r == HeadAt(q, i)
           n == Len(q.order)
           f == Tail(q.bucket[t])
           o2 == IF Len(q.bucket[t]) > 1 THEN q.order ELSE Without(q.order, {t})
           b2 == [q.bucket EXCEPT ![t] = f]
           c2 == IF Len(q.bucket[t]) > 1 THEN (idx + 1) % n ELSE IF n = 1 THEN 0 ELSE idx % (n - 1)
           k2 == [q.skip EXCEPT ![r] = 0]
           passed == IF Aged(q) # {} THEN {} ELSE {HeadAt(q, j) : j \in 0..(i - 1)}
           s2 == [x \in Requests |-> IF x \in passed THEN k2[x] + 1 ELSE k2[x]]
           p == Dequeue(q, i)
<1>1. /\ idx \in 0..(n - 1)
      /\ t \in Tenants /\ t \in Range(q.order)
      /\ q.bucket[t] # << >> /\ q.bucket[t] \in Seq(Requests)
      /\ r = Head(q.bucket[t])
      /\ r \in Range(q.bucket[t])
      /\ r \in Requests
      /\ TenantOf[r] = t
      /\ IsHead(q, r)
  BY TurnFacts
<1>2. q \in QueueSet /\ BucketsOK(q.order, q.bucket) /\ IsInjective(q.bucket[t])
  BY <1>1 DEF QInv, BucketsOK
<1>3. f \in Seq(Requests) /\ IsInjective(f) /\ Range(f) = Range(q.bucket[t]) \ {r}
  BY <1>1, <1>2, TailRange
<1>4. /\ BucketsOK(o2, b2) /\ Members(b2) = Members(q.bucket) \ {r}
      /\ Len(q.bucket[t]) > 1 <=> f # << >>
      /\ Len(o2) = IF Len(q.bucket[t]) > 1 THEN n ELSE n - 1
      /\ n \in Nat \ {0}
  <2> HIDE DEF f, t, r, o2
  <2>1. /\ Len(q.bucket[t]) > 1 => o2 = q.order
        /\ ~(Len(q.bucket[t]) > 1) => o2 = Without(q.order, {t})
    BY DEF o2
  <2>2. t \in Tenants /\ r \in Range(q.bucket[t]) /\ BucketsOK(q.order, q.bucket)
    BY <1>1, <1>2
  <2>3. Updates(q.bucket, t, f, b2)
    BY <1>3, <2>2, ExceptUpdates DEF BucketsOK
  <2> HIDE DEF b2
  <2>4. Loses(q.order, q.bucket, t, r, f, o2, b2)
    BY <1>3, <2>1, <2>2, <2>3 DEF Loses
  <2> QED BY <2>4, BucketLoses
<1>5. c2 \in Nat /\ (IF Len(o2) = 0 THEN c2 = 0 ELSE c2 < Len(o2))
  <2> HIDE DEF n, idx, o2, t
  <2>1. CASE Len(q.bucket[t]) > 1
    <3>1. (idx + 1) % n \in 0..(n - 1)
      BY <1>1, <1>4
    <3> QED BY <1>4, <2>1, <3>1
  <2>2. CASE ~(Len(q.bucket[t]) > 1) /\ n # 1
    <3> DEFINE m == n - 1
    <3>1. m \in Nat \ {0} /\ idx \in Nat
      BY <1>1, <1>4, <2>2
    <3>2. idx % m \in 0..(m - 1)
      <4> HIDE DEF m
      <4> QED BY <3>1
    <3> QED BY <1>4, <2>2, <3>1, <3>2
  <2>3. CASE ~(Len(q.bucket[t]) > 1) /\ n = 1
    BY <1>4, <2>3
  <2> QED BY <2>1, <2>2, <2>3
<1>6. s2 \in [Requests -> 0..MaxSkips]
  <2>1. q.skip \in [Requests -> 0..MaxSkips] /\ MaxSkips \in Nat \ {0}
    BY <1>2, QueueAssumption DEF QueueSet
  <2>2. \A x \in Requests : k2[x] = IF x = r THEN 0 ELSE q.skip[x]
    BY <2>1
  <2>3. ASSUME NEW x \in Requests, x \in passed PROVE q.skip[x] < MaxSkips
    <3>1. Aged(q) = {} /\ \E j \in Turns(q) : x = HeadAt(q, j)
      BY <2>3 DEF Turns
    <3> QED BY <2>1, <3>1 DEF Aged
  <2> HIDE DEF passed, k2
  <2>4. ASSUME NEW x \in Requests PROVE s2[x] \in 0..MaxSkips
    <3>1. k2[x] \in 0..MaxSkips /\ (x \in passed => k2[x] < MaxSkips)
      BY <2>1, <2>2, <2>3
    <3> QED BY <2>1, <3>1
  <2> QED BY <2>4
<1>7. p = [order |-> o2, bucket |-> b2, cursor |-> c2, skip |-> s2]
  <2>1. TakeAt(q, i) = [order |-> o2, bucket |-> b2, cursor |-> c2, skip |-> k2]
    <3>1. r = Head(q.bucket[t])
      BY <1>1
    <3> HIDE DEF idx
    <3>2. CASE Len(q.bucket[t]) > 1
      BY <1>2, <3>1, <3>2 DEF TakeAt, QueueSet, idx
    <3>3. CASE ~(Len(q.bucket[t]) > 1)
      BY <1>2, <3>1, <3>3 DEF TakeAt, QueueSet, idx
    <3> QED BY <3>2, <3>3
  <2> HIDE DEF o2, b2, c2, k2
  <2> QED BY <2>1 DEF Dequeue
<1>8. QInv(p) /\ p.bucket = b2 /\ p.skip = s2
  <2>1. o2 \in Seq(Tenants) /\ b2 \in [Tenants -> Seq(Requests)]
    BY <1>4 DEF BucketsOK
  <2>2. o2 = << >> <=> Len(o2) = 0
    BY <2>1, SeqFacts
  <2> HIDE DEF o2, b2, c2, s2, p
  <2>3. p \in QueueSet /\ p.order = o2 /\ p.bucket = b2 /\ p.cursor = c2 /\ p.skip = s2
    BY <1>5, <1>6, <1>7, <2>1 DEF QueueSet
  <2> QED BY <1>4, <1>5, <2>2, <2>3 DEF QInv
<1>9. Waiting(p) = Waiting(q) \ {r}
  <2>1. Waiting(p) = Members(p.bucket) /\ Waiting(q) = Members(q.bucket)
    BY DEF Waiting, Members
  <2> HIDE DEF p, b2
  <2> QED BY <1>4, <1>8, <2>1
<1>10. ASSUME NEW h, AgedHead(q, h), h # r PROVE AgedHead(p, h)
  <2>1. h \in Waiting(q) /\ h \in Requests /\ TenantOf[h] \in Tenants /\ h = Head(q.bucket[TenantOf[h]])
    BY <1>10, WaitingFacts DEF AgedHead, IsHead
  <2>2. TenantOf[h] # t
    BY <1>1, <1>10, <2>1
  <2>3. q.bucket \in [Tenants -> Seq(Requests)] /\ q.skip \in [Requests -> 0..MaxSkips]
    BY <1>2 DEF QueueSet
  <2>4. b2[TenantOf[h]] = q.bucket[TenantOf[h]]
    BY <2>1, <2>2, <2>3
  <2>5. passed = {}
    BY <1>10, AgedFacts
  <2>6. s2[h] = q.skip[h]
    BY <1>10, <2>1, <2>3, <2>5
  <2> HIDE DEF p, b2, s2, r
  <2> QED BY <1>8, <1>9, <1>10, <2>1, <2>4, <2>6 DEF AgedHead, IsHead
<1> QED BY <1>1, <1>8, <1>9, <1>10 DEF IsHead

\* A waiting request leaves from anywhere in its bucket: removeById.
LEMMA RemoveByIdFacts ==
  ASSUME NEW q, QInv(q), NEW r \in Waiting(q)
  PROVE  /\ QInv(RemoveById(q, r))
         /\ Waiting(RemoveById(q, r)) = Waiting(q) \ {r}
         /\ \A h : AgedHead(q, h) /\ h # r => AgedHead(RemoveById(q, r), h)
<1> DEFINE t == TenantOf[r]
           n == Len(q.order)
           ti == Position(q.order, t) - 1
           f == Without(q.bucket[t], {r})
           o2 == IF Len(q.bucket[t]) > 1 THEN q.order ELSE Without(q.order, {t})
           b2 == [q.bucket EXCEPT ![t] = f]
           c2 == IF Len(q.bucket[t]) > 1 THEN q.cursor
                 ELSE IF n = 1 THEN 0
                 ELSE IF ti < q.cursor THEN q.cursor - 1
                 ELSE IF q.cursor >= n - 1 THEN 0 ELSE q.cursor
           k2 == [q.skip EXCEPT ![r] = 0]
           p == RemoveById(q, r)
<1>1. r \in Requests /\ t \in Tenants /\ r \in Range(q.bucket[t]) /\ q.bucket[t] # << >>
  BY WaitingFacts
<1>2. /\ q \in QueueSet /\ BucketsOK(q.order, q.bucket) /\ IsInjective(q.bucket[t])
      /\ q.bucket[t] \in Seq(Requests) /\ q.bucket \in [Tenants -> Seq(Requests)]
  BY <1>1 DEF QInv, BucketsOK
<1>3. /\ f \in Seq(Requests) /\ IsInjective(f) /\ Range(f) = Range(q.bucket[t]) \ {r}
      /\ Head(q.bucket[t]) # r => f # << >> /\ Head(f) = Head(q.bucket[t])
  BY <1>1, <1>2, WithoutFacts
<1>4. /\ BucketsOK(o2, b2) /\ Members(b2) = Members(q.bucket) \ {r}
      /\ Len(o2) = IF Len(q.bucket[t]) > 1 THEN n ELSE n - 1
      /\ n \in Nat \ {0} /\ t \in Range(q.order)
  <2> HIDE DEF f, t, o2
  <2>1. /\ Len(q.bucket[t]) > 1 => o2 = q.order
        /\ ~(Len(q.bucket[t]) > 1) => o2 = Without(q.order, {t})
    BY DEF o2
  <2>2. Updates(q.bucket, t, f, b2)
    BY <1>1, <1>2, <1>3, ExceptUpdates
  <2> HIDE DEF b2
  <2>3. Loses(q.order, q.bucket, t, r, f, o2, b2)
    BY <1>1, <1>2, <1>3, <2>1, <2>2 DEF Loses
  <2> QED BY <2>3, BucketLoses
<1>5. c2 \in Nat /\ (IF Len(o2) = 0 THEN c2 = 0 ELSE c2 < Len(o2))
  <2>1. ti \in 0..(n - 1)
    <3>1. q.order \in Seq(Tenants)
      BY <1>2 DEF QueueSet
    <3>2. \E x \in DOMAIN q.order : q.order[x] = t
      BY <1>4 DEF Range
    <3>3. Position(q.order, t) \in DOMAIN q.order
      BY <3>2 DEF Position
    <3> QED BY <3>1, <3>3
  <2>2. q.cursor \in Nat /\ q.cursor < n
    <3>1. q.order # << >>
      BY <1>4
    <3> QED BY <1>2, <3>1 DEF QInv, QueueSet
  <2> HIDE DEF n, ti, o2
  <2> QED BY <1>4, <2>1, <2>2
<1>6. k2 \in [Requests -> 0..MaxSkips]
  <2>1. q.skip \in [Requests -> 0..MaxSkips] /\ MaxSkips \in Nat
    BY <1>2, QueueAssumption DEF QueueSet
  <2>2. 0 \in 0..MaxSkips
    BY <2>1
  <2> QED BY <2>1, <2>2
<1>7. p = [order |-> o2, bucket |-> b2, cursor |-> c2, skip |-> k2]
  <2>1. CASE Len(q.bucket[t]) > 1
    BY <1>2, <2>1 DEF RemoveById, QueueSet
  <2>2. CASE ~(Len(q.bucket[t]) > 1)
    BY <1>2, <2>2 DEF RemoveById, QueueSet
  <2> QED BY <2>1, <2>2
<1>8. QInv(p) /\ p.bucket = b2 /\ p.skip = k2
  <2>1. o2 \in Seq(Tenants) /\ b2 \in [Tenants -> Seq(Requests)]
    BY <1>4 DEF BucketsOK
  <2>2. o2 = << >> <=> Len(o2) = 0
    BY <2>1, SeqFacts
  <2> HIDE DEF o2, b2, c2, k2, p
  <2>3. p \in QueueSet /\ p.order = o2 /\ p.bucket = b2 /\ p.cursor = c2 /\ p.skip = k2
    BY <1>5, <1>6, <1>7, <2>1 DEF QueueSet
  <2> QED BY <1>4, <1>5, <2>2, <2>3 DEF QInv
<1>9. Waiting(p) = Waiting(q) \ {r}
  <2>1. Waiting(p) = Members(p.bucket) /\ Waiting(q) = Members(q.bucket)
    BY DEF Waiting, Members
  <2> HIDE DEF p, b2
  <2> QED BY <1>4, <1>8, <2>1
<1>10. ASSUME NEW h, AgedHead(q, h), h # r PROVE AgedHead(p, h)
  <2>1. h \in Waiting(q) /\ h \in Requests /\ TenantOf[h] \in Tenants /\ h = Head(q.bucket[TenantOf[h]])
    BY <1>10, WaitingFacts DEF AgedHead, IsHead
  <2>2. b2[TenantOf[h]] = IF TenantOf[h] = t THEN f ELSE q.bucket[TenantOf[h]]
    BY <1>2, <2>1
  <2>3. Head(b2[TenantOf[h]]) = h
    <3> HIDE DEF b2, f
    <3>1. CASE TenantOf[h] = t
      BY <1>3, <1>10, <2>1, <2>2, <3>1
    <3>2. CASE TenantOf[h] # t
      BY <2>1, <2>2, <3>2
    <3> QED BY <3>1, <3>2
  <2>4. k2[h] = q.skip[h]
    BY <1>2, <1>10, <2>1 DEF QueueSet
  <2> HIDE DEF p, b2, k2
  <2> QED BY <1>8, <1>9, <1>10, <2>1, <2>3, <2>4 DEF AgedHead, IsHead
<1> QED BY <1>8, <1>9, <1>10

-----------------------------------------------------------------------------
(* What a dispatch works on.                                                *)

LaneSet == [order : Seq(Tenants), fifo : [Tenants -> Seq(Requests)]]
LanesOK(l) == l \in LaneSet /\ BucketsOK(l.order, l.fifo)

WorkSet == [queue : QueueSet, lanes : LaneSet, status : [Requests -> {"out", "queued", "active"}],
            older : SUBSET (Requests \X Requests), activeCost : Int]

Active(w) == {r \in Requests : w.status[r] = "active"}

\* The books are in order: a request is queued when it waits in the shared
\* queue or in a lane, those that wait arrived one after the other, and
\* activeCost is the cost of the leases.
WInv(w) ==
  /\ w \in WorkSet
  /\ QInv(w.queue)
  /\ LanesOK(w.lanes)
  /\ Waiting(w.queue) \cap LaneQueued(w) = {}
  /\ Queued(w) = InQueue(w)
  /\ Ordered(w.older, Queued(w))
  /\ w.activeCost = Cost(Active(w))

\* No lanes are in order.
LEMMA NoLanesOK == LanesOK(NoLanes) /\ Members(NoLanes.fifo) = {}
<1> DEFINE l == NoLanes
<1>1. l \in LaneSet /\ l.order = << >> /\ \A t \in Tenants : l.fifo[t] = << >>
  BY DEF NoLanes, LaneSet
<1> HIDE DEF l
<1>2. Range(<< >>) = {} /\ IsInjective(<< >>) /\ << >> \in Seq(Tenants)
  BY EmptyRange
<1>3. l.fifo \in [Tenants -> Seq(Requests)]
  BY <1>1 DEF LaneSet
<1>4. BucketsOK(l.order, l.fifo)
  BY <1>1, <1>2, <1>3 DEF BucketsOK
<1>5. Members(l.fifo) = {}
  BY <1>1, <1>4, MemberFacts
<1> QED BY <1>1, <1>4, <1>5 DEF l, LanesOK

\* A lane keeps some of its entries, and goes when it keeps none.
LEMMA LaneKeepsFacts ==
  ASSUME NEW l, LanesOK(l), NEW t \in Tenants,
         NEW f \in Seq(Requests), IsInjective(f), Range(f) \subseteq Range(l.fifo[t])
  PROVE  /\ LanesOK(LaneKeeps(l, t, f))
         /\ Members(LaneKeeps(l, t, f).fifo) = Members(l.fifo) \ (Range(l.fifo[t]) \ Range(f))
<1> DEFINE o2 == IF f = << >> THEN Without(l.order, {t}) ELSE l.order
           b2 == [l.fifo EXCEPT ![t] = f]
<1>1. /\ l \in LaneSet /\ BucketsOK(l.order, l.fifo)
      /\ l.order \in Seq(Tenants) /\ IsInjective(l.order)
      /\ l.fifo \in [Tenants -> Seq(Requests)] /\ l.fifo[t] \in Seq(Requests)
      /\ t \in Range(l.order) <=> l.fifo[t] # << >>
      /\ \A r \in Range(l.fifo[t]) : TenantOf[r] = t
  BY DEF LanesOK, BucketsOK
<1>2. f # << >> => t \in Range(l.order)
  <2>1. f # << >> => Range(f) # {}
    BY SeqFacts
  <2>2. Range(l.fifo[t]) # {} => l.fifo[t] # << >>
    BY <1>1, SeqFacts
  <2> QED BY <1>1, <2>1, <2>2
<1>3. /\ Without(l.order, {t}) \in Seq(Tenants) /\ IsInjective(Without(l.order, {t}))
      /\ Range(Without(l.order, {t})) = Range(l.order) \ {t}
  BY <1>1, WithoutFacts
<1>4. /\ o2 \in Seq(Tenants) /\ IsInjective(o2)
      /\ f = << >> => Range(o2) = Range(l.order) \ {t}
      /\ f # << >> => Range(o2) = Range(l.order) \cup {t}
  BY <1>1, <1>2, <1>3
<1>5. Updates(l.fifo, t, f, b2)
  BY <1>1, ExceptUpdates
<1>6. LaneKeeps(l, t, f) = [order |-> o2, fifo |-> b2]
  BY DEF LaneKeeps
<1> HIDE DEF o2, b2
<1>7. Replaces(l.order, l.fifo, t, f, o2, b2)
  BY <1>1, <1>4, <1>5 DEF Replaces
<1>8. BucketsOK(o2, b2) /\ Members(b2) = (Members(l.fifo) \ Range(l.fifo[t])) \cup Range(f)
  BY <1>7, BucketReplaced
<1>9. Range(l.fifo[t]) \subseteq Members(l.fifo)
  BY <1>1, MemberFacts
<1>10. Members(b2) = Members(l.fifo) \ (Range(l.fifo[t]) \ Range(f))
  BY <1>8, <1>9
<1>11. [order |-> o2, fifo |-> b2] \in LaneSet
  BY <1>8 DEF LaneSet, BucketsOK
<1> QED BY <1>6, <1>8, <1>10, <1>11 DEF LanesOK

\* Between w and v the requests of G leave the queues, those of A, at most
\* one, with a lease.
Served(w, v, G, A) ==
  /\ v \in WorkSet
  /\ QInv(v.queue) /\ LanesOK(v.lanes)
  /\ v.older = w.older
  /\ Waiting(v.queue) \subseteq Waiting(w.queue) /\ LaneQueued(v) \subseteq LaneQueued(w)
  /\ G \subseteq Queued(w) /\ A \subseteq G /\ Queued(v) = Queued(w) \ G
  /\ \A r \in Requests : v.status[r] = IF r \in A THEN "active"
                                       ELSE IF r \in G THEN "out" ELSE w.status[r]
  /\ \/ A = {} /\ v.activeCost = w.activeCost
     \/ \E r \in Requests : A = {r} /\ v.activeCost = w.activeCost + CostOf[r]

\* That keeps the books in order.
LEMMA ServedOK ==
  ASSUME NEW w, NEW v, NEW G, NEW A, WInv(w), Served(w, v, G, A)
  PROVE  WInv(v)
<1>1. Queued(w) = InQueue(w) /\ w \in WorkSet /\ v \in WorkSet
  BY DEF WInv, Served
<1>2. Queued(v) = InQueue(v)
  <2>1. \A r \in Requests : r \in InQueue(v) <=> r \in InQueue(w) /\ r \notin G
    BY <1>1 DEF Served, InQueue
  <2>2. InQueue(v) \subseteq Requests /\ InQueue(w) \subseteq Requests
    BY DEF InQueue
  <2> QED BY <1>1, <2>1, <2>2 DEF Served
<1>3. Waiting(v.queue) \cap LaneQueued(v) = {}
  BY DEF WInv, Served
<1>4. Ordered(v.older, Queued(v))
  BY DEF WInv, Served, Ordered, StrictOn
<1>5. v.activeCost = Cost(Active(v))
  <2>1. Active(v) = Active(w) \cup A /\ Active(w) \cap A = {} /\ Active(w) \in SUBSET Requests
    <3>1. \A r \in G : r \in Requests /\ w.status[r] = "queued"
      BY <1>1 DEF Served, InQueue
    <3> QED BY <3>1 DEF Active, Served
  <2>2. CASE A = {} /\ v.activeCost = w.activeCost
    <3>1. Active(v) = Active(w)
      BY <2>1, <2>2
    <3> QED BY <2>2, <3>1 DEF WInv
  <2>3. CASE \E r \in Requests : A = {r} /\ v.activeCost = w.activeCost + CostOf[r]
    <3>1. PICK r \in Requests : A = {r} /\ v.activeCost = w.activeCost + CostOf[r]
      BY <2>3
    <3>2. r \in Requests \ Active(w) /\ Active(v) = Active(w) \cup {r}
      BY <2>1, <3>1
    <3>3. Cost(Active(w) \cup {r}) = Cost(Active(w)) + CostOf[r]
      BY <2>1, <3>2, CostFacts
    <3> QED BY <3>1, <3>2, <3>3 DEF WInv
  <2> QED BY <2>2, <2>3 DEF Served
<1> QED BY <1>2, <1>3, <1>4, <1>5 DEF WInv, Served

\* What dispatching may do between w and v: whoever is admitted leaves the
\* active cost within the limit, and an aged head that still waits stays one
\* and was overtaken only by older requests of the shared queue.
NewlyActive(w, v) == {r \in Requests : w.status[r] # "active" /\ v.status[r] = "active"}

Follows(w, v, limit) ==
  /\ v.older = w.older
  /\ Waiting(v.queue) \subseteq Waiting(w.queue)
  /\ \/ NewlyActive(w, v) = {} /\ v.activeCost = w.activeCost
     \/ v.activeCost <= limit
  /\ \A h \in Waiting(v.queue) :
       AgedHead(w.queue, h) =>
         /\ AgedHead(v.queue, h)
         /\ \A r \in NewlyActive(w, v) : r \in Waiting(w.queue) /\ <<r, h>> \in w.older

\* Nothing follows from doing nothing, and dispatching can go on.
LEMMA FollowsSelf ==
  ASSUME NEW w, NEW limit
  PROVE  Follows(w, w, limit)
  BY DEF Follows, NewlyActive

\* Several turns do what each may do.
LEMMA FollowsOn ==
  ASSUME NEW w, NEW v, NEW u, NEW limit, Follows(w, v, limit), Follows(v, u, limit)
  PROVE  Follows(w, u, limit)
<1>1. u.older = w.older /\ Waiting(u.queue) \subseteq Waiting(w.queue)
  BY DEF Follows
<1>2. NewlyActive(w, u) \subseteq NewlyActive(w, v) \cup NewlyActive(v, u)
  BY DEF NewlyActive
<1>3. \/ NewlyActive(w, u) = {} /\ u.activeCost = w.activeCost
      \/ u.activeCost <= limit
  <2>1. CASE NewlyActive(v, u) = {} /\ u.activeCost = v.activeCost
    BY <1>2, <2>1 DEF Follows
  <2>2. CASE u.activeCost <= limit
    BY <2>2
  <2> QED BY <2>1, <2>2 DEF Follows
<1>4. ASSUME NEW h \in Waiting(u.queue), AgedHead(w.queue, h)
      PROVE  /\ AgedHead(u.queue, h)
             /\ \A r \in NewlyActive(w, u) : r \in Waiting(w.queue) /\ <<r, h>> \in w.older
  <2>1. /\ AgedHead(v.queue, h)
        /\ \A r \in NewlyActive(w, v) : r \in Waiting(w.queue) /\ <<r, h>> \in w.older
    BY <1>4 DEF Follows
  <2>2. /\ AgedHead(u.queue, h)
        /\ \A r \in NewlyActive(v, u) : r \in Waiting(w.queue) /\ <<r, h>> \in w.older
    BY <1>4, <2>1 DEF Follows
  <2> QED BY <1>2, <2>1, <2>2
<1> QED BY <1>1, <1>3, <1>4 DEF Follows

\* dispatch finds nothing to take from the shared queue.
Stuck(w, limit) ==
  limit <= w.activeCost \/ Choice(w.queue, limit - w.activeCost, w.older) = {}

\* One turn of dispatch's loop takes one request from the shared queue, or
\* finds nothing and changes nothing.
LEMMA DispatchTurnFacts ==
  ASSUME NEW w, WInv(w), NEW limit \in Int, NEW late
  PROVE  /\ WInv(DispatchTurn(w, limit, late))
         /\ Follows(w, DispatchTurn(w, limit, late), limit)
         /\ DispatchTurn(w, limit, late).lanes = w.lanes
         /\ Stuck(w, limit) => DispatchTurn(w, limit, late) = w
         /\ ~Stuck(w, limit) => Cardinality(Waiting(DispatchTurn(w, limit, late).queue))
                                  = Cardinality(Waiting(w.queue)) - 1
         /\ ~Stuck(w, limit) => \A i \in Choice(w.queue, limit - w.activeCost, w.older) :
                                  HeadAt(w.queue, i) \notin Waiting(DispatchTurn(w, limit, late).queue)
<1> DEFINE room == limit - w.activeCost
           choice == IF room <= 0 THEN {} ELSE Choice(w.queue, room, w.older)
<1>1. w \in WorkSet /\ w.activeCost \in Int /\ QInv(w.queue)
  BY DEF WInv, WorkSet
<1>2. room <= 0 <=> limit <= w.activeCost
  BY <1>1
<1>3. Stuck(w, limit) <=> choice = {}
  BY <1>2 DEF Stuck
<1>4. Stuck(w, limit) => DispatchTurn(w, limit, late) = w
  BY <1>3 DEF DispatchTurn
<1>5. CASE Stuck(w, limit)
  BY <1>4, <1>5, FollowsSelf
<1>6. CASE ~Stuck(w, limit)
  <2> DEFINE i == CHOOSE j \in choice : TRUE
             r == HeadAt(w.queue, i)
             p == Dequeue(w.queue, i)
             v == DispatchTurn(w, limit, late)
             A == {r} \ late
  <2>1. i \in Choice(w.queue, room, w.older)
    BY <1>2, <1>3, <1>6 DEF Stuck
  <2>2. Ordered(w.older, Waiting(w.queue))
    BY DEF WInv, Ordered, StrictOn, Queued
  <2> HIDE DEF i
  <2>3. /\ i \in Turns(w.queue) /\ CostOf[r] <= room
        /\ Choice(w.queue, room, w.older) = {i}
        /\ \A h : AgedHead(w.queue, h) /\ h # r => <<r, h>> \in w.older
    <3> HIDE DEF room
    <3> QED BY <1>1, <2>1, <2>2, ChoiceFacts
  <2>4. /\ QInv(p) /\ r \in Waiting(w.queue) /\ Waiting(p) = Waiting(w.queue) \ {r}
        /\ \A h : AgedHead(w.queue, h) /\ h # r => AgedHead(p, h)
    BY <1>1, <2>3, DequeueFacts
  <2>5. /\ r \in Requests /\ w.status[r] = "queued" /\ r \notin LaneQueued(w)
        /\ CostOf[r] \in Nat
    <3>1. r \in InQueue(w) /\ r \notin LaneQueued(w)
      BY <2>4 DEF WInv, Queued
    <3> QED BY <3>1, CostBounds DEF InQueue
  <2>6. v = Serve([w EXCEPT !.queue = p], r, late)
    BY <1>3, <1>6 DEF DispatchTurn, i
  <2> HIDE DEF p, r, v
  <2> DEFINE st == [w.status EXCEPT ![r] = IF r \in late THEN "out" ELSE "active"]
             ac == IF r \in late THEN w.activeCost ELSE w.activeCost + CostOf[r]
  <2>7. v = [w EXCEPT !.queue = p, !.status = st, !.activeCost = ac]
    BY <1>1, <2>6 DEF Serve, Admit, Fail, WorkSet
  <2>8. /\ v \in WorkSet /\ v.queue = p /\ v.lanes = w.lanes /\ v.older = w.older
        /\ v.activeCost = IF r \in late THEN w.activeCost ELSE w.activeCost + CostOf[r]
        /\ \A s \in Requests : v.status[s] = IF s = r THEN (IF r \in late THEN "out" ELSE "active")
                                             ELSE w.status[s]
    <3>1. w.status \in [Requests -> {"out", "queued", "active"}]
      BY <1>1 DEF WorkSet
    <3>2. /\ st \in [Requests -> {"out", "queued", "active"}]
          /\ \A s \in Requests : st[s] = IF s = r THEN (IF r \in late THEN "out" ELSE "active")
                                         ELSE w.status[s]
      BY <2>5, <3>1
    <3>3. ac \in Int
      BY <1>1, <2>5
    <3>4. p \in QueueSet
      BY <2>4 DEF QInv
    <3> HIDE DEF st, ac
    <3>5. /\ v \in WorkSet /\ v.queue = p /\ v.lanes = w.lanes /\ v.older = w.older
          /\ v.activeCost = ac /\ v.status = st
      BY <1>1, <2>7, <3>2, <3>3, <3>4 DEF WorkSet
    <3> QED BY <3>2, <3>5 DEF ac
  <2>9. Served(w, v, {r}, A)
    <3>1. LaneQueued(v) = LaneQueued(w)
      BY <2>8 DEF LaneQueued
    <3>2. Queued(v) = Queued(w) \ {r} /\ {r} \subseteq Queued(w)
      BY <2>4, <2>5, <2>8, <3>1 DEF Queued
    <3>3. /\ \A s \in Requests : v.status[s] = IF s \in A THEN "active"
                                               ELSE IF s \in {r} THEN "out" ELSE w.status[s]
          /\ \/ A = {} /\ v.activeCost = w.activeCost
             \/ \E s \in Requests : A = {s} /\ v.activeCost = w.activeCost + CostOf[s]
      BY <2>5, <2>8
    <3> HIDE DEF A
    <3>4. A \subseteq {r}
      BY DEF A
    <3> QED BY <2>4, <2>8, <3>1, <3>2, <3>3, <3>4 DEF Served, WInv
  <2>10. WInv(v)
    BY <2>9, ServedOK
  <2>11. Follows(w, v, limit)
    <3>1. NewlyActive(w, v) = A
      BY <2>5, <2>8 DEF NewlyActive
    <3>2. \/ NewlyActive(w, v) = {} /\ v.activeCost = w.activeCost
          \/ v.activeCost <= limit
      BY <1>1, <2>3, <2>5, <2>8, <3>1
    <3>3. ASSUME NEW h \in Waiting(v.queue), AgedHead(w.queue, h)
          PROVE  /\ AgedHead(v.queue, h)
                 /\ \A s \in NewlyActive(w, v) : s \in Waiting(w.queue) /\ <<s, h>> \in w.older
      <4>1. h # r
        BY <2>4, <2>8, <3>3
      <4> QED BY <2>3, <2>4, <2>8, <3>1, <3>3, <4>1
    <3> QED BY <2>4, <2>8, <3>2, <3>3 DEF Follows
  <2>12. Cardinality(Waiting(v.queue)) = Cardinality(Waiting(w.queue)) - 1
    BY <1>1, <2>4, <2>8, WaitingFacts, FS_RemoveElement
  <2>13. \A j \in Choice(w.queue, room, w.older) : HeadAt(w.queue, j) \notin Waiting(v.queue)
    BY <2>3, <2>4, <2>8 DEF r
  <2> QED BY <1>6, <2>8, <2>10, <2>11, <2>12, <2>13 DEF v
<1> QED BY <1>5, <1>6

\* The loop ends with the shared queue empty or with nothing left to take.
LEMMA DispatchSharedFacts ==
  ASSUME NEW w, WInv(w), NEW limit \in Int, NEW late
  PROVE  /\ WInv(DispatchShared(w, limit, late))
         /\ Follows(w, DispatchShared(w, limit, late), limit)
         /\ DispatchShared(w, limit, late).queue.order # << >>
              => Stuck(DispatchShared(w, limit, late), limit)
         /\ Waiting(w.queue) # {} => Waiting(DispatchShared(w, limit, late).queue)
                                       \subseteq Waiting(DispatchTurn(w, limit, late).queue)
<1> DEFINE V == {v \in WorkSet : WInv(v)}
           N == Cardinality(Waiting(w.queue))
           step == [n \in 1..N |-> [v \in V |-> DispatchTurn(v, limit, late)]]
<1>1. N \in Nat /\ w \in V
  BY WaitingFacts DEF WInv
<1>2. \A v \in V : DispatchTurn(v, limit, late) \in V
  BY DispatchTurnFacts DEF WInv
<1>3. PICK f : RunsFrom(f, N, V, w, step)
  <2>1. step \in [1..N -> [V -> V]]
    BY <1>2
  <2> HIDE DEF N, step, V
  <2> QED BY <1>1, <2>1, LoopRuns
<1>4. f = [n \in 0..N |-> IF n = 0 THEN w ELSE DispatchTurn(f[n - 1], limit, late)]
  <2>1. f \in [0..N -> V] /\ f[0] = w
    BY <1>3 DEF RunsFrom
  <2>2. ASSUME NEW n \in 1..N PROVE f[n] = DispatchTurn(f[n - 1], limit, late)
    <3> HIDE DEF V, N
    <3>1. f[n - 1] \in V
      BY <1>1, <2>1
    <3>2. f[n] = step[n][f[n - 1]]
      BY <1>3 DEF RunsFrom
    <3> QED BY <3>1, <3>2
  <2> HIDE DEF V, N, step
  <2>3. \A n \in 0..N : f[n] = IF n = 0 THEN w ELSE DispatchTurn(f[n - 1], limit, late)
    BY <1>1, <2>1, <2>2
  <2> QED BY <2>1, <2>3
<1> DEFINE turn[n \in 0 .. N] == IF n = 0 THEN w ELSE DispatchTurn(turn[n - 1], limit, late)
<1>5. turn = [n \in 0..N |-> IF n = 0 THEN w ELSE DispatchTurn(turn[n - 1], limit, late)]
  BY <1>4
<1>6. DispatchShared(w, limit, late) = turn[N]
  BY DEF DispatchShared
<1> HIDE DEF turn, step
<1>7. turn[0] = w /\ \A n \in 1..N : turn[n] = DispatchTurn(turn[n - 1], limit, late)
  <2> HIDE DEF N
  <2> QED BY <1>1, <1>5
<1> DEFINE P(n) == /\ WInv(turn[n]) /\ Follows(w, turn[n], limit)
                   /\ Stuck(turn[n], limit) \/ Cardinality(Waiting(turn[n].queue)) = N - n
                   /\ n # 0 => Waiting(turn[n].queue) \subseteq Waiting(DispatchTurn(w, limit, late).queue)
           T == {n \in 0..N : P(n)}
<1>8. 0 \in T
  BY <1>1, <1>7, FollowsSelf
<1>9. ASSUME NEW n \in 1..N, n - 1 \in T PROVE n \in T
  <2> DEFINE u == turn[n - 1]
  <2>1. /\ WInv(u) /\ Follows(w, u, limit)
        /\ Stuck(u, limit) \/ Cardinality(Waiting(u.queue)) = N - (n - 1)
        /\ n - 1 # 0 => Waiting(u.queue) \subseteq Waiting(DispatchTurn(w, limit, late).queue)
        /\ n - 1 = 0 => u = w
    BY <1>7, <1>9
  <2>2. turn[n] = DispatchTurn(u, limit, late)
    BY <1>7
  <2> HIDE DEF u, N
  <2>3. /\ WInv(turn[n]) /\ Follows(u, turn[n], limit)
        /\ Stuck(u, limit) => turn[n] = u
        /\ ~Stuck(u, limit) => Cardinality(Waiting(turn[n].queue)) = Cardinality(Waiting(u.queue)) - 1
    BY <2>1, <2>2, DispatchTurnFacts
  <2>4. Follows(w, turn[n], limit)
    BY <2>1, <2>3, FollowsOn
  <2>5. Stuck(turn[n], limit) \/ Cardinality(Waiting(turn[n].queue)) = N - n
    BY <1>1, <2>1, <2>3
  <2>6. Waiting(turn[n].queue) \subseteq Waiting(DispatchTurn(w, limit, late).queue)
    BY <2>1, <2>2, <2>3 DEF Follows
  <2> QED BY <1>1, <2>3, <2>4, <2>5, <2>6
<1>10. P(N)
  <2>1. \A n \in 1..N : n - 1 \in T => n \in T
    BY <1>9
  <2>2. \A n \in 0..N : n \in T
    <3> HIDE DEF T, N
    <3> QED BY <1>1, <1>8, <2>1, LoopInduction
  <2> HIDE DEF P, N
  <2> QED BY <1>1, <2>2
<1>11. Cardinality(Waiting(turn[N].queue)) = 0 => turn[N].queue.order = << >>
  <2> DEFINE p == turn[N].queue
  <2>1. QInv(p)
    BY <1>10 DEF WInv
  <2> HIDE DEF p
  <2>2. Cardinality(Waiting(p)) = 0 => p.order = << >>
    BY <2>1, WaitingFacts, FS_EmptySet
  <2> QED BY <2>2 DEF p
<1>12. N - N = 0
  BY <1>1
<1>13. Waiting(w.queue) # {} => N # 0
  BY WaitingFacts, FS_EmptySet DEF WInv
<1> HIDE DEF N
<1> QED BY <1>6, <1>10, <1>11, <1>12, <1>13

\* One lane's turn: late requests go, then at most one is admitted.  The
\* lanes have their turn only while the shared queue is empty.
LEMMA DispatchLaneFacts ==
  ASSUME NEW w, WInv(w), Waiting(w.queue) = {}, NEW t \in Tenants, NEW limit \in Int, NEW late
  PROVE  /\ WInv(DispatchLane(w, t, limit, late))
         /\ Follows(w, DispatchLane(w, t, limit, late), limit)
         /\ DispatchLane(w, t, limit, late).queue = w.queue
<1> DEFINE room  == limit - w.activeCost
           fifo  == w.lanes.fifo[t]
           stays == {k \in 1 .. Len(fifo) : fifo[k] \notin late \/ CostOf[fifo[k]] > room}
           n     == IF stays = {} THEN Len(fifo) ELSE Min(stays) - 1
           rest  == SubSeq(fifo, n + 1, Len(fifo))
           gone  == {fifo[k] : k \in 1 .. n}
           admits == rest # << >> /\ CostOf[Head(rest)] <= room
           f     == IF admits THEN Tail(rest) ELSE rest
           A     == IF admits THEN {Head(rest)} ELSE {}
           G     == gone \cup A
           v     == DispatchLane(w, t, limit, late)
<1>1. /\ w \in WorkSet /\ w.activeCost \in Int /\ LanesOK(w.lanes) /\ w.lanes \in LaneSet
      /\ w.status \in [Requests -> {"out", "queued", "active"}]
      /\ QInv(w.queue)
      /\ fifo \in Seq(Requests) /\ IsInjective(fifo)
  BY DEF WInv, WorkSet, LanesOK, BucketsOK
<1>2. CASE room <= 0
  <2>1. v = w
    BY <1>2 DEF DispatchLane
  <2> QED BY <2>1, FollowsSelf
<1>3. CASE ~(room <= 0)
  <2>1. n \in 0..Len(fifo)
    <3>1. Len(fifo) \in Nat
      BY <1>1
    <3>2. CASE stays = {}
      BY <3>1, <3>2
    <3>3. CASE stays # {}
      <4>1. stays \in SUBSET Nat /\ stays \subseteq 1..Len(fifo)
        BY <3>1
      <4>2. Min(stays) \in 1..Len(fifo)
        <5> HIDE DEF stays
        <5> QED BY <3>3, <4>1, MinTurn
      <4> HIDE DEF stays, fifo
      <4> QED BY <3>1, <3>3, <4>2
    <3> QED BY <3>2, <3>3
  <2> HIDE DEF n, fifo
  <2>2. /\ rest \in Seq(Requests) /\ IsInjective(rest) /\ Range(rest) = Range(fifo) \ gone
    <3>1. fifo \in Seq(Requests) /\ IsInjective(fifo)
      BY <1>1
    <3>2. gone = {fifo[i] : i \in 1..n}
      OBVIOUS
    <3> HIDE DEF gone
    <3> QED BY <2>1, <3>1, <3>2, DropRange, Zenon
  <2>3. gone \subseteq Range(fifo)
    <3>1. \A k \in 1..Len(fifo) : fifo[k] \in Range(fifo)
      BY <1>1, SeqFacts
    <3>2. Len(fifo) \in Nat
      BY <1>1
    <3>3. \A k \in 1..n : k \in 1..Len(fifo)
      BY <2>1, <3>2
    <3> QED BY <3>1, <3>3
  <2>4. rest # << >> => Head(rest) \in Range(rest)
    <3> HIDE DEF rest
    <3> QED BY <2>2, SeqFacts
  <2> HIDE DEF rest, gone
  <2>5. /\ f \in Seq(Requests) /\ IsInjective(f) /\ Range(f) = Range(fifo) \ G
        /\ G \subseteq Range(fifo)
    <3>1. rest # << >> => /\ Tail(rest) \in Seq(Requests) /\ IsInjective(Tail(rest))
                          /\ Range(Tail(rest)) = Range(rest) \ {Head(rest)}
      BY <2>2, TailRange
    <3>2. CASE admits
      BY <2>2, <2>3, <2>4, <3>1, <3>2
    <3>3. CASE ~admits
      BY <2>2, <2>3, <3>3
    <3> QED BY <3>2, <3>3
  <2>6. Range(fifo) \subseteq LaneQueued(w)
    BY DEF LaneQueued, fifo
  <2>7. \A r \in G : r \in Requests /\ w.status[r] = "queued"
    <3>1. G \subseteq Queued(w)
      BY <2>5, <2>6 DEF Queued
    <3> HIDE DEF G
    <3> QED BY <3>1 DEF WInv, InQueue
  <2> DEFINE l == LaneKeeps(w.lanes, t, f)
             st == [r \in Requests |-> IF r \in A THEN "active" ELSE IF r \in G THEN "out" ELSE w.status[r]]
             ac == IF admits THEN w.activeCost + CostOf[Head(rest)] ELSE w.activeCost
  <2>8. v = [w EXCEPT !.lanes = l, !.status = st, !.activeCost = ac]
    <3>1. CASE admits
      <4> DEFINE x == Head(rest)
      <4>1. v = Admit([[w EXCEPT !.status = [r \in Requests |-> IF r \in gone THEN "out" ELSE w.status[r]]]
                          EXCEPT !.lanes = LaneKeeps(w.lanes, t, Tail(rest))], x)
        BY <1>1, <1>3, <3>1 DEF DispatchLane, WorkSet, rest, gone, n, fifo
      <4>2. x \in Requests /\ f = Tail(rest) /\ ac = w.activeCost + CostOf[x]
        BY <2>7, <3>1
      <4>3. st = [[r \in Requests |-> IF r \in gone THEN "out" ELSE w.status[r]] EXCEPT ![x] = "active"]
        BY <3>1, <4>2
      <4> HIDE DEF x, f, st, ac
      <4> QED BY <1>1, <4>1, <4>2, <4>3 DEF Admit, WorkSet
    <3>2. CASE ~admits
      <4>1. v = [[w EXCEPT !.status = [r \in Requests |-> IF r \in gone THEN "out" ELSE w.status[r]]]
                    EXCEPT !.lanes = LaneKeeps(w.lanes, t, rest)]
        BY <1>1, <1>3, <3>2 DEF DispatchLane, WorkSet, rest, gone, n, fifo
      <4>2. f = rest /\ ac = w.activeCost
        BY <3>2
      <4>3. st = [r \in Requests |-> IF r \in gone THEN "out" ELSE w.status[r]]
        BY <3>2
      <4> HIDE DEF f, st, ac
      <4> QED BY <1>1, <4>1, <4>2, <4>3 DEF WorkSet
    <3> QED BY <3>1, <3>2
  <2>9. LanesOK(l) /\ Members(l.fifo) = LaneQueued(w) \ G
    <3>1. LaneQueued(w) = Members(w.lanes.fifo)
      BY DEF LaneQueued, Members
    <3>2. Range(f) \subseteq Range(w.lanes.fifo[t])
      BY <2>5 DEF fifo
    <3> HIDE DEF f, l, G
    <3>3. /\ LanesOK(LaneKeeps(w.lanes, t, f))
          /\ Members(LaneKeeps(w.lanes, t, f).fifo)
               = Members(w.lanes.fifo) \ (Range(w.lanes.fifo[t]) \ Range(f))
      BY <1>1, <2>5, <3>2, LaneKeepsFacts
    <3>4. Range(w.lanes.fifo[t]) \ Range(f) = G
      BY <2>5 DEF fifo
    <3> QED BY <3>1, <3>3, <3>4 DEF l
  <2>10. /\ v \in WorkSet /\ v.queue = w.queue /\ v.lanes = l /\ v.older = w.older
         /\ v.activeCost = ac /\ v.status = st
    <3>1. st \in [Requests -> {"out", "queued", "active"}]
      BY <1>1
    <3>2. ac \in Int
      <4>1. admits => Head(rest) \in Requests
        BY <2>7
      <4> HIDE DEF admits
      <4> QED BY <1>1, <4>1, CostBounds
    <3>3. l \in LaneSet
      BY <2>9 DEF LanesOK
    <3> HIDE DEF st, ac, l, v
    <3> QED BY <1>1, <2>8, <3>1, <3>2, <3>3 DEF WorkSet
  <2>11. Served(w, v, G, A)
    <3>1. LaneQueued(v) = LaneQueued(w) \ G
      BY <2>9, <2>10 DEF LaneQueued, Members
    <3>2. Queued(v) = Queued(w) \ G /\ G \subseteq Queued(w)
      BY <2>5, <2>6, <2>10, <3>1 DEF Queued
    <3>3. \A r \in Requests : v.status[r] = IF r \in A THEN "active"
                                            ELSE IF r \in G THEN "out" ELSE w.status[r]
      BY <2>10
    <3>4. \/ A = {} /\ v.activeCost = w.activeCost
          \/ \E r \in Requests : A = {r} /\ v.activeCost = w.activeCost + CostOf[r]
      BY <2>7, <2>10
    <3>5. A \subseteq G
      OBVIOUS
    <3> HIDE DEF v, l, G, A
    <3> QED BY <1>1, <2>9, <2>10, <3>1, <3>2, <3>3, <3>4, <3>5 DEF Served
  <2>12. WInv(v)
    BY <2>11, ServedOK
  <2>13. Follows(w, v, limit)
    <3>1. NewlyActive(w, v) \subseteq A
      <4> HIDE DEF A, G, v
      <4> QED BY <2>10 DEF NewlyActive
    <3>2. \/ NewlyActive(w, v) = {} /\ v.activeCost = w.activeCost
          \/ v.activeCost <= limit
      <4>1. CASE admits
        <5>1. Head(rest) \in Requests
          BY <2>7, <4>1
        <5>2. CostOf[Head(rest)] \in Nat
          BY <5>1, CostBounds
        <5>3. v.activeCost = w.activeCost + CostOf[Head(rest)]
          BY <2>10, <4>1
        <5>4. CostOf[Head(rest)] <= limit - w.activeCost
          BY <4>1
        <5> HIDE DEF v
        <5> QED BY <1>1, <5>2, <5>3, <5>4
      <4>2. CASE ~admits
        BY <2>10, <3>1, <4>2
      <4> QED BY <4>1, <4>2
    <3> HIDE DEF v
    <3> QED BY <2>10, <3>2 DEF Follows
  <2> QED BY <2>10, <2>12, <2>13 DEF v
<1> QED BY <1>2, <1>3

\* Every lane has its turn.
LEMMA DispatchLanesFacts ==
  ASSUME NEW w, WInv(w), Waiting(w.queue) = {}, NEW limit \in Int, NEW late
  PROVE  /\ WInv(DispatchLanes(w, limit, late))
         /\ Follows(w, DispatchLanes(w, limit, late), limit)
         /\ DispatchLanes(w, limit, late).queue = w.queue
<1> DEFINE V == {v \in WorkSet : WInv(v) /\ v.queue = w.queue}
           o == w.lanes.order
           N == Len(o)
           step == [n \in 1..N |-> [v \in V |-> DispatchLane(v, o[n], limit, late)]]
<1>1. N \in Nat /\ w \in V /\ \A n \in 1..N : o[n] \in Tenants
  <2>1. o \in Seq(Tenants)
    BY DEF WInv, LanesOK, BucketsOK
  <2> QED BY <2>1 DEF WInv
<1>2. ASSUME NEW v \in V, NEW n \in 1..N PROVE DispatchLane(v, o[n], limit, late) \in V
  <2> DEFINE u == DispatchLane(v, o[n], limit, late)
  <2>1. WInv(v) /\ v.queue = w.queue /\ Waiting(v.queue) = {}
    OBVIOUS
  <2>2. WInv(u) /\ u.queue = v.queue
    <3> HIDE DEF o, V
    <3> QED BY <1>1, <2>1, DispatchLaneFacts
  <2> HIDE DEF u
  <2>3. u \in V
    BY <2>1, <2>2 DEF WInv
  <2> QED BY <2>3 DEF u
<1>3. PICK f : RunsFrom(f, N, V, w, step)
  <2>1. step \in [1..N -> [V -> V]]
    <3> HIDE DEF V, o, N
    <3> QED BY <1>2
  <2> HIDE DEF N, step, V
  <2> QED BY <1>1, <2>1, LoopRuns
<1>4. f = [n \in 0..N |-> IF n = 0 THEN w ELSE DispatchLane(f[n - 1], o[n], limit, late)]
  <2>1. f \in [0..N -> V] /\ f[0] = w
    BY <1>3 DEF RunsFrom
  <2>2. ASSUME NEW n \in 1..N PROVE f[n] = DispatchLane(f[n - 1], o[n], limit, late)
    <3> HIDE DEF V, N, o
    <3>1. f[n - 1] \in V
      BY <1>1, <2>1
    <3>2. f[n] = step[n][f[n - 1]]
      BY <1>3 DEF RunsFrom
    <3> QED BY <3>1, <3>2
  <2> HIDE DEF V, N, step, o
  <2>3. \A n \in 0..N : f[n] = IF n = 0 THEN w ELSE DispatchLane(f[n - 1], o[n], limit, late)
    BY <1>1, <2>1, <2>2
  <2> QED BY <2>1, <2>3
<1> DEFINE turn[n \in 0 .. N] ==
             IF n = 0 THEN w ELSE DispatchLane(turn[n - 1], o[n], limit, late)
<1>5. turn = [n \in 0..N |-> IF n = 0 THEN w ELSE DispatchLane(turn[n - 1], o[n], limit, late)]
  BY <1>4
<1>6. DispatchLanes(w, limit, late) = turn[N]
  BY DEF DispatchLanes
<1> HIDE DEF turn, step
<1>7. turn[0] = w /\ \A n \in 1..N : turn[n] = DispatchLane(turn[n - 1], o[n], limit, late)
  <2> HIDE DEF N, o
  <2> QED BY <1>1, <1>5
<1> DEFINE P(n) == WInv(turn[n]) /\ Follows(w, turn[n], limit) /\ turn[n].queue = w.queue
           T == {n \in 0..N : P(n)}
<1>8. 0 \in T
  BY <1>1, <1>7, FollowsSelf
<1>9. ASSUME NEW n \in 1..N, n - 1 \in T PROVE n \in T
  <2> DEFINE u == turn[n - 1]
  <2>1. WInv(u) /\ Follows(w, u, limit) /\ u.queue = w.queue
    BY <1>9
  <2>2. turn[n] = DispatchLane(u, o[n], limit, late) /\ o[n] \in Tenants
    BY <1>1, <1>7
  <2> HIDE DEF u, N, o
  <2>3. WInv(turn[n]) /\ Follows(u, turn[n], limit) /\ turn[n].queue = u.queue
    BY <2>1, <2>2, DispatchLaneFacts
  <2>4. Follows(w, turn[n], limit)
    BY <2>1, <2>3, FollowsOn
  <2> QED BY <1>1, <2>1, <2>3, <2>4
<1>10. P(N)
  <2>1. \A n \in 1..N : n - 1 \in T => n \in T
    BY <1>9
  <2>2. \A n \in 0..N : n \in T
    <3> HIDE DEF T, N
    <3> QED BY <1>1, <1>8, <2>1, LoopInduction
  <2> HIDE DEF P, N
  <2> QED BY <1>1, <2>2
<1> HIDE DEF N
<1> QED BY <1>6, <1>10

\* dispatch keeps the books, does what it may do, and leaves no fitting head.
LEMMA DispatchFacts ==
  ASSUME NEW w, WInv(w), NEW limit \in Int, NEW late
  PROVE  /\ WInv(Dispatch(w, limit, late))
         /\ Follows(w, Dispatch(w, limit, late), limit)
         /\ Dispatch(w, limit, late).queue.order # << >> => Stuck(Dispatch(w, limit, late), limit)
<1> DEFINE v == DispatchShared(w, limit, late)
<1>1. WInv(v) /\ Follows(w, v, limit) /\ (v.queue.order # << >> => Stuck(v, limit))
  BY DispatchSharedFacts
<1>2. Dispatch(w, limit, late) = IF v.queue.order # << >> THEN v ELSE DispatchLanes(v, limit, late)
  BY DEF Dispatch
<1> HIDE DEF v
<1>3. CASE v.queue.order # << >>
  BY <1>1, <1>2, <1>3
<1>4. CASE v.queue.order = << >>
  <2> DEFINE u == DispatchLanes(v, limit, late)
  <2>1. Waiting(v.queue) = {}
    BY <1>1, <1>4, WaitingFacts DEF WInv
  <2>2. WInv(u) /\ Follows(v, u, limit) /\ u.queue = v.queue
    BY <1>1, <2>1, DispatchLanesFacts
  <2>3. Dispatch(w, limit, late) = u
    BY <1>2, <1>4
  <2> HIDE DEF u
  <2>4. Follows(w, u, limit)
    BY <1>1, <2>2, FollowsOn
  <2> QED BY <1>4, <2>2, <2>3, <2>4
<1> QED BY <1>3, <1>4

\* Whom dispatch would take first is served: it waits no longer.
LEMMA FirstChoiceServed ==
  ASSUME NEW w, WInv(w), NEW limit \in Int, NEW late, limit > w.activeCost,
         NEW i \in Choice(w.queue, limit - w.activeCost, w.older)
  PROVE  HeadAt(w.queue, i) \notin Waiting(Dispatch(w, limit, late).queue)
<1> DEFINE v == DispatchShared(w, limit, late)
           h == HeadAt(w.queue, i)
<1>1. w.activeCost \in Int /\ QInv(w.queue)
  BY DEF WInv, WorkSet
<1>2. ~Stuck(w, limit)
  BY <1>1 DEF Stuck
<1>3. h \notin Waiting(DispatchTurn(w, limit, late).queue)
  BY <1>2, DispatchTurnFacts
<1>4. Waiting(w.queue) # {}
  <2>1. Ordered(w.older, Waiting(w.queue))
    BY DEF WInv, Ordered, StrictOn, Queued
  <2>2. i \in Turns(w.queue)
    BY <1>1, <2>1, ChoiceFacts
  <2> QED BY <1>1, <2>2, DequeueFacts
<1>5. WInv(v) /\ Waiting(v.queue) \subseteq Waiting(DispatchTurn(w, limit, late).queue)
  BY <1>4, DispatchSharedFacts
<1>6. Dispatch(w, limit, late) = IF v.queue.order # << >> THEN v ELSE DispatchLanes(v, limit, late)
  BY DEF Dispatch
<1> HIDE DEF v
<1>7. CASE v.queue.order # << >>
  BY <1>3, <1>5, <1>6, <1>7
<1>8. CASE v.queue.order = << >>
  <2>1. Waiting(v.queue) = {}
    BY <1>5, <1>8, WaitingFacts DEF WInv
  <2>2. DispatchLanes(v, limit, late).queue = v.queue
    BY <1>5, <2>1, DispatchLanesFacts
  <2> QED BY <1>6, <1>8, <2>1, <2>2
<1> QED BY <1>7, <1>8

-----------------------------------------------------------------------------
(* updateConfig: what was queued is drained and queued again.               *)

\* What is left of q, and what has been drained of it.
DrainSet == [queue : QueueSet, out : Seq(Requests)]
Draining(q, d) ==
  /\ d \in DrainSet /\ QInv(d.queue) /\ IsInjective(d.out)
  /\ Waiting(d.queue) \subseteq Waiting(q) /\ Range(d.out) = Waiting(q) \ Waiting(d.queue)

\* An aged head that holds the reservation is the first to be drained.
Leading(q, before, d) ==
  IF d.out = << >> THEN d.queue = q
  ELSE Aged(q) # {} => Head(d.out) = HeadAt(q, Reserved(q, before))

\* One turn of drain's loop takes one request, while any waits.
LEMMA DrainTurnFacts ==
  ASSUME NEW q, QInv(q), NEW before, Ordered(before, Waiting(q)), NEW d, Draining(q, d)
  PROVE  /\ Draining(q, DrainTurn(d, before))
         /\ Waiting(d.queue) # {} => Cardinality(Waiting(DrainTurn(d, before).queue))
                                       = Cardinality(Waiting(d.queue)) - 1
         /\ Leading(q, before, d) => Leading(q, before, DrainTurn(d, before))
<1> DEFINE choice == Choice(d.queue, Cost(Requests), before)
           i == CHOOSE j \in choice : TRUE
           r == HeadAt(d.queue, i)
           p == Dequeue(d.queue, i)
           e == DrainTurn(d, before)
<1>1. d \in DrainSet /\ QInv(d.queue) /\ d.out \in Seq(Requests) /\ Ordered(before, Waiting(d.queue))
  BY DEF Draining, DrainSet, Ordered, StrictOn
<1>2. Waiting(d.queue) # {} => choice # {}
  BY <1>1, ChoiceOfAll
<1>3. CASE choice = {}
  <2>1. e = d /\ Waiting(d.queue) = {}
    BY <1>2, <1>3 DEF DrainTurn
  <2> QED BY <2>1
<1>4. CASE choice # {}
  <2>1. i \in choice
    BY <1>4
  <2>2. e = [queue |-> p, out |-> Append(d.out, r)]
    BY <1>4 DEF DrainTurn
  <2> HIDE DEF i
  <2>3. i \in Turns(d.queue)
    BY <1>1, <2>1, ChoiceFacts
  <2>4. QInv(p) /\ r \in Waiting(d.queue) /\ Waiting(p) = Waiting(d.queue) \ {r}
    BY <1>1, <2>3, DequeueFacts
  <2>5. r \in Requests /\ r \notin Range(d.out) /\ r \in Waiting(q)
    BY <1>1, <2>4, WaitingFacts DEF Draining
  <2>6. /\ Append(d.out, r) \in Seq(Requests) /\ IsInjective(Append(d.out, r))
        /\ Range(Append(d.out, r)) = Range(d.out) \cup {r}
    BY <1>1, <2>5, AppendRange DEF Draining
  <2>7. p \in QueueSet
    BY <2>4 DEF QInv
  <2> HIDE DEF p, r, e
  <2>8. e \in DrainSet /\ e.queue = p /\ e.out = Append(d.out, r)
    BY <2>2, <2>6, <2>7 DEF DrainSet
  <2>9. Draining(q, e)
    BY <2>4, <2>5, <2>6, <2>8 DEF Draining
  <2>10. Cardinality(Waiting(e.queue)) = Cardinality(Waiting(d.queue)) - 1
    BY <1>1, <2>4, <2>8, WaitingFacts, FS_RemoveElement
  <2>11. ASSUME Leading(q, before, d) PROVE Leading(q, before, e)
    <3>1. e.out # << >> /\ (d.out # << >> => Head(e.out) = Head(d.out))
      BY <1>1, <2>5, <2>8, AppendRange
    <3>2. ASSUME d.out = << >>, Aged(q) # {} PROVE Head(e.out) = HeadAt(q, Reserved(q, before))
      <4>1. d.queue = q
        BY <2>11, <3>2 DEF Leading
      <4>2. i = Reserved(q, before)
        BY <2>1, <3>2, <4>1 DEF Choice
      <4>3. r = HeadAt(q, Reserved(q, before))
        BY <4>1, <4>2 DEF r
      <4>4. Head(Append(<< >>, r)) = r
        BY <2>5
      <4> QED BY <2>8, <3>2, <4>3, <4>4
    <3> QED BY <2>11, <3>1, <3>2 DEF Leading
  <2> QED BY <2>9, <2>10, <2>11 DEF e
<1> QED BY <1>3, <1>4

\* drain gives every waiting request once.
LEMMA DrainedFacts ==
  ASSUME NEW q, QInv(q), NEW before, Ordered(before, Waiting(q))
  PROVE  /\ Drained(q, before) \in Seq(Requests)
         /\ IsInjective(Drained(q, before))
         /\ Range(Drained(q, before)) = Waiting(q)
         /\ Aged(q) # {} => /\ Drained(q, before) # << >>
                            /\ Head(Drained(q, before)) = HeadAt(q, Reserved(q, before))
<1> DEFINE V == {d \in DrainSet : Draining(q, d)}
           N == Cardinality(Waiting(q))
           first == [queue |-> q, out |-> << >>]
           step == [n \in 1..N |-> [d \in V |-> DrainTurn(d, before)]]
<1>1. N \in Nat
  BY WaitingFacts
<1>2. first \in V /\ first.queue = q /\ Leading(q, before, first)
  <2>1. first \in DrainSet /\ first.queue = q /\ first.out = << >>
    BY DEF DrainSet, QInv
  <2>2. Range(<< >>) = {} /\ IsInjective(<< >>)
    BY EmptyRange
  <2> HIDE DEF first
  <2>3. Draining(q, first)
    BY <2>1, <2>2 DEF Draining
  <2>4. Leading(q, before, first)
    BY <2>1 DEF Leading
  <2> QED BY <2>1, <2>3, <2>4
<1> HIDE DEF first
<1>3. \A d \in V : DrainTurn(d, before) \in V
  BY DrainTurnFacts DEF Draining
<1>4. PICK f : RunsFrom(f, N, V, first, step)
  <2>1. step \in [1..N -> [V -> V]]
    BY <1>3
  <2> HIDE DEF N, step, V
  <2> QED BY <1>1, <1>2, <2>1, LoopRuns
<1>5. f = [n \in 0..N |-> IF n = 0 THEN first ELSE DrainTurn(f[n - 1], before)]
  <2>1. f \in [0..N -> V] /\ f[0] = first
    BY <1>4 DEF RunsFrom
  <2>2. ASSUME NEW n \in 1..N PROVE f[n] = DrainTurn(f[n - 1], before)
    <3> HIDE DEF V, N
    <3>1. f[n - 1] \in V
      BY <1>1, <2>1
    <3>2. f[n] = step[n][f[n - 1]]
      BY <1>4 DEF RunsFrom
    <3> QED BY <3>1, <3>2
  <2> HIDE DEF V, N, step
  <2>3. \A n \in 0..N : f[n] = IF n = 0 THEN first ELSE DrainTurn(f[n - 1], before)
    BY <1>1, <2>1, <2>2
  <2> QED BY <2>1, <2>3
<1> DEFINE turn[n \in 0 .. N] ==
             IF n = 0 THEN [queue |-> q, out |-> << >>] ELSE DrainTurn(turn[n - 1], before)
<1>6. turn = [n \in 0..N |-> IF n = 0 THEN first ELSE DrainTurn(turn[n - 1], before)]
  BY <1>5 DEF first
<1>7. Drained(q, before) = turn[N].out
  BY DEF Drained
<1> HIDE DEF turn, step
<1>8. turn[0] = first /\ \A n \in 1..N : turn[n] = DrainTurn(turn[n - 1], before)
  <2> HIDE DEF N
  <2> QED BY <1>1, <1>6
<1> DEFINE P(n) == /\ Draining(q, turn[n]) /\ Cardinality(Waiting(turn[n].queue)) = N - n
                   /\ Leading(q, before, turn[n])
           T == {n \in 0..N : P(n)}
<1>9. 0 \in T
  BY <1>1, <1>2, <1>8
<1>10. ASSUME NEW n \in 1..N, n - 1 \in T PROVE n \in T
  <2> DEFINE d == turn[n - 1]
  <2>1. /\ Draining(q, d) /\ Cardinality(Waiting(d.queue)) = N - (n - 1)
        /\ Leading(q, before, d)
    BY <1>10
  <2>2. turn[n] = DrainTurn(d, before)
    BY <1>8
  <2> HIDE DEF d, N
  <2>3. Cardinality(Waiting(d.queue)) # 0
    BY <1>1, <2>1
  <2>4. Waiting(d.queue) # {}
    BY <2>3, FS_EmptySet
  <2>5. /\ Draining(q, turn[n])
        /\ Cardinality(Waiting(turn[n].queue)) = Cardinality(Waiting(d.queue)) - 1
        /\ Leading(q, before, turn[n])
    BY <2>1, <2>2, <2>4, DrainTurnFacts
  <2> QED BY <1>1, <2>1, <2>5
<1>11. P(N)
  <2>1. \A n \in 1..N : n - 1 \in T => n \in T
    BY <1>10
  <2>2. \A n \in 0..N : n \in T
    <3> HIDE DEF T, N
    <3> QED BY <1>1, <1>9, <2>1, LoopInduction
  <2> HIDE DEF P, N
  <2> QED BY <1>1, <2>2
<1> DEFINE last == turn[N]
<1>12. /\ Draining(q, last) /\ Cardinality(Waiting(last.queue)) = N - N
       /\ Leading(q, before, last)
  BY <1>11
<1> HIDE DEF last
<1>13. Waiting(last.queue) = {}
  <2>1. N - N = 0
    BY <1>1
  <2> HIDE DEF N
  <2>2. IsFiniteSet(Waiting(last.queue))
    BY <1>12, WaitingFacts DEF Draining
  <2> QED BY <1>12, <2>1, <2>2, FS_EmptySet
<1>14. last.out \in Seq(Requests) /\ IsInjective(last.out) /\ Range(last.out) = Waiting(q)
  BY <1>12, <1>13 DEF Draining, DrainSet
<1>15. ASSUME Aged(q) # {}
       PROVE  last.out # << >> /\ Head(last.out) = HeadAt(q, Reserved(q, before))
  <2>1. Waiting(q) # {}
    BY <1>15, AgedFacts DEF AgedHead, IsHead
  <2>2. last.out # << >>
    BY <1>14, <2>1, EmptyRange
  <2> QED BY <1>12, <1>15, <2>2 DEF Leading
<1> QED BY <1>7, <1>14, <1>15 DEF last

\* What is first stays first when more is added.
LEMMA ConcatHead ==
  ASSUME NEW S, NEW p \in Seq(S), NEW q \in Seq(S), p # << >>
  PROVE  p \o q # << >> /\ Head(p \o q) = Head(p)
<1>1. Len(p) \in Nat \ {0} /\ Len(q) \in Nat /\ p \o q \in Seq(S)
  OBVIOUS
<1>2. Len(p \o q) = Len(p) + Len(q) /\ (p \o q)[1] = p[1]
  BY <1>1
<1> QED BY <1>1, <1>2

\* updateConfig drains everything that is queued, once.
LEMMA AllDrainedFacts ==
  ASSUME WInv(Work)
  PROVE  /\ AllDrained \in Seq(Requests)
         /\ IsInjective(AllDrained)
         /\ Range(AllDrained) = Queued(Work)
         /\ Aged(queue) # {} => AllDrained # << >> /\ Head(AllDrained) = ReservedHead
<1> DEFINE V == Seq(Requests)
           o == lanes.order
           b == lanes.fifo
           N == Len(o)
           first == Drained(queue, older)
           Turn(n, s) == s \o b[o[n]]
           step == [n \in 1..N |-> [s \in V |-> Turn(n, s)]]
           Laned(n) == UNION {Range(b[o[i]]) : i \in 1..n}
<1>1. /\ QInv(queue) /\ LanesOK(lanes) /\ BucketsOK(o, b) /\ Ordered(older, Waiting(queue))
      /\ LaneQueued(Work) = Members(b) /\ Queued(Work) = Waiting(queue) \cup Members(b)
      /\ Waiting(queue) \cap Members(b) = {}
  <2>1. Work.queue = queue /\ Work.lanes = lanes /\ Work.older = older
    BY DEF Work
  <2>2. LaneQueued(Work) = Members(b)
    BY <2>1 DEF LaneQueued, Members
  <2>3. Queued(Work) = Waiting(queue) \cup Members(b)
    BY <2>1, <2>2 DEF Queued
  <2>4. QInv(queue) /\ LanesOK(lanes) /\ Waiting(queue) \cap Members(b) = {}
    BY <2>1, <2>2 DEF WInv
  <2>5. Ordered(older, Waiting(queue))
    BY <2>1, <2>3 DEF WInv, Ordered, StrictOn
  <2> QED BY <2>2, <2>3, <2>4, <2>5 DEF LanesOK
<1>2. /\ N \in Nat /\ o \in Seq(Tenants) /\ Distinct(o)
      /\ \A n \in 1..N : o[n] \in Tenants /\ b[o[n]] \in Seq(Requests)
  <2>1. o \in Seq(Tenants) /\ IsInjective(o) /\ b \in [Tenants -> Seq(Requests)]
    BY <1>1 DEF BucketsOK
  <2> QED BY <2>1, AsQueue
<1>3. /\ first \in V /\ IsInjective(first) /\ Range(first) = Waiting(queue)
      /\ Aged(queue) # {} => first # << >> /\ Head(first) = ReservedHead
  BY <1>1, DrainedFacts DEF ReservedHead
<1> HIDE DEF first, o, b
<1>4. PICK f : RunsFrom(f, N, V, first, step)
  <2>1. step \in [1..N -> [V -> V]]
    BY <1>2
  <2> HIDE DEF N, step, V
  <2> QED BY <1>2, <1>3, <2>1, LoopRuns
<1>5. f = [n \in 0..N |-> IF n = 0 THEN first ELSE Turn(n, f[n - 1])]
  <2>1. f \in [0..N -> V] /\ f[0] = first
    BY <1>4 DEF RunsFrom
  <2>2. ASSUME NEW n \in 1..N PROVE f[n] = Turn(n, f[n - 1])
    <3> HIDE DEF V, N
    <3>1. f[n - 1] \in V
      BY <1>2, <2>1
    <3>2. f[n] = step[n][f[n - 1]]
      BY <1>4 DEF RunsFrom
    <3> QED BY <3>1, <3>2
  <2> HIDE DEF V, N, step, Turn
  <2>3. \A n \in 0..N : f[n] = IF n = 0 THEN first ELSE Turn(n, f[n - 1])
    BY <1>2, <2>1, <2>2
  <2> QED BY <2>1, <2>3
<1> DEFINE upTo[n \in 0 .. N] == IF n = 0 THEN first ELSE upTo[n - 1] \o b[o[n]]
<1>6. upTo = [n \in 0..N |-> IF n = 0 THEN first ELSE Turn(n, upTo[n - 1])]
  BY <1>5
<1>7. AllDrained = upTo[N]
  BY DEF AllDrained, first, o, b
<1> HIDE DEF upTo, step
<1>8. upTo[0] = first /\ \A n \in 1..N : upTo[n] = Turn(n, upTo[n - 1])
  <2> HIDE DEF N, Turn
  <2> QED BY <1>2, <1>6
<1> DEFINE P(n) == /\ upTo[n] \in Seq(Requests) /\ IsInjective(upTo[n])
                   /\ Range(upTo[n]) = Waiting(queue) \cup Laned(n)
                   /\ first # << >> => upTo[n] # << >> /\ Head(upTo[n]) = Head(first)
           T == {n \in 0..N : P(n)}
<1>9. 0 \in T
  <2>1. Laned(0) = {}
    OBVIOUS
  <2> HIDE DEF Laned
  <2> QED BY <1>2, <1>3, <1>8, <2>1
<1>10. ASSUME NEW n \in 1..N, n - 1 \in T PROVE n \in T
  <2>1. P(n - 1)
    BY <1>10
  <2>2. upTo[n] = upTo[n - 1] \o b[o[n]] /\ b[o[n]] \in Seq(Requests) /\ o[n] \in Tenants
    BY <1>2, <1>8
  <2>3. IsInjective(b[o[n]]) /\ Range(b[o[n]]) \subseteq Members(b)
    BY <1>1, <2>2 DEF BucketsOK, Members
  <2>4. Laned(n) = Laned(n - 1) \cup Range(b[o[n]])
    <3>1. 1..n = 1..(n - 1) \cup {n}
      BY <1>2
    <3> QED BY <3>1
  <2>5. Laned(n - 1) \cap Range(b[o[n]]) = {}
    <3> SUFFICES ASSUME NEW i \in 1..(n - 1), NEW r \in Range(b[o[i]]), r \in Range(b[o[n]])
                 PROVE  FALSE
      OBVIOUS
    <3>1. i \in 1..N /\ i # n
      BY <1>2
    <3>2. TenantOf[r] = o[i] /\ TenantOf[r] = o[n]
      BY <1>1, <1>2, <3>1 DEF BucketsOK
    <3> QED BY <1>2, <3>1, <3>2 DEF Distinct
  <2> HIDE DEF Laned, N
  <2>6. Range(upTo[n - 1]) \cap Range(b[o[n]]) = {}
    BY <1>1, <2>1, <2>3, <2>5
  <2>7. /\ upTo[n] \in Seq(Requests) /\ IsInjective(upTo[n])
        /\ Range(upTo[n]) = Range(upTo[n - 1]) \cup Range(b[o[n]])
    BY <2>1, <2>2, <2>3, <2>6, ConcatRange
  <2>8. ASSUME first # << >> PROVE upTo[n] # << >> /\ Head(upTo[n]) = Head(first)
    <3>1. upTo[n - 1] \in Seq(Requests) /\ upTo[n - 1] # << >> /\ Head(upTo[n - 1]) = Head(first)
      BY <2>1, <2>8
    <3> QED BY <2>2, <3>1, ConcatHead
  <2> QED BY <1>2, <2>1, <2>4, <2>7, <2>8
<1>11. P(N)
  <2>1. \A n \in 1..N : n - 1 \in T => n \in T
    BY <1>10
  <2>2. \A n \in 0..N : n \in T
    <3> HIDE DEF T, N
    <3> QED BY <1>2, <1>9, <2>1, LoopInduction
  <2> HIDE DEF P, N
  <2> QED BY <1>2, <2>2
<1>12. Laned(N) = Members(b)
  <2>1. Laned(N) \subseteq Members(b)
    BY <1>2 DEF Members
  <2>2. ASSUME NEW r \in Members(b) PROVE r \in Laned(N)
    <3>1. PICK t \in Tenants : r \in Range(b[t])
      BY DEF Members
    <3>2. t \in Range(o)
      <4>1. b[t] \in Seq(Requests) /\ (t \in Range(o) <=> b[t] # << >>)
        BY <1>1 DEF BucketsOK
      <4> QED BY <3>1, <4>1, SeqFacts
    <3>3. PICK i \in 1..N : o[i] = t
      BY <1>2, <3>2, SeqFacts
    <3> QED BY <3>1, <3>3
  <2> QED BY <2>1, <2>2
<1> HIDE DEF Laned, N
<1> QED BY <1>1, <1>3, <1>7, <1>11, <1>12

\* What a drained request may meet: v has the requests of w that were queued
\* again, the ones of R are still to be looked at.
Moving(w, v, c, R) ==
  /\ v \in WorkSet /\ QInv(v.queue) /\ v.lanes = NoLanes /\ v.older = w.older
  /\ R \subseteq Queued(w) /\ Waiting(v.queue) \subseteq Queued(w)
  /\ Waiting(v.queue) \cap R = {}
  /\ InQueue(v) = Waiting(v.queue) \cup R
  /\ v.activeCost = Cost(Active(v))
  /\ c.mode = "enforce" => v.activeCost = w.activeCost /\ Active(v) = Active(w)

\* The kinds of value in play, whatever is requeued.
LEMMA RequeuedTyped ==
  ASSUME NEW v \in WorkSet, NEW r \in Requests, NEW c, NEW limit
  PROVE  Requeued(v, r, c, limit) \in WorkSet
<1>1. Admit(v, r) \in WorkSet
  <2> DEFINE st == [v.status EXCEPT ![r] = "active"]
             ac == v.activeCost + CostOf[r]
  <2>1. CostOf[r] \in Int /\ v.activeCost \in Int
    BY CostBounds DEF WorkSet
  <2>2. ac \in Int
    BY <2>1
  <2>3. st \in [Requests -> {"out", "queued", "active"}]
    BY DEF WorkSet
  <2>4. Admit(v, r) = [v EXCEPT !.status = st, !.activeCost = ac]
    BY DEF Admit, WorkSet
  <2> HIDE DEF st, ac
  <2> QED BY <2>2, <2>3, <2>4 DEF WorkSet
<1>2. Fail(v, r) \in WorkSet
  BY DEF Fail, WorkSet
<1>3. [v EXCEPT !.queue = Enqueue(@, r)] \in WorkSet
  <2> DEFINE q == v.queue
             t == TenantOf[r]
             o2 == IF q.bucket[t] = << >> THEN Append(q.order, t) ELSE q.order
             b2 == [q.bucket EXCEPT ![t] = Append(q.bucket[t], r)]
  <2>1. q \in QueueSet /\ t \in Tenants /\ q.bucket[t] \in Seq(Requests)
    BY QueueAssumption DEF WorkSet, QueueSet
  <2>2. o2 \in Seq(Tenants) /\ b2 \in [Tenants -> Seq(Requests)]
    BY <2>1 DEF QueueSet
  <2>3. Enqueue(q, r) = [q EXCEPT !.order = o2, !.bucket = b2]
    BY <2>1 DEF Enqueue, QueueSet
  <2>4. Enqueue(q, r) \in QueueSet
    <3> HIDE DEF q, o2, b2
    <3> QED BY <2>1, <2>2, <2>3 DEF QueueSet
  <2> HIDE DEF q
  <2>5. [v EXCEPT !.queue = Enqueue(q, r)] \in WorkSet
    BY <2>4 DEF WorkSet
  <2> QED BY <2>5 DEF q, WorkSet
<1> QED BY <1>1, <1>2, <1>3 DEF Requeued

\* One drained request is admitted, failed or queued again.
LEMMA RequeuedFacts ==
  ASSUME NEW w, NEW v, NEW c, NEW limit, NEW R, NEW S, NEW r \in Requests,
         Moving(w, v, c, S), S = R \cup {r}, r \notin R
  PROVE  Moving(w, Requeued(v, r, c, limit), c, R)
<1> DEFINE u == Requeued(v, r, c, limit)
<1>1. u \in WorkSet /\ v \in WorkSet
  BY RequeuedTyped DEF Moving
<1>2. /\ v.status[r] = "queued" /\ r \notin Active(v) /\ r \notin Waiting(v.queue)
      /\ v.status \in [Requests -> {"out", "queued", "active"}] /\ r \in Queued(w)
  BY <1>1 DEF Moving, InQueue, Active, WorkSet
<1>3. CASE c.mode # "enforce"
  <2>1. /\ u.queue = v.queue /\ u.lanes = v.lanes /\ u.older = v.older
        /\ u.activeCost = v.activeCost + CostOf[r]
        /\ u.status = [v.status EXCEPT ![r] = "active"]
    BY <1>1, <1>3 DEF Requeued, Admit, WorkSet
  <2> HIDE DEF u
  <2>2. Active(u) = Active(v) \cup {r} /\ InQueue(u) = InQueue(v) \ {r}
    BY <1>2, <2>1 DEF Active, InQueue
  <2>3. u.activeCost = Cost(Active(u))
    <3>1. Active(v) \in SUBSET Requests /\ r \in Requests \ Active(v)
      BY <1>2 DEF Active
    <3>2. Cost(Active(v) \cup {r}) = Cost(Active(v)) + CostOf[r]
      BY <3>1, CostFacts
    <3> QED BY <2>1, <2>2, <3>2 DEF Moving
  <2>4. InQueue(u) = Waiting(u.queue) \cup R
    BY <1>2, <2>1, <2>2 DEF Moving
  <2>5. Moving(w, u, c, R)
    BY <1>1, <1>3, <2>1, <2>3, <2>4 DEF Moving
  <2> QED BY <2>5 DEF u
<1>4. CASE c.mode = "enforce" /\ (CostOf[r] > limit \/ ~CanAccept(v.queue, r, c.maxCount, c.maxCost))
  <2>1. /\ u.queue = v.queue /\ u.lanes = v.lanes /\ u.older = v.older
        /\ u.activeCost = v.activeCost
        /\ u.status = [v.status EXCEPT ![r] = "out"]
    BY <1>1, <1>4 DEF Requeued, Fail, WorkSet
  <2> HIDE DEF u
  <2>2. Active(u) = Active(v) /\ InQueue(u) = InQueue(v) \ {r}
    BY <1>2, <2>1 DEF Active, InQueue
  <2>3. InQueue(u) = Waiting(u.queue) \cup R
    BY <1>2, <2>1, <2>2 DEF Moving
  <2>4. Moving(w, u, c, R)
    BY <1>1, <2>1, <2>2, <2>3 DEF Moving
  <2> QED BY <2>4 DEF u
<1>5. CASE c.mode = "enforce" /\ ~(CostOf[r] > limit \/ ~CanAccept(v.queue, r, c.maxCount, c.maxCost))
  <2>1. /\ u.queue = Enqueue(v.queue, r) /\ u.lanes = v.lanes /\ u.older = v.older
        /\ u.activeCost = v.activeCost
        /\ u.status = v.status
    BY <1>1, <1>5 DEF Requeued, WorkSet
  <2> HIDE DEF u
  <2>2. Active(u) = Active(v) /\ InQueue(u) = InQueue(v)
    BY <2>1 DEF Active, InQueue
  <2>3. QInv(u.queue) /\ Waiting(u.queue) = Waiting(v.queue) \cup {r}
    BY <1>2, <2>1, EnqueueFacts DEF Moving
  <2>4. Moving(w, u, c, R)
    BY <1>1, <1>2, <2>1, <2>2, <2>3 DEF Moving
  <2> QED BY <2>4 DEF u
<1> QED BY <1>3, <1>4, <1>5

\* The round robin of q begins with h, and nobody was passed over.
FirstIn(q, h) ==
  /\ IsHead(q, h) /\ q.order # << >> /\ Head(q.order) = TenantOf[h]
  /\ q.cursor = 0 /\ \A s \in Requests : q.skip[s] = 0

\* Then dispatch takes h if it fits.
LEMMA FirstIsChosen ==
  ASSUME NEW q, QInv(q), NEW h, FirstIn(q, h), NEW before, NEW room \in Int, CostOf[h] <= room
  PROVE  0 \in Choice(q, room, before) /\ HeadAt(q, 0) = h
<1>1. /\ q.order \in Seq(Tenants) /\ Len(q.order) \in Nat \ {0} /\ h \in Waiting(q)
      /\ q.order[1] = TenantOf[h] /\ h = Head(q.bucket[TenantOf[h]])
  BY SeqFacts DEF FirstIn, IsHead, QInv, QueueSet
<1>2. 0 \in Turns(q) /\ IndexOf(q, 0) = 0
  <2>1. \A n \in Nat \ {0} : 0 % n = 0
    OBVIOUS
  <2>2. q.cursor + 0 = 0
    BY DEF FirstIn
  <2> QED BY <1>1, <2>1, <2>2 DEF Turns, IndexOf
<1>3. HeadAt(q, 0) = h
  BY <1>1, <1>2 DEF HeadAt
<1>4. Aged(q) = {}
  <2>1. \A i \in Turns(q) : HeadAt(q, i) \in Requests
    BY TurnFacts, WaitingFacts
  <2>2. MaxSkips \in Nat \ {0}
    BY QueueAssumption
  <2> QED BY <2>1, <2>2 DEF Aged, FirstIn
<1>5. 0 \in Fitting(q, room) /\ Fitting(q, room) \in SUBSET Nat
  BY <1>1, <1>2, <1>3 DEF Fitting, Turns
<1>6. Min(Fitting(q, room)) = 0
  <2>1. Min(Fitting(q, room)) \in Fitting(q, room) /\ Min(Fitting(q, room)) <= 0
    BY <1>5, MinTurn
  <2> QED BY <1>5, <2>1
<1> QED BY <1>3, <1>4, <1>5, <1>6 DEF Choice

\* The first to be queued again is the first of the new queue, or was failed.
LEMMA FirstRequeued ==
  ASSUME NEW w, NEW v, NEW c, NEW limit, NEW S, NEW r \in S, NEW h \in Requests,
         Moving(w, v, c, S), c.mode = "enforce",
         \/ r = h /\ v.queue = EmptyQueue
         \/ r # h /\ (FirstIn(v.queue, h) \/ h \notin Waiting(v.queue))
  PROVE  LET u == Requeued(v, r, c, limit)
         IN  FirstIn(u.queue, h) \/ h \notin Waiting(u.queue)
<1> DEFINE u == Requeued(v, r, c, limit)
<1>1. v \in WorkSet /\ QInv(v.queue) /\ r \in Requests /\ r \notin Waiting(v.queue)
  <2>1. r \in InQueue(v) /\ r \notin Waiting(v.queue)
    BY DEF Moving
  <2> QED BY <2>1 DEF Moving, InQueue
<1>2. Waiting(EmptyQueue) = {} /\ EmptyQueue.order = << >> /\ EmptyQueue.cursor = 0
      /\ \A s \in Requests : EmptyQueue.skip[s] = 0
  BY EmptyQueueOK DEF EmptyQueue
<1>3. CASE CostOf[r] > limit \/ ~CanAccept(v.queue, r, c.maxCount, c.maxCost)
  <2>1. u.queue = v.queue
    BY <1>1, <1>3 DEF Requeued, Fail, WorkSet
  <2> QED BY <1>2, <2>1
<1>4. CASE ~(CostOf[r] > limit \/ ~CanAccept(v.queue, r, c.maxCount, c.maxCost))
  <2> DEFINE p == Enqueue(v.queue, r)
  <2>1. u.queue = p
    BY <1>1, <1>4 DEF Requeued, WorkSet
  <2>2. /\ Waiting(p) = Waiting(v.queue) \cup {r} /\ \A s : IsHead(v.queue, s) => IsHead(p, s)
        /\ p.skip = v.queue.skip /\ p.cursor = v.queue.cursor /\ p.order # << >>
        /\ v.queue.order # << >> => Head(p.order) = Head(v.queue.order)
        /\ v.queue.order = << >> => Head(p.order) = TenantOf[r] /\ IsHead(p, r)
    BY <1>1, EnqueueFacts
  <2> HIDE DEF p
  <2>3. CASE r = h /\ v.queue = EmptyQueue
    <3>1. FirstIn(p, h)
      BY <1>2, <2>2, <2>3 DEF FirstIn
    <3> QED BY <2>1, <3>1
  <2>4. CASE r # h /\ FirstIn(v.queue, h)
    <3>1. FirstIn(p, h)
      BY <2>2, <2>4 DEF FirstIn
    <3> QED BY <2>1, <3>1
  <2>5. CASE r # h /\ h \notin Waiting(v.queue)
    BY <2>1, <2>2, <2>5
  <2> QED BY <2>3, <2>4, <2>5
<1> QED BY <1>3, <1>4

\* Under a new configuration the books are in order, and one that enforces
\* admits nobody before it dispatches; the head that had reserved the capacity
\* is then the first in the queue, if it is still there.
LEMMA MovedFacts ==
  ASSUME WInv(Work), NEW c, NEW limit
  PROVE  /\ WInv(Moved(AllDrained, c, limit))
         /\ c.mode = "enforce" => /\ Moved(AllDrained, c, limit).activeCost = activeCost
                                  /\ Active(Moved(AllDrained, c, limit)) = Active(Work)
         /\ c.mode = "enforce" /\ Aged(queue) # {} =>
              \/ FirstIn(Moved(AllDrained, c, limit).queue, ReservedHead)
              \/ ReservedHead \notin Waiting(Moved(AllDrained, c, limit).queue)
<1> DEFINE drained == AllDrained
           N == Len(drained)
           first == [Work EXCEPT !.queue = EmptyQueue, !.lanes = NoLanes]
           step == [n \in 1..N |-> [v \in WorkSet |-> Requeued(v, drained[n], c, limit)]]
           Rest(n) == {drained[i] : i \in (n + 1)..N}
           Honoured == c.mode = "enforce" /\ Aged(queue) # {}
           h == ReservedHead
<1>1. /\ drained \in Seq(Requests) /\ IsInjective(drained) /\ Range(drained) = Queued(Work)
      /\ Honoured => drained # << >> /\ drained[1] = h
  BY AllDrainedFacts
<1> HIDE DEF drained, h, Honoured
<1>2. N \in Nat /\ \A n \in 1..N : drained[n] \in Requests
  BY <1>1
<1>3. first \in WorkSet /\ Moving(Work, first, c, Queued(Work)) /\ first.queue = EmptyQueue
  <2>1. Work \in WorkSet
    BY DEF WInv
  <2>2. QInv(EmptyQueue) /\ Waiting(EmptyQueue) = {} /\ LanesOK(NoLanes)
    BY EmptyQueueOK, NoLanesOK
  <2>3. EmptyQueue \in QueueSet /\ NoLanes \in LaneSet
    BY <2>2 DEF QInv, LanesOK
  <2>4. /\ first \in WorkSet /\ first.queue = EmptyQueue /\ first.lanes = NoLanes
        /\ first.status = Work.status /\ first.older = Work.older
        /\ first.activeCost = Work.activeCost
    BY <2>1, <2>3 DEF WorkSet
  <2> HIDE DEF first
  <2>5. Active(first) = Active(Work) /\ InQueue(first) = InQueue(Work)
    BY <2>4 DEF Active, InQueue
  <2> QED BY <2>2, <2>4, <2>5 DEF Moving, WInv
<1> HIDE DEF first
<1>4. PICK f : RunsFrom(f, N, WorkSet, first, step)
  <2>1. step \in [1..N -> [WorkSet -> WorkSet]]
    BY <1>2, RequeuedTyped
  <2> HIDE DEF N, step
  <2> QED BY <1>2, <1>3, <2>1, LoopRuns
<1>5. f = [n \in 0..N |-> IF n = 0 THEN first ELSE Requeued(f[n - 1], drained[n], c, limit)]
  <2>1. f \in [0..N -> WorkSet] /\ f[0] = first
    BY <1>4 DEF RunsFrom
  <2>2. ASSUME NEW n \in 1..N PROVE f[n] = Requeued(f[n - 1], drained[n], c, limit)
    <3> HIDE DEF N
    <3>1. f[n - 1] \in WorkSet
      BY <1>2, <2>1
    <3>2. f[n] = step[n][f[n - 1]]
      BY <1>4 DEF RunsFrom
    <3> QED BY <3>1, <3>2
  <2> HIDE DEF N, step
  <2>3. \A n \in 0..N : f[n] = IF n = 0 THEN first ELSE Requeued(f[n - 1], drained[n], c, limit)
    BY <1>2, <2>1, <2>2
  <2> QED BY <2>1, <2>3
<1> DEFINE after[n \in 0 .. N] ==
             IF n = 0 THEN first ELSE Requeued(after[n - 1], drained[n], c, limit)
<1>6. after = [n \in 0..N |-> IF n = 0 THEN first ELSE Requeued(after[n - 1], drained[n], c, limit)]
  BY <1>5
<1>7. Moved(drained, c, limit) = after[N]
  BY DEF Moved, first
<1> HIDE DEF after, step
<1>8. after[0] = first /\ \A n \in 1..N : after[n] = Requeued(after[n - 1], drained[n], c, limit)
  <2> HIDE DEF N
  <2> QED BY <1>2, <1>6
<1> DEFINE P(n) == /\ Moving(Work, after[n], c, Rest(n))
                   /\ Honoured /\ n # 0 => FirstIn(after[n].queue, h) \/ h \notin Waiting(after[n].queue)
           T == {n \in 0..N : P(n)}
<1>9. 0 \in T
  <2>1. Rest(0) = Queued(Work)
    BY <1>1, <1>2, AsQueue DEF Elements
  <2> HIDE DEF Rest
  <2> QED BY <1>2, <1>3, <1>8, <2>1
<1>10. ASSUME NEW n \in 1..N, n - 1 \in T PROVE n \in T
  <2> DEFINE r == drained[n]
             S == Rest(n - 1)
             v == after[n - 1]
  <2>1. /\ Moving(Work, v, c, S)
        /\ Honoured /\ n # 1 => FirstIn(v.queue, h) \/ h \notin Waiting(v.queue)
        /\ n = 1 => v.queue = EmptyQueue
    BY <1>3, <1>8, <1>10
  <2>2. S = Rest(n) \cup {r}
    <3>1. (n - 1 + 1)..N = (n + 1)..N \cup {n}
      BY <1>2
    <3> QED BY <3>1
  <2>3. r \notin Rest(n) /\ r \in Requests
    BY <1>1, <1>2, AsQueue DEF Distinct
  <2>a. Honoured => h \in Requests /\ (r = h <=> n = 1)
    BY <1>1, <1>2, AsQueue DEF Distinct
  <2>4. after[n] = Requeued(v, r, c, limit)
    BY <1>8
  <2> HIDE DEF v, r, S, Rest, N
  <2>5. Moving(Work, after[n], c, Rest(n))
    BY <2>1, <2>2, <2>3, <2>4, RequeuedFacts
  <2>6. ASSUME Honoured PROVE FirstIn(after[n].queue, h) \/ h \notin Waiting(after[n].queue)
    <3>1. r \in S /\ c.mode = "enforce"
      BY <2>2, <2>6 DEF Honoured
    <3> QED BY <2>1, <2>4, <2>6, <2>a, <3>1, FirstRequeued
  <2> QED BY <1>2, <2>5, <2>6
<1>11. P(N)
  <2>1. \A n \in 1..N : n - 1 \in T => n \in T
    BY <1>10
  <2>2. \A n \in 0..N : n \in T
    <3> HIDE DEF T, N
    <3> QED BY <1>2, <1>9, <2>1, LoopInduction
  <2> HIDE DEF P, N
  <2> QED BY <1>2, <2>2
<1> DEFINE m == after[N]
<1>12. Moving(Work, m, c, {})
  <2>1. Rest(N) = {}
    BY <1>2
  <2> QED BY <1>11, <2>1
<1> HIDE DEF m
<1>13. WInv(m)
  <2>1. LanesOK(m.lanes) /\ LaneQueued(m) = {}
    <3>1. m.lanes = NoLanes /\ LanesOK(NoLanes) /\ Members(NoLanes.fifo) = {}
      BY <1>12, NoLanesOK DEF Moving
    <3> QED BY <3>1 DEF LaneQueued, Members
  <2>2. Queued(m) = InQueue(m) /\ Waiting(m.queue) \cap LaneQueued(m) = {}
    BY <1>12, <2>1 DEF Moving, Queued
  <2>3. Queued(m) \subseteq Queued(Work) /\ m.older = Work.older
    BY <1>12, <2>1 DEF Moving, Queued
  <2>4. Ordered(m.older, Queued(m))
    <3>1. Ordered(Work.older, Queued(Work))
      BY DEF WInv
    <3> QED BY <2>3, <3>1 DEF Ordered, StrictOn
  <2> QED BY <1>12, <2>1, <2>2, <2>4 DEF Moving, WInv
<1>14. c.mode = "enforce" => m.activeCost = activeCost /\ Active(m) = Active(Work)
  BY <1>12 DEF Moving, Work
<1>15. Honoured => FirstIn(m.queue, h) \/ h \notin Waiting(m.queue)
  <2>1. Honoured => N # 0
    BY <1>1
  <2> HIDE DEF N
  <2> QED BY <1>11, <2>1 DEF m
<1> QED BY <1>7, <1>13, <1>14, <1>15 DEF m, drained, h, Honoured

-----------------------------------------------------------------------------
(* Steps: what a method leaves behind becomes the next state.               *)

\* Settled entries are gone with their time of arrival.
Settled(v) == [v EXCEPT !.older = v.older \cap (InQueue(v) \X InQueue(v))]

\* The books stay in order and the queue would choose as before.
LEMMA SettledOK ==
  ASSUME NEW v, WInv(v)
  PROVE  /\ WInv(Settled(v))
         /\ Settled(v).older \subseteq Queued(Settled(v)) \X Queued(Settled(v))
         /\ \A room : Choice(v.queue, room, Settled(v).older) = Choice(v.queue, room, v.older)
<1> DEFINE u == Settled(v)
           o2 == v.older \cap (InQueue(v) \X InQueue(v))
<1>1. v \in WorkSet /\ QInv(v.queue)
  BY DEF WInv
<1>2. /\ u \in WorkSet /\ u.queue = v.queue /\ u.lanes = v.lanes /\ u.status = v.status
      /\ u.activeCost = v.activeCost /\ u.older = o2
  <2>1. o2 \in SUBSET (Requests \X Requests)
    BY <1>1 DEF WorkSet
  <2> HIDE DEF o2
  <2>2. u = [v EXCEPT !.older = o2]
    BY DEF Settled, o2
  <2> HIDE DEF u
  <2> QED BY <1>1, <2>1, <2>2 DEF WorkSet
<1> HIDE DEF u
<1>3. LaneQueued(u) = LaneQueued(v) /\ Queued(u) = Queued(v)
  BY <1>2 DEF LaneQueued, Queued
<1>4. InQueue(u) = InQueue(v) /\ Active(u) = Active(v) /\ Queued(v) = InQueue(v)
  BY <1>2 DEF InQueue, Active, WInv
<1>5. \A r, s \in Queued(v) : <<r, s>> \in u.older <=> <<r, s>> \in v.older
  BY <1>2, <1>4
<1>6. Ordered(u.older, Queued(u))
  <2>1. Ordered(v.older, Queued(v))
    BY DEF WInv
  <2> QED BY <1>3, <1>5, <2>1 DEF Ordered, StrictOn
<1>7. WInv(u)
  BY <1>2, <1>3, <1>4, <1>6 DEF WInv
<1>8. u.older \subseteq Queued(u) \X Queued(u)
  BY <1>2, <1>3, <1>4
<1>9. ASSUME NEW room PROVE Choice(v.queue, room, u.older) = Choice(v.queue, room, v.older)
  <2>1. \A r, s \in Waiting(v.queue) : <<r, s>> \in u.older <=> <<r, s>> \in v.older
    BY <1>5 DEF Queued
  <2> QED BY <1>1, <2>1, ChoiceAgrees
<1> QED BY <1>7, <1>8, <1>9 DEF u

\* A step that ends with v.
LEMMA BecomesFacts ==
  ASSUME NEW v, WInv(v), Becomes(v)
  PROVE  /\ WInv(Work')
         /\ older' \subseteq Queued(Work') \X Queued(Work')
         /\ queue' = v.queue /\ status' = v.status /\ activeCost' = v.activeCost
         /\ \A room : Choice(queue', room, older') = Choice(v.queue, room, v.older)
<1>1. /\ queue' = v.queue /\ lanes' = v.lanes /\ status' = v.status /\ activeCost' = v.activeCost
      /\ older' = v.older \cap (InQueue(v) \X InQueue(v))
  BY DEF Becomes
<1>2. v \in WorkSet
  BY DEF WInv
<1>3. Work' = Settled(v)
  BY <1>1, <1>2 DEF Work, Settled, WorkSet
<1>4. Work'.older = older'
  BY DEF Work
<1> QED BY <1>1, <1>3, <1>4, SettledOK

\* Before w is dispatched nobody was admitted,
Prepares(w) == \A r \in Requests : w.status[r] = "active" => status[r] = "active"

\* and whoever is older than an aged head was so before.
PreparesFairly(w) ==
  \A h \in Waiting(w.queue) :
    AgedHead(queue, h) =>
      /\ AgedHead(w.queue, h)
      /\ \A r \in Waiting(w.queue) : <<r, h>> \in w.older => r \in Waiting(queue) /\ <<r, h>> \in older

\* Then those that a dispatch admits fit,
LEMMA AdmittedFit ==
  ASSUME NEW w, NEW v, NEW limit, WInv(v), Becomes(v), Follows(w, v, limit), Prepares(w)
  PROVE  /\ Admitted \subseteq NewlyActive(w, v)
         /\ Admitted # {} => activeCost' <= limit
<1>1. status' = v.status /\ activeCost' = v.activeCost
  BY BecomesFacts
<1>2. Admitted \subseteq NewlyActive(w, v)
  BY <1>1 DEF Admitted, NewlyActive, Prepares
<1> QED BY <1>1, <1>2 DEF Follows

\* and overtake no aged head.
LEMMA AdmittedOlder ==
  ASSUME NEW w, NEW v, NEW limit, QInv(queue),
         WInv(v), Becomes(v), Follows(w, v, limit), Prepares(w), PreparesFairly(w)
  PROVE  \A h \in StillAged, r \in Admitted : Older(r, h)
<1>1. SUFFICES ASSUME NEW h \in StillAged, NEW r \in Admitted PROVE Older(r, h)
  OBVIOUS
<1>2. AgedHead(queue, h)
  <2>1. PICK i \in Aged(queue) : h = HeadAt(queue, i)
    BY DEF StillAged
  <2> QED BY <2>1, AgedFacts
<1>3. h \in Waiting(v.queue)
  <2>1. queue' = v.queue /\ QInv(v.queue)
    BY BecomesFacts DEF WInv
  <2>2. PICK i \in Aged(v.queue) : h = HeadAt(v.queue, i)
    BY <2>1 DEF StillAged
  <2> QED BY <2>1, <2>2, AgedFacts DEF AgedHead, IsHead
<1>4. h \in Waiting(w.queue) /\ AgedHead(w.queue, h)
  BY <1>2, <1>3 DEF Follows, PreparesFairly
<1>5. r \in Waiting(w.queue) /\ <<r, h>> \in w.older
  BY <1>3, <1>4, AdmittedFit DEF Follows
<1> QED BY <1>2, <1>4, <1>5 DEF PreparesFairly, Older

\* The fields of the work at hand are the variables.
LEMMA WorkFields ==
  /\ Work.queue = queue /\ Work.lanes = lanes /\ Work.status = status
  /\ Work.older = older /\ Work.activeCost = activeCost
  BY DEF Work

\* A request that is out is admitted at once.
LEMMA AdmitOK ==
  ASSUME NEW w, WInv(w), NEW r \in Requests, w.status[r] = "out"
  PROVE  /\ WInv(Admit(w, r))
         /\ Admit(w, r).queue = w.queue /\ Admit(w, r).older = w.older
         /\ Admit(w, r).activeCost = w.activeCost + CostOf[r]
         /\ Admit(w, r).status = [w.status EXCEPT ![r] = "active"]
<1> DEFINE v == Admit(w, r)
           st == [w.status EXCEPT ![r] = "active"]
           ac == w.activeCost + CostOf[r]
<1>1. /\ w \in WorkSet /\ w.status \in [Requests -> {"out", "queued", "active"}]
      /\ w.activeCost \in Int /\ CostOf[r] \in Int
  BY CostBounds DEF WInv, WorkSet
<1>2. /\ st \in [Requests -> {"out", "queued", "active"}] /\ ac \in Int
      /\ \A s \in Requests : st[s] = IF s = r THEN "active" ELSE w.status[s]
  BY <1>1
<1>3. v = [w EXCEPT !.status = st, !.activeCost = ac]
  BY <1>1 DEF Admit, WorkSet
<1> HIDE DEF st, ac, v
<1>5. /\ v \in WorkSet /\ v.queue = w.queue /\ v.lanes = w.lanes /\ v.older = w.older
      /\ v.status = st /\ v.activeCost = ac
  BY <1>1, <1>2, <1>3 DEF WorkSet
<1>6. Active(v) = Active(w) \cup {r} /\ InQueue(v) = InQueue(w)
  BY <1>2, <1>5 DEF Active, InQueue
<1>7. LaneQueued(v) = LaneQueued(w) /\ Queued(v) = Queued(w)
  BY <1>5 DEF LaneQueued, Queued
<1>8. v.activeCost = Cost(Active(v))
  <2>1. Active(w) \in SUBSET Requests /\ r \in Requests \ Active(w)
    BY DEF Active
  <2>2. Cost(Active(w) \cup {r}) = Cost(Active(w)) + CostOf[r]
    BY <2>1, CostFacts
  <2> QED BY <1>5, <1>6, <2>2 DEF WInv, ac
<1>9. WInv(v)
  BY <1>5, <1>6, <1>7, <1>8 DEF WInv
<1> QED BY <1>5, <1>9 DEF v, st, ac

\* A lease is given back.
LEMMA ReleaseOK ==
  ASSUME WInv(Work), NEW r \in Requests, Work.status[r] = "active", NEW v,
         v = [Work EXCEPT !.status[r] = "out", !.activeCost = @ - CostOf[r]]
  PROVE  /\ WInv(v)
         /\ v.queue = Work.queue /\ v.older = Work.older
         /\ \A s \in Requests : v.status[s] = "active" => Work.status[s] = "active"
<1> DEFINE st == [Work.status EXCEPT ![r] = "out"]
           ac == Work.activeCost - CostOf[r]
<1>1. /\ Work \in WorkSet /\ Work.status \in [Requests -> {"out", "queued", "active"}]
      /\ Work.activeCost \in Int /\ CostOf[r] \in Int
  BY CostBounds DEF WInv, WorkSet
<1>2. /\ st \in [Requests -> {"out", "queued", "active"}] /\ ac \in Int
      /\ \A s \in Requests : st[s] = IF s = r THEN "out" ELSE Work.status[s]
  BY <1>1
<1>3. v = [Work EXCEPT !.status = st, !.activeCost = ac]
  BY <1>1 DEF WorkSet
<1> HIDE DEF st, ac
<1>4. /\ v \in WorkSet /\ v.queue = Work.queue /\ v.lanes = Work.lanes /\ v.older = Work.older
      /\ v.status = st /\ v.activeCost = ac
  BY <1>1, <1>2, <1>3 DEF WorkSet
<1>5. Active(v) = Active(Work) \ {r} /\ InQueue(v) = InQueue(Work)
  BY <1>2, <1>4 DEF Active, InQueue
<1>6. LaneQueued(v) = LaneQueued(Work) /\ Queued(v) = Queued(Work)
  BY <1>4 DEF LaneQueued, Queued
<1>7. v.activeCost = Cost(Active(v))
  <2>1. Active(Work) \in SUBSET Requests /\ r \in Active(Work)
    BY DEF Active
  <2>2. Cost(Active(Work) \ {r}) = Cost(Active(Work)) - CostOf[r]
    BY <2>1, CostWithout
  <2> QED BY <1>4, <1>5, <2>2 DEF WInv, ac
<1>8. WInv(v)
  BY <1>4, <1>5, <1>6, <1>7 DEF WInv
<1> QED BY <1>2, <1>4, <1>8

\* Whoever joins is younger than all that wait.
LEMMA OrderGrows ==
  ASSUME NEW H, NEW R, Ordered(R, H), R \subseteq H \X H, NEW r, r \notin H
  PROVE  Ordered(R \cup (H \X {r}), H \cup {r})
<1> DEFINE Q == R \cup (H \X {r})
           K == H \cup {r}
<1>1. \A x, y \in K : <<x, y>> \in Q <=> x \in H /\ (y = r \/ (y \in H /\ <<x, y>> \in R))
  OBVIOUS
<1> HIDE DEF Q
<1>2. \A x \in K : <<x, x>> \notin Q
  BY <1>1 DEF Ordered, StrictOn
<1>3. ASSUME NEW x \in K, NEW y \in K, NEW z \in K, <<x, y>> \in Q, <<y, z>> \in Q
      PROVE  <<x, z>> \in Q
  <2>1. x \in H /\ y \in H /\ <<x, y>> \in R
    BY <1>1, <1>3
  <2>2. CASE z = r
    BY <1>1, <2>1, <2>2
  <2>3. CASE z # r
    <3>1. z \in H /\ <<y, z>> \in R
      BY <1>1, <1>3, <2>3
    <3>2. <<x, z>> \in R
      BY <2>1, <3>1 DEF Ordered, StrictOn
    <3> QED BY <1>1, <2>1, <3>1, <3>2
  <2> QED BY <2>2, <2>3
<1>4. \A x, y \in K : x # y => <<x, y>> \in Q \/ <<y, x>> \in Q
  BY <1>1 DEF Ordered
<1>5. StrictOn(Q, K)
  BY <1>2, <1>3 DEF StrictOn
<1>6. Ordered(Q, K)
  BY <1>4, <1>5 DEF Ordered
<1> QED BY <1>6 DEF Q

\* A request joins its lane or the shared queue: enqueue, before it dispatches.
LEMMA EnqueuedOK ==
  ASSUME WInv(Work), older \subseteq Queued(Work) \X Queued(Work),
         NEW r \in Requests, status[r] = "out"
  PROVE  /\ WInv(Enqueued(Work, r))
         /\ Prepares(Enqueued(Work, r))
         /\ PreparesFairly(Enqueued(Work, r))
<1> DEFINE t == TenantOf[r]
           v == Enqueued(Work, r)
           st == [status EXCEPT ![r] = "queued"]
           o2 == older \cup (Queued(Work) \X {r})
           lo == IF t \in Range(lanes.order) THEN lanes.order ELSE Append(lanes.order, t)
           lf == [lanes.fifo EXCEPT ![t] = Append(lanes.fifo[t], r)]
           l2 == IF UsesLane(r) THEN [lanes EXCEPT !.order = lo, !.fifo = lf] ELSE lanes
           q2 == IF UsesLane(r) THEN queue ELSE Enqueue(queue, r)
<1>1. /\ Work \in WorkSet /\ QInv(queue) /\ LanesOK(lanes) /\ lanes \in LaneSet
      /\ status \in [Requests -> {"out", "queued", "active"}]
      /\ older \in SUBSET (Requests \X Requests)
      /\ activeCost = Cost(Active(Work)) /\ activeCost \in Int
      /\ Queued(Work) = InQueue(Work) /\ Waiting(queue) \cap LaneQueued(Work) = {}
      /\ Ordered(older, Queued(Work))
  BY WorkFields DEF WInv, WorkSet, LanesOK
<1>2. /\ r \notin Queued(Work) /\ r \notin Waiting(queue) /\ r \notin LaneQueued(Work)
      /\ Queued(Work) \subseteq Requests /\ t \in Tenants
      /\ Queued(Work) = Waiting(queue) \cup LaneQueued(Work)
  BY <1>1, WorkFields, QueueAssumption DEF InQueue, Queued
<1>3. /\ st \in [Requests -> {"out", "queued", "active"}]
      /\ \A s \in Requests : st[s] = IF s = r THEN "queued" ELSE status[s]
  BY <1>1
<1>4. o2 \in SUBSET (Requests \X Requests) /\ Ordered(o2, Queued(Work) \cup {r})
  BY <1>1, <1>2, OrderGrows
<1>5. /\ QInv(q2) /\ Waiting(q2) = IF UsesLane(r) THEN Waiting(queue) ELSE Waiting(queue) \cup {r}
      /\ \A h : AgedHead(queue, h) => AgedHead(q2, h)
  <2>1. /\ QInv(Enqueue(queue, r)) /\ Waiting(Enqueue(queue, r)) = Waiting(queue) \cup {r}
        /\ \A h : IsHead(queue, h) => IsHead(Enqueue(queue, r), h)
        /\ Enqueue(queue, r).skip = queue.skip
    BY <1>1, <1>2, EnqueueFacts
  <2>2. \A h : AgedHead(queue, h) => AgedHead(Enqueue(queue, r), h)
    BY <2>1 DEF AgedHead
  <2> QED BY <1>1, <2>1, <2>2
<1>6. LanesOK(l2) /\ Members(l2.fifo) = IF UsesLane(r) THEN LaneQueued(Work) \cup {r} ELSE LaneQueued(Work)
  <2>1. LaneQueued(Work) = Members(lanes.fifo)
    BY WorkFields DEF LaneQueued, Members
  <2>2. CASE ~UsesLane(r)
    BY <1>1, <2>1, <2>2
  <2>3. CASE UsesLane(r)
    <3> DEFINE b == lanes.fifo
               f == Append(b[t], r)
    <3>1. /\ BucketsOK(lanes.order, b) /\ lanes.order \in Seq(Tenants) /\ IsInjective(lanes.order)
          /\ b \in [Tenants -> Seq(Requests)] /\ b[t] \in Seq(Requests) /\ IsInjective(b[t])
          /\ \A s \in Range(b[t]) : TenantOf[s] = t
      BY <1>1, <1>2 DEF LanesOK, BucketsOK
    <3>2. Range(b[t]) \subseteq Members(b)
      BY <1>2 DEF Members
    <3>3. /\ f \in Seq(Requests) /\ f # << >> /\ IsInjective(f) /\ Range(f) = Range(b[t]) \cup {r}
      BY <1>2, <2>1, <3>1, <3>2, AppendRange
    <3>4. lo \in Seq(Tenants) /\ IsInjective(lo) /\ Range(lo) = Range(lanes.order) \cup {t}
      BY <1>2, <3>1, AppendRange
    <3>5. Updates(b, t, f, lf)
      BY <1>2, <3>1, <3>3, ExceptUpdates
    <3> HIDE DEF f, lo, lf, b
    <3>6. Replaces(lanes.order, b, t, f, lo, lf)
      BY <1>2, <3>1, <3>3, <3>4, <3>5 DEF Replaces
    <3>7. BucketsOK(lo, lf) /\ Members(lf) = (Members(b) \ Range(b[t])) \cup Range(f)
      BY <3>6, BucketReplaced
    <3>8. Members(lf) = Members(b) \cup {r}
      BY <3>2, <3>3, <3>7
    <3>9. l2 = [lanes EXCEPT !.order = lo, !.fifo = lf]
      BY <2>3
    <3>10. l2 \in LaneSet /\ l2.order = lo /\ l2.fifo = lf
      BY <1>1, <3>7, <3>9 DEF LaneSet, BucketsOK
    <3> HIDE DEF l2
    <3> QED BY <2>1, <2>3, <3>7, <3>8, <3>10 DEF LanesOK, b
  <2> QED BY <2>2, <2>3
<1>7. v = [Work EXCEPT !.status = st, !.older = o2, !.queue = q2, !.lanes = l2]
  <2>1. [Work EXCEPT !.status[r] = "queued", !.older = @ \cup (Queued(Work) \X {r})]
          = [Work EXCEPT !.status = st, !.older = o2]
    BY <1>1, WorkFields DEF WorkSet
  <2> HIDE DEF st, o2
  <2>2. CASE UsesLane(r)
    <3>1. v = [[Work EXCEPT !.status = st, !.older = o2]
                 EXCEPT !.lanes.order = IF t \in Range(@) THEN @ ELSE Append(@, t),
                        !.lanes.fifo[t] = Append(@, r)]
      BY <2>1, <2>2 DEF Enqueued
    <3>2. l2 = [lanes EXCEPT !.order = lo, !.fifo = lf] /\ q2 = queue
      BY <2>2
    <3>3. v = [Work EXCEPT !.status = st, !.older = o2, !.lanes = [lanes EXCEPT !.order = lo, !.fifo = lf]]
      <4> DEFINE x == [Work EXCEPT !.status = st, !.older = o2]
      <4>1. x \in WorkSet /\ x.lanes = lanes
        <5>1. o2 \in SUBSET (Requests \X Requests) /\ st \in [Requests -> {"out", "queued", "active"}]
          BY <1>3, <1>4
        <5> QED BY <1>1, <5>1, WorkFields DEF WorkSet
      <4>2. v = [x EXCEPT !.lanes.order = IF t \in Range(@) THEN @ ELSE Append(@, t),
                          !.lanes.fifo[t] = Append(@, r)]
        BY <3>1
      <4> HIDE DEF x
      <4>4. v = [x EXCEPT !.lanes = [lanes EXCEPT !.order = lo, !.fifo = lf]]
        BY <1>1, <4>1, <4>2 DEF WorkSet, LaneSet
      <4> HIDE DEF v, lo, lf
      <4> QED BY <1>1, <4>4, WorkFields DEF WorkSet, x
    <3> HIDE DEF v, l2, q2
    <3> QED BY <1>1, <3>2, <3>3, WorkFields DEF WorkSet
  <2>3. CASE ~UsesLane(r)
    <3>1. v = [[Work EXCEPT !.status = st, !.older = o2] EXCEPT !.queue = Enqueue(@, r)]
      BY <2>1, <2>3 DEF Enqueued
    <3>2. l2 = lanes /\ q2 = Enqueue(queue, r)
      BY <2>3
    <3> HIDE DEF v, l2, q2
    <3> QED BY <1>1, <3>1, <3>2, WorkFields DEF WorkSet
  <2> QED BY <2>2, <2>3
<1> HIDE DEF v, st, o2, q2, l2
<1>8. /\ v \in WorkSet /\ v.queue = q2 /\ v.lanes = l2 /\ v.older = o2 /\ v.status = st
      /\ v.activeCost = activeCost
  <2>1. q2 \in QueueSet /\ l2 \in LaneSet
    BY <1>5, <1>6 DEF QInv, LanesOK
  <2> QED BY <1>1, <1>3, <1>4, <1>7, <2>1, WorkFields DEF WorkSet
<1>9. LaneQueued(v) = Members(l2.fifo)
  BY <1>8 DEF LaneQueued, Members
<1>10. Queued(v) = Queued(Work) \cup {r} /\ Waiting(v.queue) \cap LaneQueued(v) = {}
  BY <1>1, <1>2, <1>5, <1>6, <1>8, <1>9 DEF Queued
<1>11. Active(v) = Active(Work) /\ InQueue(v) = InQueue(Work) \cup {r}
  BY <1>3, <1>8, WorkFields DEF Active, InQueue
<1>12. WInv(v)
  BY <1>1, <1>4, <1>5, <1>6, <1>8, <1>10, <1>11 DEF WInv
<1>13. Prepares(v)
  BY <1>3, <1>8 DEF Prepares
<1>14. PreparesFairly(v)
  <2>1. SUFFICES ASSUME NEW h \in Waiting(v.queue), AgedHead(queue, h)
                 PROVE  /\ AgedHead(v.queue, h)
                        /\ \A s \in Waiting(v.queue) : <<s, h>> \in v.older => s \in Waiting(queue) /\ <<s, h>> \in older
    BY DEF PreparesFairly
  <2>2. AgedHead(v.queue, h)
    BY <1>5, <1>8, <2>1
  <2>3. h \in Waiting(queue) /\ h # r
    BY <1>2, <2>1 DEF AgedHead, IsHead
  <2>4. ASSUME NEW s \in Waiting(v.queue), <<s, h>> \in v.older
        PROVE  s \in Waiting(queue) /\ <<s, h>> \in older
    <3>1. <<s, h>> \in older
      BY <1>8, <2>3, <2>4 DEF o2
    <3>2. s \in Queued(Work)
      BY <3>1
    <3> QED BY <1>2, <1>5, <1>8, <2>4, <3>1, <3>2
  <2> QED BY <2>2, <2>4
<1> QED BY <1>12, <1>13, <1>14 DEF v

\* Requests leave the queues without a lease.
LEMMA LeavesOK ==
  ASSUME NEW v, NEW G, WInv(Work), Served(Work, v, G, {}),
         \A h \in Waiting(v.queue) : AgedHead(queue, h) => AgedHead(v.queue, h)
  PROVE  WInv(v) /\ Prepares(v) /\ PreparesFairly(v)
<1>1. WInv(v)
  BY ServedOK
<1>2. Prepares(v)
  BY WorkFields DEF Served, Prepares
<1>3. PreparesFairly(v)
  BY WorkFields DEF Served, PreparesFairly
<1> QED BY <1>1, <1>2, <1>3

\* A deadline or an abort takes a request from the shared queue.
LEMMA ExpiredSharedOK ==
  ASSUME WInv(Work), NEW r \in Waiting(queue), NEW v,
         v = [Work EXCEPT !.queue = RemoveById(@, r), !.status[r] = "out"]
  PROVE  WInv(v) /\ Prepares(v) /\ PreparesFairly(v)
<1> DEFINE p == RemoveById(queue, r)
           st == [status EXCEPT ![r] = "out"]
<1>1. /\ Work \in WorkSet /\ QInv(queue) /\ LanesOK(lanes)
      /\ status \in [Requests -> {"out", "queued", "active"}]
      /\ Waiting(queue) \cap LaneQueued(Work) = {}
      /\ Queued(Work) = Waiting(queue) \cup LaneQueued(Work)
  BY WorkFields DEF WInv, WorkSet, Queued
<1>2. r \in Requests
  BY <1>1, WaitingFacts
<1>3. /\ QInv(p) /\ Waiting(p) = Waiting(queue) \ {r}
      /\ \A h : AgedHead(queue, h) /\ h # r => AgedHead(p, h)
  BY <1>1, RemoveByIdFacts
<1>4. /\ st \in [Requests -> {"out", "queued", "active"}]
      /\ \A s \in Requests : st[s] = IF s = r THEN "out" ELSE status[s]
  BY <1>1
<1>5. v = [Work EXCEPT !.queue = p, !.status = st]
  BY <1>1, WorkFields DEF WorkSet
<1> HIDE DEF p, st
<1>6. /\ v \in WorkSet /\ v.queue = p /\ v.lanes = lanes /\ v.older = older /\ v.status = st
      /\ v.activeCost = activeCost
  BY <1>1, <1>3, <1>4, <1>5, WorkFields DEF WorkSet, QInv
<1>7. LaneQueued(v) = LaneQueued(Work)
  BY <1>6, WorkFields DEF LaneQueued
<1>8. Queued(v) = Queued(Work) \ {r}
  BY <1>1, <1>3, <1>6, <1>7 DEF Queued
<1>9. Served(Work, v, {r}, {})
  BY <1>1, <1>3, <1>4, <1>6, <1>7, <1>8, WorkFields DEF Served
<1>10. \A h \in Waiting(v.queue) : AgedHead(queue, h) => AgedHead(v.queue, h)
  BY <1>3, <1>6
<1> QED BY <1>9, <1>10, LeavesOK

\* Or from its lane.
LEMMA ExpiredLanedOK ==
  ASSUME WInv(Work), NEW r \in Requests, status[r] = "queued", r \notin Waiting(queue), NEW v,
         v = [Work EXCEPT !.lanes = LaneKeeps(@, TenantOf[r], Without(@.fifo[TenantOf[r]], {r})),
                          !.status[r] = "out"]
  PROVE  WInv(v) /\ Prepares(v) /\ PreparesFairly(v)
<1> DEFINE t == TenantOf[r]
           f == Without(lanes.fifo[t], {r})
           l == LaneKeeps(lanes, t, f)
           st == [status EXCEPT ![r] = "out"]
<1>1. /\ Work \in WorkSet /\ QInv(queue) /\ LanesOK(lanes)
      /\ status \in [Requests -> {"out", "queued", "active"}]
      /\ Waiting(queue) \cap LaneQueued(Work) = {}
      /\ Queued(Work) = Waiting(queue) \cup LaneQueued(Work)
      /\ Queued(Work) = InQueue(Work)
      /\ LaneQueued(Work) = Members(lanes.fifo)
  BY WorkFields DEF WInv, WorkSet, Queued, LaneQueued, Members
<1>2. r \in LaneQueued(Work) /\ t \in Tenants /\ r \in Range(lanes.fifo[t])
  <2>1. r \in LaneQueued(Work)
    BY <1>1, WorkFields DEF InQueue
  <2> QED BY <1>1, <2>1, MemberFacts DEF LanesOK
<1>3. f \in Seq(Requests) /\ IsInjective(f) /\ Range(f) = Range(lanes.fifo[t]) \ {r}
  <2>1. lanes.fifo[t] \in Seq(Requests) /\ IsInjective(lanes.fifo[t])
    BY <1>1, <1>2 DEF LanesOK, BucketsOK
  <2> QED BY <2>1, WithoutFacts
<1>4. LanesOK(l) /\ Members(l.fifo) = LaneQueued(Work) \ {r}
  <2> HIDE DEF f, t
  <2>1. /\ LanesOK(l)
        /\ Members(l.fifo) = Members(lanes.fifo) \ (Range(lanes.fifo[t]) \ Range(f))
    BY <1>1, <1>2, <1>3, LaneKeepsFacts
  <2> HIDE DEF l
  <2> QED BY <1>1, <1>2, <1>3, <2>1
<1>5. /\ st \in [Requests -> {"out", "queued", "active"}]
      /\ \A s \in Requests : st[s] = IF s = r THEN "out" ELSE status[s]
  BY <1>1
<1>6. v = [Work EXCEPT !.lanes = l, !.status = st]
  BY <1>1, WorkFields DEF WorkSet
<1> HIDE DEF l, st
<1>7. /\ v \in WorkSet /\ v.queue = queue /\ v.lanes = l /\ v.older = older /\ v.status = st
      /\ v.activeCost = activeCost
  BY <1>1, <1>4, <1>5, <1>6, WorkFields DEF WorkSet, LanesOK
<1>8. LaneQueued(v) = LaneQueued(Work) \ {r}
  BY <1>4, <1>7 DEF LaneQueued, Members
<1>9. Queued(v) = Queued(Work) \ {r}
  BY <1>1, <1>2, <1>7, <1>8 DEF Queued
<1>10. Served(Work, v, {r}, {})
  BY <1>1, <1>2, <1>4, <1>5, <1>7, <1>8, <1>9, WorkFields DEF Served
<1>11. \A h \in Waiting(v.queue) : AgedHead(queue, h) => AgedHead(v.queue, h)
  BY <1>7
<1> QED BY <1>10, <1>11, LeavesOK

\* Idle lanes are dropped with what waits in them.
LEMMA WithoutLanesOK ==
  ASSUME WInv(Work), NEW idle \in SUBSET Range(lanes.order)
  PROVE  /\ WInv(WithoutLanes(Work, idle))
         /\ Prepares(WithoutLanes(Work, idle)) /\ PreparesFairly(WithoutLanes(Work, idle))
         /\ WithoutLanes(Work, idle).queue = queue
         /\ WithoutLanes(Work, idle).older = older
         /\ WithoutLanes(Work, idle).activeCost = activeCost
<1> DEFINE b == lanes.fifo
           gone == UNION {Range(b[t]) : t \in idle}
           o2 == Without(lanes.order, idle)
           b2 == [t \in Tenants |-> IF t \in idle THEN << >> ELSE b[t]]
           st == [r \in Requests |-> IF r \in gone THEN "out" ELSE status[r]]
           v == WithoutLanes(Work, idle)
<1>1. /\ Work \in WorkSet /\ QInv(queue) /\ LanesOK(lanes) /\ lanes \in LaneSet
      /\ status \in [Requests -> {"out", "queued", "active"}]
      /\ Waiting(queue) \cap LaneQueued(Work) = {}
      /\ Queued(Work) = Waiting(queue) \cup LaneQueued(Work)
      /\ LaneQueued(Work) = Members(b)
  BY WorkFields DEF WInv, WorkSet, Queued, LaneQueued, Members, LanesOK
<1>2. /\ BucketsOK(lanes.order, b) /\ lanes.order \in Seq(Tenants) /\ IsInjective(lanes.order)
      /\ b \in [Tenants -> Seq(Requests)]
  BY <1>1 DEF LanesOK, BucketsOK
<1>3. o2 \in Seq(Tenants) /\ IsInjective(o2) /\ Range(o2) = Range(lanes.order) \ idle
  BY <1>2, WithoutFacts
<1>4. idle \subseteq Tenants
  BY <1>2, SeqFacts
<1>5. BucketsOK(o2, b2)
  <2>1. Range(<< >>) = {} /\ IsInjective(<< >>) /\ << >> \in Seq(Requests)
    BY EmptyRange
  <2>2. b2 \in [Tenants -> Seq(Requests)]
    BY <1>2, <2>1
  <2>3. ASSUME NEW t \in Tenants
        PROVE  /\ t \in Range(o2) <=> b2[t] # << >>
               /\ IsInjective(b2[t])
               /\ \A r \in Range(b2[t]) : TenantOf[r] = t
    <3> HIDE DEF o2, b
    <3>1. CASE t \in idle
      BY <1>3, <2>1, <3>1
    <3>2. CASE t \notin idle
      BY <1>2, <1>3, <3>2 DEF BucketsOK
    <3> QED BY <3>1, <3>2
  <2> HIDE DEF o2, b2
  <2> QED BY <1>3, <2>2, <2>3 DEF BucketsOK
<1>6. Members(b2) = Members(b) \ gone /\ gone \subseteq Members(b)
  <2>1. Range(<< >>) = {}
    BY EmptyRange
  <2>2. \A t, u \in Tenants : Range(b[t]) \cap Range(b[u]) # {} => t = u
    <3> HIDE DEF b
    <3>1. \A t \in Tenants : \A r \in Range(b[t]) : TenantOf[r] = t
      BY <1>2 DEF BucketsOK
    <3>2. ASSUME NEW t \in Tenants, NEW u \in Tenants, NEW r \in Range(b[t]) \cap Range(b[u])
          PROVE  t = u
      BY <3>1
    <3> QED BY <3>2, Zenon
  <2> HIDE DEF b
  <2>3. ASSUME NEW r \in Members(b2) PROVE r \in Members(b) /\ r \notin gone
    <3>1. PICK t \in Tenants : r \in Range(b2[t])
      BY DEF Members
    <3>2. t \notin idle /\ r \in Range(b[t])
      BY <2>1, <3>1
    <3> QED BY <1>4, <2>2, <3>2 DEF Members
  <2>4. ASSUME NEW r \in Members(b), r \notin gone PROVE r \in Members(b2)
    <3>1. PICK t \in Tenants : r \in Range(b[t])
      BY DEF Members
    <3>2. b2[t] = b[t]
      BY <2>4, <3>1
    <3> QED BY <3>1, <3>2 DEF Members
  <2>5. gone \subseteq Members(b)
    BY <1>4 DEF Members
  <2> QED BY <2>3, <2>4, <2>5
<1>7. st \in [Requests -> {"out", "queued", "active"}]
  BY <1>1
<1> DEFINE l == [lanes EXCEPT !.order = o2, !.fifo = b2]
<1>8. v = [Work EXCEPT !.status = st, !.lanes = l]
  <2> DEFINE x == [Work EXCEPT !.status = st]
  <2>1. x \in WorkSet /\ x.lanes = lanes
    <3> HIDE DEF st
    <3> QED BY <1>1, <1>7, WorkFields DEF WorkSet
  <2>2. v = [x EXCEPT !.lanes.order = Without(@, idle),
                      !.lanes.fifo = [t \in Tenants |-> IF t \in idle THEN << >> ELSE @[t]]]
    <3>1. Work.lanes = lanes /\ Work.status = status
      BY WorkFields
    <3> DEFINE f(w) == [t \in Tenants |-> IF t \in idle THEN << >> ELSE w.lanes.fifo[t]]
               o(w) == Without(w.lanes.order, idle)
    <3>2. f(Work) = f(x) /\ o(Work) = o(x)
      <4> HIDE DEF x
      <4> QED BY <2>1, <3>1
    <3>3. v = [Work EXCEPT !.status = st, !.lanes.order = o(Work), !.lanes.fifo = f(Work)]
      BY <3>1 DEF WithoutLanes
    <3>4. v = [x EXCEPT !.lanes.order = o(Work), !.lanes.fifo = f(Work)]
      <4> HIDE DEF st, f, o, v
      <4> QED BY <3>3
    <3>5. v = [x EXCEPT !.lanes.order = o(x), !.lanes.fifo = f(x)]
      <4> HIDE DEF x, f, o, v
      <4> QED BY <3>2, <3>4
    <3> HIDE DEF x, v
    <3> QED BY <3>5
  <2> HIDE DEF x, v
  <2>3. v = [x EXCEPT !.lanes = [lanes EXCEPT !.order = o2, !.fifo = b2]]
    BY <1>1, <2>1, <2>2 DEF WorkSet, LaneSet
  <2>4. v = [x EXCEPT !.lanes = l]
    BY <2>3
  <2> HIDE DEF l, st
  <2> QED BY <1>1, <2>4 DEF x, WorkSet
<1>9. l \in LaneSet /\ l.order = o2 /\ l.fifo = b2
  <2> HIDE DEF o2, b2
  <2> QED BY <1>1, <1>5 DEF LaneSet, BucketsOK
<1>10. \A r \in Requests : st[r] = IF r \in gone THEN "out" ELSE status[r]
  OBVIOUS
<1> HIDE DEF l, st, v, o2, b2, b, gone
<1>11. /\ v \in WorkSet /\ v.queue = queue /\ v.lanes = l /\ v.older = older /\ v.status = st
       /\ v.activeCost = activeCost
  BY <1>1, <1>7, <1>8, <1>9, WorkFields DEF WorkSet
<1>12. LanesOK(v.lanes) /\ LaneQueued(v) = LaneQueued(Work) \ gone
  <2>1. LaneQueued(v) = Members(l.fifo)
    BY <1>11 DEF LaneQueued, Members
  <2> QED BY <1>1, <1>5, <1>6, <1>9, <1>11, <2>1 DEF LanesOK
<1>13. Queued(v) = Queued(Work) \ gone
  BY <1>1, <1>6, <1>11, <1>12 DEF Queued
<1>14. Served(Work, v, gone, {})
  BY <1>1, <1>6, <1>10, <1>11, <1>12, <1>13, WorkFields DEF Served
<1>15. \A h \in Waiting(v.queue) : AgedHead(queue, h) => AgedHead(v.queue, h)
  BY <1>11
<1>16. WInv(v) /\ Prepares(v) /\ PreparesFairly(v)
  BY <1>14, <1>15, LeavesOK
<1> QED BY <1>11, <1>16 DEF v

\* What a shutdown leaves: nothing waits.
LEMMA ShutdownOK ==
  ASSUME WInv(Work), NEW v,
         v = [Work EXCEPT !.queue = EmptyQueue, !.lanes = NoLanes,
                !.status = [r \in Requests |-> IF @[r] = "queued" THEN "out" ELSE @[r]]]
  PROVE  WInv(v) /\ Prepares(v) /\ PreparesFairly(v)
<1> DEFINE st == [r \in Requests |-> IF status[r] = "queued" THEN "out" ELSE status[r]]
<1>1. /\ Work \in WorkSet /\ QInv(queue) /\ status \in [Requests -> {"out", "queued", "active"}]
      /\ Queued(Work) = {r \in Requests : status[r] = "queued"}
  BY WorkFields DEF WInv, WorkSet, InQueue
<1>2. /\ st \in [Requests -> {"out", "queued", "active"}]
      /\ \A r \in Requests : st[r] = IF status[r] = "queued" THEN "out" ELSE status[r]
  BY <1>1
<1>3. v = [Work EXCEPT !.queue = EmptyQueue, !.lanes = NoLanes, !.status = st]
  BY WorkFields
<1> HIDE DEF st
<1>4. /\ QInv(EmptyQueue) /\ Waiting(EmptyQueue) = {}
      /\ LanesOK(NoLanes) /\ Members(NoLanes.fifo) = {}
  BY EmptyQueueOK, NoLanesOK
<1>5. /\ v \in WorkSet /\ v.queue = EmptyQueue /\ v.lanes = NoLanes /\ v.older = older
      /\ v.status = st /\ v.activeCost = activeCost
  BY <1>1, <1>2, <1>3, <1>4, WorkFields DEF WorkSet, QInv, LanesOK
<1>6. LaneQueued(v) = {}
  BY <1>4, <1>5 DEF LaneQueued, Members
<1>7. Queued(v) = {}
  BY <1>4, <1>5, <1>6 DEF Queued
<1>8. Served(Work, v, Queued(Work), {})
  BY <1>1, <1>2, <1>4, <1>5, <1>6, <1>7, WorkFields DEF Served
<1>9. \A h \in Waiting(v.queue) : AgedHead(queue, h) => AgedHead(v.queue, h)
  BY <1>4, <1>5
<1> QED BY <1>8, <1>9, LeavesOK

-----------------------------------------------------------------------------
(* The adapted limit.                                                       *)

AdaptSet(c) == [limit : c.minLimit..c.maxLimit, pressure : Pressures, freezeGrowth : BOOLEAN,
                completed : BOOLEAN, criticalConsumed : BOOLEAN]

\* A limit of the configuration is a natural number.
LEMMA LimitsAreNatural ==
  ASSUME NEW c \in Configs
  PROVE  /\ c.minLimit \in Nat \ {0} /\ c.maxLimit \in Nat /\ c.minLimit <= c.maxLimit
         /\ c.initialLimit \in Nat
         /\ \A k \in c.minLimit..c.maxLimit : k \in Nat \ {0}
BY AdmissionAssumption

\* A clamped limit is within the configured bounds.
LEMMA ClampedInRange ==
  ASSUME NEW c \in Configs, NEW k \in Int
  PROVE  ClampLimit(k, c) \in c.minLimit..c.maxLimit
BY LimitsAreNatural DEF ClampLimit

\* Reporting pressure leaves the limit alone.
LEMMA SetPressureFacts ==
  ASSUME NEW c, NEW a \in AdaptSet(c), NEW p \in Pressures
  PROVE  SetPressure(a, p) \in AdaptSet(c) /\ SetPressure(a, p).limit = a.limit
BY DEF AdaptSet, SetPressure

\* A new window starts with the limit it is given.
LEMMA NewWindowFacts ==
  ASSUME NEW c, NEW k \in c.minLimit..c.maxLimit
  PROVE  NewWindow(k) \in AdaptSet(c) /\ NewWindow(k).limit = k
BY DEF AdaptSet, NewWindow, Pressures, Severity

\* Closing a window keeps the limit within the configured bounds.
LEMMA NextLimitInRange ==
  ASSUME config \in Configs, adapt \in AdaptSet(config), NEW u, NEW g
  PROVE  NextLimit(u, g) \in config.minLimit..config.maxLimit
<1> DEFINE a == adapt
           adjusted == CASE a.pressure = "critical" ->
                              IF a.criticalConsumed THEN a.limit ELSE a.limit \div 2
                         [] a.pressure = "high" \/ (a.pressure # "critical" /\ a.completed /\ g) ->
                              (a.limit * 8) \div 10
                         [] OTHER ->
                              IF ~a.freezeGrowth /\ u = "high" /\ a.completed
                              THEN a.limit + StepUp ELSE a.limit
           ceiling == RecoveryCeiling(config)
           recovers == /\ u = "low" /\ a.pressure # "critical" /\ ~a.freezeGrowth
                       /\ ~a.completed /\ a.limit < ceiling
           k == IF ~recovers THEN adjusted
                ELSE IF adjusted + StepUp < ceiling THEN adjusted + StepUp ELSE ceiling
<1>1. NextLimit(u, g) = ClampLimit(k, config)
  BY DEF NextLimit
<1>2. adapt.limit \in Nat /\ StepUp \in Nat
  BY LimitsAreNatural, AdmissionAssumption DEF AdaptSet
<1>3. adjusted \in Int
  <2>1. adapt.limit \div 2 \in Int /\ (adapt.limit * 8) \div 10 \in Int /\ adapt.limit + StepUp \in Int
    BY <1>2
  <2> QED BY <1>2, <2>1
<1>4. ceiling \in Int
  <2>1. config.initialLimit \in Int
    BY LimitsAreNatural
  <2>2. ceiling \in config.minLimit..config.maxLimit
    BY <2>1, ClampedInRange DEF RecoveryCeiling
  <2> QED BY <2>2, LimitsAreNatural
<1> HIDE DEF adjusted, ceiling
<1>5. k \in Int
  <2>1. adjusted + StepUp \in Int
    BY <1>2, <1>3
  <2> QED BY <1>3, <1>4, <2>1
<1> HIDE DEF k
<1> QED BY <1>1, <1>5, ClampedInRange

-----------------------------------------------------------------------------
(* The inductive invariant.                                                 *)

\* Between two steps the books are in order, the limit is within bounds, only
\* those that wait have an arrival, and dispatch would find nothing to take.
IInv ==
  /\ config \in Configs
  /\ adapt \in AdaptSet(config)
  /\ shutDown \in BOOLEAN
  /\ WInv(Work)
  /\ older \subseteq Queued(Work) \X Queued(Work)
  /\ NoFittingHeadWaits

\* What a step promises of the requests it admits.
Budget ==
  Admitted # {} /\ config'.mode = "enforce" =>
    /\ activeCost' <= adapt'.limit \/ InAlone
    /\ \/ \A h \in StillAged, r \in Admitted : Older(r, h)
       \/ \E c \in Configs : UpdateConfig(c)

\* After the step dispatch would find nothing to take under this limit.
Rests(limit) ==
  queue'.order # << >> =>
    limit <= activeCost' \/ Choice(queue', limit - activeCost', older') = {}

\* The parts of the invariant, after a step.
LEMMA InvariantNext ==
  ASSUME config' \in Configs, adapt' \in AdaptSet(config'), shutDown' \in BOOLEAN,
         WInv(Work'), older' \subseteq Queued(Work') \X Queued(Work'),
         config'.mode = "enforce" /\ ~shutDown' => Rests(adapt'.limit)
  PROVE  IInv'
BY DEF IInv, AdaptSet, NoFittingHeadWaits, Dispatches, Rests

\* A step that prepares w and dispatches from it to v, or leaves it there.
LEMMA StepFacts ==
  ASSUME NEW w, NEW v, NEW limit, WInv(Work), WInv(v), Becomes(v), Follows(w, v, limit),
         Prepares(w)
  PROVE  /\ WInv(Work') /\ older' \subseteq Queued(Work') \X Queued(Work')
         /\ Admitted # {} => activeCost' <= limit
         /\ PreparesFairly(w) => \A h \in StillAged, r \in Admitted : Older(r, h)
         /\ (v.queue.order # << >> => Stuck(v, limit)) => Rests(limit)
<1>1. /\ WInv(Work') /\ older' \subseteq Queued(Work') \X Queued(Work')
      /\ queue' = v.queue /\ activeCost' = v.activeCost
      /\ \A room : Choice(queue', room, older') = Choice(v.queue, room, v.older)
  BY BecomesFacts
<1>2. Admitted # {} => activeCost' <= limit
  BY AdmittedFit
<1>3. QInv(queue)
  BY WorkFields DEF WInv
<1>4. PreparesFairly(w) => \A h \in StillAged, r \in Admitted : Older(r, h)
  BY <1>3, AdmittedOlder
<1>5. (v.queue.order # << >> => Stuck(v, limit)) => Rests(limit)
  BY <1>1 DEF Stuck, Rests
<1> QED BY <1>1, <1>2, <1>4, <1>5

\* What the methods that keep the configuration have in common: they change
\* what waits and what is held, and dispatch when the mode is enforce.
LEMMA DispatchedStep ==
  ASSUME IInv, NEW w, NEW limit \in Int, NEW late,
         WInv(w), Prepares(w), PreparesFairly(w), Becomes(Dispatched(w, limit, late)),
         UNCHANGED <<config, shutDown>>, adapt' \in AdaptSet(config), adapt'.limit = limit
  PROVE  IInv' /\ Budget
<1> DEFINE v == Dispatched(w, limit, late)
<1>1. WInv(v) /\ Follows(w, v, limit)
  BY DispatchFacts, FollowsSelf DEF Dispatched
<1>2. Dispatches => (v.queue.order # << >> => Stuck(v, limit))
  BY DispatchFacts DEF Dispatched
<1> HIDE DEF v
<1>3. Becomes(v)
  BY DEF v
<1>4. WInv(Work) /\ config \in Configs /\ shutDown \in BOOLEAN
  BY DEF IInv
<1>5. /\ WInv(Work') /\ older' \subseteq Queued(Work') \X Queued(Work')
      /\ Admitted # {} => activeCost' <= limit
      /\ \A h \in StillAged, r \in Admitted : Older(r, h)
      /\ (v.queue.order # << >> => Stuck(v, limit)) => Rests(limit)
  BY <1>1, <1>3, <1>4, StepFacts
<1>6. IInv'
  BY <1>2, <1>4, <1>5, InvariantNext DEF Dispatches
<1>7. Budget
  BY <1>5 DEF Budget
<1> QED BY <1>6, <1>7

\* The same when nothing is dispatched: no one new can be taken from the
\* shared queue if it, the costs and the limit stay as they are.
LEMMA QuietStep ==
  ASSUME IInv, NEW w, WInv(w), Prepares(w), PreparesFairly(w), Becomes(w),
         w.queue = queue, w.older = older, w.activeCost = activeCost,
         UNCHANGED <<config, shutDown>>, adapt' \in AdaptSet(config), adapt'.limit = adapt.limit
  PROVE  IInv' /\ Budget
<1>1. WInv(Work) /\ config \in Configs /\ shutDown \in BOOLEAN
  BY DEF IInv
<1>2. Follows(w, w, adapt.limit)
  BY FollowsSelf
<1>3. Dispatches => (w.queue.order # << >> => Stuck(w, adapt.limit))
  BY DEF IInv, NoFittingHeadWaits, Stuck
<1>4. /\ WInv(Work') /\ older' \subseteq Queued(Work') \X Queued(Work')
      /\ Admitted # {} => activeCost' <= adapt.limit
      /\ \A h \in StillAged, r \in Admitted : Older(r, h)
      /\ (w.queue.order # << >> => Stuck(w, adapt.limit)) => Rests(adapt.limit)
  BY <1>1, <1>2, StepFacts
<1>5. IInv'
  BY <1>1, <1>3, <1>4, InvariantNext DEF Dispatches
<1>6. Budget
  BY <1>4 DEF Budget
<1> QED BY <1>5, <1>6

\* A step that leaves the queues and the leases alone admits no one.
LEMMA IdleStep ==
  ASSUME IInv, UNCHANGED <<config, queue, lanes, status, older, activeCost, shutDown>>,
         adapt' \in AdaptSet(config), adapt'.limit = adapt.limit
  PROVE  IInv' /\ Budget
<1>1. Work' = Work
  BY DEF Work
<1>2. Admitted = {}
  BY DEF Admitted
<1>3. Dispatches => Rests(adapt.limit)
  BY DEF IInv, NoFittingHeadWaits, Rests
<1>4. /\ config \in Configs /\ shutDown \in BOOLEAN
      /\ WInv(Work') /\ older' \subseteq Queued(Work') \X Queued(Work')
  BY <1>1 DEF IInv
<1>5. IInv'
  BY <1>3, <1>4, InvariantNext DEF Dispatches
<1>6. Budget
  BY <1>2 DEF Budget
<1> QED BY <1>5, <1>6

-----------------------------------------------------------------------------
(* The actions.                                                             *)

\* The controller starts with nothing queued and no lease.
LEMMA InitOK == Init => IInv
<1> SUFFICES ASSUME Init PROVE IInv
  OBVIOUS
<1>1. config \in Configs /\ shutDown \in BOOLEAN
  BY AdmissionAssumption DEF Init
<1>2. adapt \in AdaptSet(config)
  <2>1. config.initialLimit \in Int
    BY <1>1, LimitsAreNatural
  <2>2. RecoveryCeiling(config) \in config.minLimit..config.maxLimit
    BY <1>1, <2>1, ClampedInRange DEF RecoveryCeiling
  <2> QED BY <2>2, NewWindowFacts DEF Init
<1>3. /\ QInv(queue) /\ Waiting(queue) = {} /\ LanesOK(lanes) /\ Members(lanes.fifo) = {}
      /\ older = {} /\ activeCost = 0
      /\ status \in [Requests -> {"out", "queued", "active"}]
      /\ \A r \in Requests : status[r] = "out"
  BY EmptyQueueOK, NoLanesOK DEF Init
<1>4. Work \in WorkSet
  BY <1>3 DEF Work, WorkSet, QInv, LanesOK
<1>5. LaneQueued(Work) = {} /\ Queued(Work) = {} /\ InQueue(Work) = {} /\ Active(Work) = {}
  <2>1. LaneQueued(Work) = {}
    BY <1>3, WorkFields DEF LaneQueued, Members
  <2> QED BY <1>3, <2>1, WorkFields DEF Queued, InQueue, Active
<1>6. Ordered(older, Queued(Work))
  BY <1>3, <1>5 DEF Ordered, StrictOn
<1>7. activeCost = Cost(Active(Work))
  BY <1>3, <1>5, CostBounds
<1>8. WInv(Work)
  BY <1>3, <1>4, <1>5, <1>6, <1>7, WorkFields DEF WInv
<1>9. queue.order = << >>
  BY <1>3, WaitingFacts
<1> QED BY <1>1, <1>2, <1>3, <1>5, <1>8, <1>9 DEF IInv, NoFittingHeadWaits

\* The limit is an integer.
LEMMA LimitIsInt ==
  ASSUME IInv
  PROVE  adapt.limit \in Int
<1>1. adapt.limit \in config.minLimit..config.maxLimit
  BY DEF IInv, AdaptSet
<1> QED BY <1>1

\* An admission that does not wait: in mode enforce the shared queue is
\* empty, and the request fits or is the only one.
LEMMA AcquireAtOnceOK ==
  ASSUME IInv, NEW r \in Requests, NEW p \in Pressures, AcquireAtOnce(r, p)
  PROVE  IInv' /\ Budget
<1> DEFINE v == Admit(Work, r)
<1>1. /\ WInv(Work) /\ config \in Configs /\ shutDown \in BOOLEAN /\ adapt \in AdaptSet(config)
      /\ QInv(queue)
  BY WorkFields DEF IInv, WInv
<1>2. /\ status[r] = "out" /\ adapt' = SetPressure(adapt, p) /\ AdmitsAtOnce(r, adapt')
      /\ Becomes(v) /\ UNCHANGED <<config, shutDown>>
  BY DEF AcquireAtOnce, Acquires
<1>3. adapt' \in AdaptSet(config') /\ adapt'.limit = adapt.limit
  BY <1>1, <1>2, SetPressureFacts
<1>4. /\ WInv(v) /\ v.queue = queue
      /\ v.activeCost = activeCost + CostOf[r]
      /\ v.status = [status EXCEPT ![r] = "active"]
  BY <1>1, <1>2, AdmitOK, WorkFields
<1> HIDE DEF v
<1>5. /\ WInv(Work') /\ older' \subseteq Queued(Work') \X Queued(Work')
      /\ queue' = queue /\ status' = [status EXCEPT ![r] = "active"]
      /\ activeCost' = activeCost + CostOf[r]
  BY <1>2, <1>4, BecomesFacts
<1>6. ASSUME config.mode = "enforce"
      PROVE  /\ queue.order = << >>
             /\ activeCost' <= adapt'.limit \/ InAlone
  <2>1. CASE CostOf[r] > adapt.limit
    <3>1. /\ Queued(Work) = {} /\ \A s \in Requests : status[s] # "active"
          /\ CostOf[r] <= config.maxLimit /\ adapt'.pressure = "normal"
      BY <1>2, <1>6, <2>1 DEF AdmitsAtOnce, ShouldAdmitSolo
    <3>2. queue.order = << >>
      BY <1>1, <3>1, WaitingFacts, WorkFields DEF Queued
    <3>3. /\ status \in [Requests -> {"out", "queued", "active"}]
          /\ Queued(Work) = {s \in Requests : status[s] = "queued"}
      BY <1>1, WorkFields DEF WInv, WorkSet, InQueue
    <3>4. \A s \in Requests : status[s] = "out"
      BY <3>1, <3>3
    <3>5. Admitted = {r}
      BY <1>5, <3>1, <3>3 DEF Admitted
    <3> QED BY <3>1, <3>2, <3>4, <3>5 DEF InAlone
  <2>2. CASE ~(CostOf[r] > adapt.limit)
    <3>1. queue.order = << >> /\ activeCost + CostOf[r] <= adapt.limit
      BY <1>2, <1>6, <2>2 DEF AdmitsAtOnce, Fits
    <3> QED BY <1>3, <1>5, <3>1
  <2> QED BY <2>1, <2>2
<1>7. config.mode = "enforce" => StillAged = {}
  <2>1. SUFFICES ASSUME config.mode = "enforce" PROVE StillAged = {}
    OBVIOUS
  <2>2. Len(queue.order) = 0
    BY <1>6, <2>1
  <2>3. Turns(queue) = {}
    BY <2>2 DEF Turns
  <2> QED BY <2>3 DEF StillAged, Aged
<1>8. IInv'
  BY <1>1, <1>2, <1>3, <1>5, <1>6, InvariantNext DEF Rests
<1>9. Budget
  BY <1>2, <1>6, <1>7 DEF Budget
<1> QED BY <1>8, <1>9

\* A request that waits, or is admitted by the dispatch that follows.
LEMMA AcquireQueuedOK ==
  ASSUME IInv, NEW r \in Requests, NEW p \in Pressures, AcquireQueued(r, p)
  PROVE  IInv' /\ Budget
<1> DEFINE w == Enqueued(Work, r)
           v(late) == Dispatch(w, adapt.limit, late)
           u(late) == Dispatch(v(late), adapt.limit, late)
<1>1. /\ WInv(Work) /\ config \in Configs /\ shutDown \in BOOLEAN /\ adapt \in AdaptSet(config)
      /\ older \subseteq Queued(Work) \X Queued(Work)
  BY DEF IInv
<1>2. /\ status[r] = "out" /\ adapt' = SetPressure(adapt, p) /\ UNCHANGED <<config, shutDown>>
  BY DEF AcquireQueued, Acquires
<1>3. PICK late \in Lates : Becomes(u(late))
  BY DEF AcquireQueued
<1>4. adapt' \in AdaptSet(config') /\ adapt'.limit = adapt.limit /\ adapt.limit \in Int
  BY <1>1, <1>2, SetPressureFacts, LimitIsInt
<1>5. WInv(w) /\ Prepares(w) /\ PreparesFairly(w)
  BY <1>1, <1>2, EnqueuedOK
<1> HIDE DEF w
<1>6. WInv(v(late)) /\ Follows(w, v(late), adapt.limit)
  BY <1>4, <1>5, DispatchFacts
<1> HIDE DEF v
<1>7. /\ WInv(u(late)) /\ Follows(v(late), u(late), adapt.limit)
      /\ u(late).queue.order # << >> => Stuck(u(late), adapt.limit)
  BY <1>4, <1>6, DispatchFacts
<1> HIDE DEF u
<1>8. Follows(w, u(late), adapt.limit)
  BY <1>6, <1>7, FollowsOn
<1>9. /\ WInv(Work') /\ older' \subseteq Queued(Work') \X Queued(Work')
      /\ Admitted # {} => activeCost' <= adapt.limit
      /\ \A h \in StillAged, s \in Admitted : Older(s, h)
      /\ Rests(adapt.limit)
  BY <1>1, <1>3, <1>5, <1>7, <1>8, StepFacts
<1>10. IInv'
  BY <1>1, <1>2, <1>4, <1>9, InvariantNext
<1>11. Budget
  BY <1>4, <1>9 DEF Budget
<1> QED BY <1>10, <1>11

\* A refused request leaves only its report of pressure.
LEMMA AcquireRefusedOK ==
  ASSUME IInv, NEW r \in Requests, NEW p \in Pressures, AcquireRefused(r, p)
  PROVE  IInv' /\ Budget
<1>1. adapt \in AdaptSet(config)
  BY DEF IInv
<1>2. SetPressure(adapt, p) \in AdaptSet(config) /\ SetPressure(adapt, p).limit = adapt.limit
  BY <1>1, SetPressureFacts
<1> QED BY <1>2, IdleStep DEF AcquireRefused

\* A lease is returned and what it held is dispatched.
LEMMA ReleaseLeaseOK ==
  ASSUME IInv, NEW r \in Requests, NEW failed \in BOOLEAN, NEW p \in Pressures,
         ReleaseLease(r, failed, p)
  PROVE  IInv' /\ Budget
<1> DEFINE w == [Work EXCEPT !.status[r] = "out", !.activeCost = @ - CostOf[r]]
<1>1. WInv(Work) /\ adapt \in AdaptSet(config) /\ adapt.limit \in Int
  BY LimitIsInt DEF IInv
<1>2. /\ status[r] = "active" /\ UNCHANGED <<config, shutDown>>
      /\ adapt' = [SetPressure(adapt, p) EXCEPT !.completed = TRUE, !.freezeGrowth = @ \/ failed]
  BY DEF ReleaseLease
<1>3. PICK late \in Lates : Becomes(Dispatched(w, adapt.limit, late))
  BY DEF ReleaseLease
<1>4. adapt' \in AdaptSet(config) /\ adapt'.limit = adapt.limit
  <2> DEFINE a == SetPressure(adapt, p)
  <2>1. a \in AdaptSet(config) /\ a.limit = adapt.limit
    BY <1>1, SetPressureFacts
  <2> HIDE DEF a
  <2>2. adapt' = [a EXCEPT !.completed = TRUE, !.freezeGrowth = @ \/ failed]
    BY <1>2 DEF a
  <2> QED BY <2>1, <2>2 DEF AdaptSet
<1>5. /\ WInv(w) /\ w.queue = queue /\ w.older = older
      /\ \A s \in Requests : w.status[s] = "active" => status[s] = "active"
  <2>1. w = [Work EXCEPT !.status[r] = "out", !.activeCost = @ - CostOf[r]]
    OBVIOUS
  <2>2. Work.status[r] = "active"
    BY <1>2, WorkFields
  <2> HIDE DEF w
  <2>3. /\ WInv(w) /\ w.queue = Work.queue /\ w.older = Work.older
        /\ \A s \in Requests : w.status[s] = "active" => Work.status[s] = "active"
    BY <1>1, <2>1, <2>2, ReleaseOK
  <2> QED BY <2>3, WorkFields
<1> HIDE DEF w
<1>6. Prepares(w) /\ PreparesFairly(w)
  BY <1>5 DEF Prepares, PreparesFairly
<1> QED BY <1>1, <1>2, <1>3, <1>4, <1>5, <1>6, DispatchedStep

\* A deadline or an abort, and the dispatch after it.
LEMMA ExpireEntryOK ==
  ASSUME IInv, NEW r \in Requests, ExpireEntry(r)
  PROVE  IInv' /\ Budget
<1> DEFINE t == TenantOf[r]
           shared == [Work EXCEPT !.queue = RemoveById(@, r), !.status[r] = "out"]
           laned  == [Work EXCEPT !.lanes = LaneKeeps(@, t, Without(@.fifo[t], {r})),
                                  !.status[r] = "out"]
           w == IF r \in Waiting(queue) THEN shared ELSE laned
<1>1. WInv(Work) /\ adapt \in AdaptSet(config) /\ adapt.limit \in Int
  BY LimitIsInt DEF IInv
<1>2. status[r] = "queued" /\ UNCHANGED <<config, adapt, shutDown>>
  BY DEF ExpireEntry
<1>3. PICK late \in Lates : Becomes(Dispatched(w, adapt.limit, late))
  BY DEF ExpireEntry, ExpiredThenDispatch
<1>4. WInv(w) /\ Prepares(w) /\ PreparesFairly(w)
  <2>1. CASE r \in Waiting(queue)
    <3>1. w = shared
      BY <2>1
    <3> HIDE DEF w
    <3> QED BY <1>1, <2>1, <3>1, ExpiredSharedOK
  <2>2. CASE r \notin Waiting(queue)
    <3>1. w = laned
      BY <2>2
    <3> HIDE DEF w
    <3> QED BY <1>1, <1>2, <2>2, <3>1, ExpiredLanedOK
  <2> QED BY <2>1, <2>2
<1> HIDE DEF w
<1> QED BY <1>1, <1>2, <1>3, <1>4, DispatchedStep

\* Nothing has moved yet: what there is is ready for a dispatch.
LEMMA WorkPrepares ==
  ASSUME IInv
  PROVE  WInv(Work) /\ Prepares(Work) /\ PreparesFairly(Work)
BY WorkFields DEF IInv, Prepares, PreparesFairly

\* A report of pressure; the first critical one lowers the limit.
LEMMA ObservePressureOK ==
  ASSUME IInv, NEW p \in Pressures, ObservePressure(p)
  PROVE  IInv' /\ Budget
<1> DEFINE a == SetPressure(adapt, p)
           half == adapt.limit \div 2
           limit == IF half < config.minLimit THEN config.minLimit ELSE half
<1>1. config \in Configs /\ adapt \in AdaptSet(config) /\ adapt.limit \in config.minLimit..config.maxLimit
  BY DEF IInv, AdaptSet
<1>2. a \in AdaptSet(config) /\ a.limit = adapt.limit
  BY <1>1, SetPressureFacts
<1>3. UNCHANGED <<config, shutDown>>
  BY DEF ObservePressure
<1>4. CASE p = "critical" /\ ~adapt.criticalConsumed
  <2>1. adapt' = [a EXCEPT !.limit = limit, !.criticalConsumed = TRUE]
    BY <1>4 DEF ObservePressure
  <2>2. PICK late \in Lates : Becomes(Dispatched(Work, limit, late))
    BY <1>4 DEF ObservePressure
  <2>3. limit \in config.minLimit..config.maxLimit
    <3>1. config.minLimit \in Nat /\ config.maxLimit \in Nat /\ adapt.limit \in Nat
          /\ config.minLimit <= config.maxLimit /\ adapt.limit <= config.maxLimit
      BY <1>1, LimitsAreNatural
    <3>2. half \in Int /\ half <= adapt.limit
      BY <3>1
    <3> HIDE DEF half
    <3> QED BY <3>1, <3>2
  <2> HIDE DEF a, limit
  <2>4. limit \in Int
    BY <2>3
  <2>5. adapt' \in AdaptSet(config) /\ adapt'.limit = limit
    BY <1>2, <2>1, <2>3 DEF AdaptSet
  <2> QED BY <1>3, <2>2, <2>4, <2>5, WorkPrepares, DispatchedStep
<1>5. CASE ~(p = "critical" /\ ~adapt.criticalConsumed)
  <2>1. adapt' = a /\ UNCHANGED <<queue, lanes, status, older, activeCost>>
    BY <1>5 DEF ObservePressure
  <2> HIDE DEF a
  <2> QED BY <1>2, <1>3, <2>1, IdleStep
<1> QED BY <1>4, <1>5

\* The end of a window: idle lanes go and the new limit is dispatched.
LEMMA TickOK ==
  ASSUME IInv, NEW u \in Levels, NEW g \in BOOLEAN, Tick(u, g)
  PROVE  IInv' /\ Budget
<1> DEFINE limit == NextLimit(u, g)
<1>1. config \in Configs /\ adapt \in AdaptSet(config) /\ WInv(Work)
  BY DEF IInv
<1>2. adapt' = NewWindow(limit) /\ UNCHANGED <<config, shutDown>>
  BY DEF Tick
<1>3. PICK idle \in SUBSET Range(lanes.order), late \in Lates :
        Becomes(Dispatched(WithoutLanes(Work, idle), limit, late))
  BY DEF Tick
<1>4. limit \in config.minLimit..config.maxLimit
  BY <1>1, NextLimitInRange
<1> HIDE DEF limit
<1>5. limit \in Int
  BY <1>4
<1>6. adapt' \in AdaptSet(config) /\ adapt'.limit = limit
  BY <1>2, <1>4, NewWindowFacts
<1>7. /\ WInv(WithoutLanes(Work, idle))
      /\ Prepares(WithoutLanes(Work, idle)) /\ PreparesFairly(WithoutLanes(Work, idle))
  BY <1>1, WithoutLanesOK
<1> QED BY <1>2, <1>3, <1>5, <1>6, <1>7, DispatchedStep

\* Idle lanes go without a dispatch; the shared queue is what it was.
LEMMA EvictIdleLanesOK ==
  ASSUME IInv, EvictIdleLanes
  PROVE  IInv' /\ Budget
<1>1. WInv(Work) /\ adapt \in AdaptSet(config)
  BY DEF IInv
<1>2. UNCHANGED <<config, adapt, shutDown>>
  BY DEF EvictIdleLanes
<1>3. PICK idle \in SUBSET Range(lanes.order) : Becomes(WithoutLanes(Work, idle))
  BY DEF EvictIdleLanes
<1> DEFINE w == WithoutLanes(Work, idle)
<1>4. /\ WInv(w) /\ Prepares(w) /\ PreparesFairly(w)
      /\ w.queue = queue /\ w.older = older /\ w.activeCost = activeCost
  BY <1>1, WithoutLanesOK
<1>5. Becomes(w)
  BY <1>3
<1> HIDE DEF w
<1> QED BY <1>1, <1>2, <1>4, <1>5, QuietStep

\* A new configuration: what waited is admitted, failed or queued again and
\* dispatched under the new limit.
LEMMA UpdateConfigOK ==
  ASSUME IInv, NEW c \in Configs, UpdateConfig(c)
  PROVE  IInv' /\ Budget
<1> DEFINE limit == ClampLimit(adapt.limit, c)
           w == Moved(AllDrained, c, limit)
<1>1. WInv(Work) /\ adapt.limit \in Int /\ shutDown \in BOOLEAN
  BY LimitIsInt DEF IInv
<1>2. config' = c /\ adapt' = NewWindow(limit) /\ UNCHANGED shutDown
  BY DEF UpdateConfig
<1>3. limit \in c.minLimit..c.maxLimit
  BY <1>1, ClampedInRange
<1>4. adapt' \in AdaptSet(config') /\ adapt'.limit = limit /\ limit \in Int
  <2> HIDE DEF limit
  <2>1. adapt' \in AdaptSet(config') /\ adapt'.limit = limit
    BY <1>2, <1>3, NewWindowFacts
  <2>2. limit \in Int
    BY <1>3
  <2> QED BY <2>1, <2>2
<1>5. WInv(w) /\ (c.mode = "enforce" => Active(w) = Active(Work))
  BY <1>1, MovedFacts
<1>6. c.mode = "enforce" => Prepares(w)
  <2> HIDE DEF w
  <2> QED BY <1>5, WorkFields DEF Active, Prepares
<1>7. CASE c.mode = "enforce" /\ ~shutDown
  <2>1. PICK late \in Lates : Becomes(Dispatch(w, limit, late))
    BY <1>7 DEF UpdateConfig
  <2> DEFINE v == Dispatch(w, limit, late)
  <2> HIDE DEF w, limit
  <2>2. /\ WInv(v) /\ Follows(w, v, limit)
        /\ v.queue.order # << >> => Stuck(v, limit)
    BY <1>4, <1>5, DispatchFacts
  <2>3. Becomes(v)
    BY <2>1
  <2> HIDE DEF v
  <2>4. /\ WInv(Work') /\ older' \subseteq Queued(Work') \X Queued(Work')
        /\ Admitted # {} => activeCost' <= limit
        /\ Rests(limit)
    BY <1>1, <1>6, <1>7, <2>2, <2>3, StepFacts
  <2>5. IInv'
    BY <1>1, <1>2, <1>4, <2>4, InvariantNext
  <2>6. Budget
    BY <1>4, <2>4 DEF Budget
  <2> QED BY <2>5, <2>6
<1>8. CASE ~(c.mode = "enforce" /\ ~shutDown)
  <2>1. Becomes(w)
    BY <1>8 DEF UpdateConfig
  <2> HIDE DEF w, limit
  <2>2. WInv(Work') /\ older' \subseteq Queued(Work') \X Queued(Work')
    BY <1>5, <2>1, BecomesFacts
  <2>3. IInv'
    BY <1>1, <1>2, <1>4, <1>8, <2>2, InvariantNext
  <2>4. c.mode = "enforce" /\ Admitted # {} => activeCost' <= limit
    BY <1>5, <1>6, <2>1, FollowsSelf, AdmittedFit
  <2>5. Budget
    BY <1>2, <1>4, <2>4 DEF Budget
  <2> QED BY <2>3, <2>5
<1> QED BY <1>7, <1>8

\* After a shutdown nothing waits, and the leases are as they were.
LEMMA ShutdownStepOK ==
  ASSUME IInv, Shutdown
  PROVE  IInv' /\ Budget
<1> DEFINE w == [Work EXCEPT !.queue = EmptyQueue, !.lanes = NoLanes,
                   !.status = [r \in Requests |-> IF @[r] = "queued" THEN "out" ELSE @[r]]]
<1>1. WInv(Work) /\ config \in Configs /\ adapt \in AdaptSet(config)
  BY DEF IInv
<1>2. shutDown' = TRUE /\ Becomes(w) /\ UNCHANGED <<config, adapt>>
  BY DEF Shutdown
<1>3. WInv(w) /\ Prepares(w) /\ PreparesFairly(w)
  BY <1>1, ShutdownOK
<1> HIDE DEF w
<1>4. /\ WInv(Work') /\ older' \subseteq Queued(Work') \X Queued(Work')
      /\ Admitted # {} => activeCost' <= adapt.limit
      /\ \A h \in StillAged, r \in Admitted : Older(r, h)
  BY <1>1, <1>2, <1>3, FollowsSelf, StepFacts
<1>5. IInv'
  BY <1>1, <1>2, <1>4, InvariantNext
<1>6. Budget
  BY <1>2, <1>4 DEF Budget
<1> QED BY <1>5, <1>6

\* Every step keeps the invariant and its promise.
LEMMA NextOK ==
  ASSUME IInv, [Next]_vars
  PROVE  IInv' /\ [Budget]_vars
<1>1. CASE UNCHANGED vars
  <2>1. adapt \in AdaptSet(config)
    BY DEF IInv
  <2>2. UNCHANGED <<config, queue, lanes, status, older, activeCost, shutDown>> /\ adapt' = adapt
    BY <1>1 DEF vars
  <2> QED BY <2>1, <2>2, IdleStep
<1>2. ASSUME NEW r \in Requests, NEW p \in Pressures, AcquireAtOnce(r, p) PROVE IInv' /\ Budget
  BY <1>2, AcquireAtOnceOK
<1>3. ASSUME NEW r \in Requests, NEW p \in Pressures, AcquireQueued(r, p) PROVE IInv' /\ Budget
  BY <1>3, AcquireQueuedOK
<1>4. ASSUME NEW r \in Requests, NEW p \in Pressures, AcquireRefused(r, p) PROVE IInv' /\ Budget
  BY <1>4, AcquireRefusedOK
<1>5. ASSUME NEW r \in Requests, NEW p \in Pressures, NEW failed \in BOOLEAN,
             ReleaseLease(r, failed, p)
      PROVE  IInv' /\ Budget
  BY <1>5, ReleaseLeaseOK
<1>6. ASSUME NEW r \in Requests, ExpireEntry(r) PROVE IInv' /\ Budget
  BY <1>6, ExpireEntryOK
<1>7. ASSUME NEW p \in Pressures, ObservePressure(p) PROVE IInv' /\ Budget
  BY <1>7, ObservePressureOK
<1>8. ASSUME NEW u \in Levels, NEW g \in BOOLEAN, Tick(u, g) PROVE IInv' /\ Budget
  BY <1>8, TickOK
<1>9. CASE EvictIdleLanes
  BY <1>9, EvictIdleLanesOK
<1>10. ASSUME NEW c \in Configs, UpdateConfig(c) PROVE IInv' /\ Budget
  BY <1>10, UpdateConfigOK
<1>11. CASE Shutdown
  BY <1>11, ShutdownStepOK
<1> QED BY <1>1, <1>2, <1>3, <1>4, <1>5, <1>6, <1>7, <1>8, <1>9, <1>10, <1>11 DEF Next

\* The invariant implies the type invariant the runs check.
LEMMA InvariantTyped == IInv => TypeOK
<1> SUFFICES ASSUME IInv PROVE TypeOK
  OBVIOUS
<1>1. /\ config \in Configs /\ adapt \in AdaptSet(config) /\ shutDown \in BOOLEAN
      /\ older \subseteq Queued(Work) \X Queued(Work)
  BY DEF IInv
<1>2. /\ QInv(queue) /\ LanesOK(lanes) /\ Waiting(queue) \cap LaneQueued(Work) = {}
      /\ status \in [Requests -> {"out", "queued", "active"}]
      /\ Queued(Work) = InQueue(Work) /\ Ordered(older, Queued(Work))
      /\ activeCost = Cost(Active(Work))
  BY WorkFields DEF IInv, WInv, WorkSet
<1>3. QueueOK(queue)
  BY <1>2, QueueIsOK
<1>4. \A t \in Tenants : (lanes.fifo[t] # << >>) = (t \in Range(lanes.order))
  BY <1>2 DEF LanesOK, BucketsOK
<1>5. \A r, s \in Queued(Work) : r # s => (<<r, s>> \in older) # (<<s, r>> \in older)
  BY <1>2 DEF Ordered, StrictOn
<1>6. Active(Work) = {r \in Requests : status[r] = "active"}
  BY WorkFields DEF Active
<1> QED BY <1>1, <1>2, <1>3, <1>4, <1>5, <1>6 DEF TypeOK, AdaptSet

-----------------------------------------------------------------------------
(* Who is served first.                                                     *)

ServesFirst ==
  /\ config'.mode = "enforce" /\ ~shutDown' /\ Aged(queue) # {}
  /\ ReservedHead \in Waiting(queue')
  => CostOf[ReservedHead] > adapt'.limit - activeCost

\* The head that reserved the capacity, while it waits.
LEMMA ReservedHeadFacts ==
  ASSUME IInv, Aged(queue) # {}
  PROVE  /\ ReservedHead \in Requests /\ CostOf[ReservedHead] \in Nat \ {0}
         /\ activeCost \in Int /\ adapt.limit \in Int
         /\ \A room : CostOf[ReservedHead] <= room
                       => Choice(queue, room, older) = {Reserved(queue, older)}
         /\ Dispatches => CostOf[ReservedHead] > adapt.limit - activeCost
<1>1. /\ QInv(queue) /\ Ordered(older, Waiting(queue)) /\ activeCost \in Int /\ adapt.limit \in Int
  <2>1. WInv(Work)
    BY DEF IInv
  <2>2. Ordered(Work.older, Waiting(Work.queue)) /\ Work.activeCost \in Int /\ QInv(Work.queue)
    BY <2>1 DEF WInv, WorkSet, Ordered, StrictOn, Queued
  <2> QED BY <2>2, WorkFields, LimitIsInt
<1>2. Reserved(queue, older) \in Aged(queue)
  BY <1>1, ReservedFacts
<1>3. ReservedHead \in Requests /\ CostOf[ReservedHead] \in Nat \ {0}
  <2>1. ReservedHead \in Waiting(queue)
    BY <1>1, <1>2, AgedFacts DEF AgedHead, IsHead, ReservedHead
  <2> QED BY <1>1, <2>1, WaitingFacts, CostBounds
<1>4. \A room : CostOf[ReservedHead] <= room
                  => Choice(queue, room, older) = {Reserved(queue, older)}
  BY DEF Choice, ReservedHead
<1>5. ASSUME Dispatches PROVE CostOf[ReservedHead] > adapt.limit - activeCost
  <2>1. queue.order # << >>
    <3>1. Len(queue.order) # 0
      BY <1>1, <1>2 DEF Aged, Turns
    <3> QED BY <3>1
  <2>2. adapt.limit <= activeCost \/ Choice(queue, adapt.limit - activeCost, older) = {}
    BY <1>5, <2>1 DEF IInv, NoFittingHeadWaits
  <2> QED BY <1>1, <1>3, <1>4, <2>2
<1> QED BY <1>1, <1>3, <1>4, <1>5

\* A step that does not raise the limit gives it no room it did not have.
LEMMA NoNewRoom ==
  ASSUME IInv, UNCHANGED config, shutDown' = shutDown \/ shutDown',
         adapt'.limit \in Int, adapt'.limit <= adapt.limit
  PROVE  ServesFirst
<1> SUFFICES ASSUME config'.mode = "enforce", ~shutDown', Aged(queue) # {}
             PROVE  CostOf[ReservedHead] > adapt'.limit - activeCost
  BY DEF ServesFirst
<1>1. Dispatches
  BY DEF Dispatches
<1>2. /\ CostOf[ReservedHead] \in Nat /\ activeCost \in Int /\ adapt.limit \in Int
      /\ CostOf[ReservedHead] > adapt.limit - activeCost
  BY <1>1, ReservedHeadFacts
<1> QED BY <1>2

\* A new window may have a higher limit, and dispatches.
LEMMA TickServesFirst ==
  ASSUME IInv, NEW u \in Levels, NEW g \in BOOLEAN, Tick(u, g)
  PROVE  ServesFirst
<1> DEFINE limit == NextLimit(u, g)
           h == ReservedHead
<1> SUFFICES ASSUME config'.mode = "enforce", ~shutDown', Aged(queue) # {},
                    CostOf[h] <= adapt'.limit - activeCost
             PROVE  h \notin Waiting(queue')
  <2>1. CASE Aged(queue) # {} /\ ~(CostOf[h] <= adapt'.limit - activeCost)
    <3>1. limit \in config.minLimit..config.maxLimit
      BY NextLimitInRange DEF IInv
    <3>2. adapt'.limit = limit
      <4> HIDE DEF limit
      <4> QED BY <3>1, NewWindowFacts DEF Tick, limit
    <3> HIDE DEF limit, h
    <3>3. CostOf[h] \in Nat /\ activeCost \in Int
      BY <2>1, ReservedHeadFacts DEF h
    <3> QED BY <2>1, <3>1, <3>2, <3>3 DEF ServesFirst, h
  <2> QED BY <2>1 DEF ServesFirst
<1>1. config \in Configs /\ adapt \in AdaptSet(config) /\ WInv(Work)
  BY DEF IInv
<1>2. adapt' = NewWindow(limit) /\ UNCHANGED <<config, shutDown>>
  BY DEF Tick
<1>3. PICK idle \in SUBSET Range(lanes.order), late \in Lates :
        Becomes(Dispatched(WithoutLanes(Work, idle), limit, late))
  BY DEF Tick
<1>4. limit \in config.minLimit..config.maxLimit
  BY <1>1, NextLimitInRange
<1> HIDE DEF limit
<1>5. limit \in Int /\ adapt'.limit = limit
  BY <1>2, <1>4, NewWindowFacts
<1> DEFINE w == WithoutLanes(Work, idle)
<1>6. WInv(w) /\ w.queue = queue /\ w.older = older /\ w.activeCost = activeCost
  BY <1>1, WithoutLanesOK
<1>7. Becomes(Dispatch(w, limit, late))
  BY <1>2, <1>3 DEF Dispatched, Dispatches
<1> HIDE DEF w
<1>8. queue' = Dispatch(w, limit, late).queue
  BY <1>7 DEF Becomes
<1>9. /\ Reserved(queue, older) \in Choice(queue, limit - activeCost, older)
      /\ limit > activeCost
  <2>1. CostOf[h] <= limit - activeCost
    BY <1>5
  <2> QED BY <1>5, <2>1, ReservedHeadFacts
<1>10. HeadAt(w.queue, Reserved(queue, older)) \notin Waiting(Dispatch(w, limit, late).queue)
  BY <1>5, <1>6, <1>9, FirstChoiceServed
<1> QED BY <1>6, <1>8, <1>10 DEF ReservedHead

\* A new configuration drains and requeues it before all others.
LEMMA UpdateServesFirst ==
  ASSUME IInv, NEW c \in Configs, UpdateConfig(c)
  PROVE  ServesFirst
<1> DEFINE limit == ClampLimit(adapt.limit, c)
           w == Moved(AllDrained, c, limit)
           h == ReservedHead
<1>1. WInv(Work) /\ adapt.limit \in Int
  BY LimitIsInt DEF IInv
<1>2. config' = c /\ adapt' = NewWindow(limit) /\ UNCHANGED shutDown
  BY DEF UpdateConfig
<1>3. limit \in Int /\ adapt'.limit = limit
  <2>1. limit \in c.minLimit..c.maxLimit
    BY <1>1, ClampedInRange
  <2> HIDE DEF limit
  <2> QED BY <1>2, <2>1, NewWindowFacts
<1> SUFFICES ASSUME c.mode = "enforce", ~shutDown, Aged(queue) # {}, h \in Waiting(queue'),
                    ~(CostOf[h] > limit - activeCost)
             PROVE  FALSE
  BY <1>2, <1>3 DEF ServesFirst
<1>4. PICK late \in Lates : Becomes(Dispatch(w, limit, late))
  BY DEF UpdateConfig
<1>5. WInv(w) /\ w.activeCost = activeCost /\ (FirstIn(w.queue, h) \/ h \notin Waiting(w.queue))
  BY <1>1, MovedFacts
<1> HIDE DEF w, limit, h
<1>6. queue' = Dispatch(w, limit, late).queue
  BY <1>4 DEF Becomes
<1>7. FirstIn(w.queue, h)
  BY <1>3, <1>5, <1>6, DispatchFacts DEF Follows
<1>8. /\ CostOf[h] \in Nat \ {0} /\ activeCost \in Int /\ CostOf[h] <= limit - activeCost
      /\ limit > activeCost /\ limit - activeCost \in Int
  <2>1. CostOf[h] \in Nat \ {0} /\ activeCost \in Int
    BY ReservedHeadFacts DEF h
  <2> QED BY <1>3, <2>1
<1>9. 0 \in Choice(w.queue, limit - w.activeCost, w.older) /\ HeadAt(w.queue, 0) = h
  BY <1>5, <1>7, <1>8, FirstIsChosen DEF WInv
<1>10. h \notin Waiting(Dispatch(w, limit, late).queue)
  BY <1>3, <1>5, <1>8, <1>9, FirstChoiceServed
<1> QED BY <1>6, <1>10

\* So does every step.
LEMMA NextServesFirst ==
  ASSUME IInv, Next
  PROVE  ServesFirst
<1>1. config \in Configs /\ adapt \in AdaptSet(config) /\ adapt.limit \in Int
  BY LimitIsInt DEF IInv
<1>2. ASSUME NEW r \in Requests, NEW p \in Pressures,
             AcquireAtOnce(r, p) \/ AcquireQueued(r, p) \/ AcquireRefused(r, p)
      PROVE  ServesFirst
  <2>1. adapt' = SetPressure(adapt, p) /\ UNCHANGED <<config, shutDown>>
    BY <1>2 DEF AcquireAtOnce, AcquireQueued, AcquireRefused
  <2>2. adapt'.limit = adapt.limit
    BY <1>1, <2>1, SetPressureFacts
  <2> QED BY <1>1, <2>1, <2>2, NoNewRoom
<1>3. ASSUME NEW r \in Requests, NEW p \in Pressures, NEW failed \in BOOLEAN,
             ReleaseLease(r, failed, p)
      PROVE  ServesFirst
  <2> DEFINE a == SetPressure(adapt, p)
  <2>1. a \in AdaptSet(config) /\ a.limit = adapt.limit
    BY <1>1, SetPressureFacts
  <2>2. /\ adapt' = [a EXCEPT !.completed = TRUE, !.freezeGrowth = @ \/ failed]
        /\ UNCHANGED <<config, shutDown>>
    BY <1>3 DEF ReleaseLease
  <2> HIDE DEF a
  <2>3. adapt'.limit = adapt.limit
    BY <2>1, <2>2 DEF AdaptSet
  <2> QED BY <1>1, <2>2, <2>3, NoNewRoom
<1>4. CASE (\E r \in Requests : ExpireEntry(r)) \/ EvictIdleLanes
  <2>1. UNCHANGED <<config, adapt, shutDown>>
    BY <1>4 DEF ExpireEntry, EvictIdleLanes
  <2> QED BY <1>1, <2>1, NoNewRoom
<1>5. ASSUME NEW p \in Pressures, ObservePressure(p) PROVE ServesFirst
  <2> DEFINE a == SetPressure(adapt, p)
             half == adapt.limit \div 2
             limit == IF half < config.minLimit THEN config.minLimit ELSE half
  <2>1. a \in AdaptSet(config) /\ a.limit = adapt.limit
    BY <1>1, SetPressureFacts
  <2>2. limit \in Int /\ limit <= adapt.limit
    <3>1. adapt.limit \in config.minLimit..config.maxLimit /\ config.minLimit \in Nat \ {0}
      BY <1>1, LimitsAreNatural DEF AdaptSet
    <3>2. \A k \in Nat : k \div 2 \in Nat /\ k \div 2 <= k
      OBVIOUS
    <3>3. adapt.limit \in Nat /\ config.minLimit <= adapt.limit
      BY <3>1
    <3> QED BY <3>1, <3>2, <3>3
  <2>3. /\ UNCHANGED <<config, shutDown>>
        /\ \/ adapt' = a
           \/ adapt' = [a EXCEPT !.limit = limit, !.criticalConsumed = TRUE]
    BY <1>5 DEF ObservePressure
  <2> HIDE DEF a, limit
  <2>4. adapt'.limit \in Int /\ adapt'.limit <= adapt.limit
    <3>1. CASE adapt' = a
      BY <1>1, <2>1, <3>1
    <3>2. CASE adapt' = [a EXCEPT !.limit = limit, !.criticalConsumed = TRUE]
      <4>1. adapt'.limit = limit
        BY <2>1, <3>2 DEF AdaptSet
      <4> QED BY <2>2, <4>1
    <3> QED BY <2>3, <3>1, <3>2
  <2> QED BY <2>3, <2>4, NoNewRoom
<1>6. CASE Shutdown
  BY <1>6 DEF Shutdown, ServesFirst
<1> QED BY <1>2, <1>3, <1>4, <1>5, <1>6, TickServesFirst, UpdateServesFirst DEF Next

-----------------------------------------------------------------------------
(* The theorems.                                                            *)

\* The books of the admission controller are in order in every state: a
\* request waits in one place or holds a lease, the limit is within the
\* configured bounds, the round robin's cursor points at a bucket, no head is
\* passed over more than MaxSkips times, and activeCost is the cost of the
\* leases (queue.ts, and acquire, dispatch, expireEntry, releaseLease,
\* updateConfig and shutdown of controller.ts).
THEOREM TypeCorrect == Spec => []TypeOK
<1>1. IInv /\ [Next]_vars => IInv'
  BY NextOK
<1> QED BY <1>1, InitOK, InvariantTyped, PTL DEF Spec

\* Between two steps dispatch would find nothing to take from the shared
\* queue: whatever could free capacity, raise the limit or change the heads
\* dispatched before it returned (expireEntry's "so a now-fitting successor
\* is not stranded until unrelated activity").
THEOREM NoStrandedHead == Spec => []NoFittingHeadWaits
<1>1. IInv /\ [Next]_vars => IInv'
  BY NextOK
<1>2. IInv => NoFittingHeadWaits
  BY DEF IInv
<1> QED BY <1>1, <1>2, InitOK, PTL DEF Spec

\* A step that admits in mode enforce stays within the limit or admits one
\* request alone, within maxLimit, where nothing runs or waits and there is no
\* pressure, and no request younger than an aged head that still waits
\* is admitted before it, unless the configuration was replaced (dequeue's
\* reservation, dispatch, dispatchLanes, shouldAdmitSolo).
THEOREM BudgetKept == Spec => AdmissionsRespectBudget
<1>1. IInv /\ [Next]_vars => IInv'
  BY NextOK
<1>2. IInv /\ [Next]_vars => [Budget]_vars
  BY NextOK
<1>3. [Budget]_vars => [Admitted # {} /\ config'.mode = "enforce" =>
        /\ activeCost' <= adapt'.limit \/ InAlone
        /\ \/ \A h \in StillAged, r \in Admitted : Older(r, h)
           \/ \E c \in Configs : UpdateConfig(c)]_vars
  BY DEF Budget
<1> QED BY <1>1, <1>2, <1>3, InitOK, PTL DEF Spec, AdmissionsRespectBudget

\* A head that has reserved the capacity and waits on after a step is larger
\* than what was free under the step's limit: a new window's limit and a new
\* configuration are offered to it first (dequeue's reservation, tick, and the
\* order in which updateConfig drains and queues again).
THEOREM ReservationHonoured == Spec => ReservedHeadIsServedFirst
<1>1. IInv /\ [Next]_vars => IInv'
  BY NextOK
<1>2. IInv /\ [Next]_vars => [ServesFirst]_vars
  BY NextServesFirst
<1>3. [ServesFirst]_vars => [/\ config'.mode = "enforce" /\ ~shutDown' /\ Aged(queue) # {}
                           /\ ReservedHead \in Waiting(queue')
                           => CostOf[ReservedHead] > adapt'.limit - activeCost]_vars
  BY DEF ServesFirst
<1> QED BY <1>1, <1>2, <1>3, InitOK, PTL DEF Spec, ReservedHeadIsServedFirst
=============================================================================
