----------------------------- MODULE QueueFacts -----------------------------
(***************************************************************************)
(* Facts about queues that hold nobody twice, for the proofs of the        *)
(* components that keep one: the waiters of the gates, the chain of the    *)
(* supervisor's operation lock, the lane of a rotation group.  Then facts  *)
(* about loops and finite orders, for the admission controller.  They      *)
(* speak of sets and functions where one would expect operators, so that   *)
(* a prover can instantiate them.                                          *)
(***************************************************************************)
EXTENDS Integers, Sequences, FiniteSets, FunctionTheorems, FiniteSetTheorems,
        SequenceTheorems, WellFoundedInduction, TLAPS

Distinct(q) == \A i, j \in 1..Len(q) : q[i] = q[j] => i = j

Elements(q) == {q[i] : i \in 1..Len(q)}

\* The empty queue.
LEMMA EmptyQueueFacts ==
  ASSUME NEW S
  PROVE  << >> \in Seq(S) /\ Len(<< >>) = 0 /\ Distinct(<< >>) /\ Elements(<< >>) = {}
  BY DEF Distinct, Elements

\* A prefix of a queue has as many members as entries.
LEMMA PrefixFacts ==
  ASSUME NEW S, NEW q \in Seq(S), Distinct(q), NEW k \in 0..Len(q)
  PROVE  /\ {q[i] : i \in 1..k} \subseteq Elements(q)
         /\ IsFiniteSet({q[i] : i \in 1..k})
         /\ Cardinality({q[i] : i \in 1..k}) = k
<1> DEFINE T == {q[i] : i \in 1..k}
           f == [i \in 1..k |-> q[i]]
<1>1. k \in Nat /\ Len(q) \in Nat /\ k <= Len(q)
  BY LenProperties
<1>2. T \subseteq Elements(q)
  BY <1>1 DEF Elements
<1>3. f \in Bijection(1..k, T)
  <2>1. f \in [1..k -> T]
    OBVIOUS
  <2>2. \A i, j \in 1..k : f[i] = f[j] => i = j
    BY <1>1 DEF Distinct
  <2>3. \A t \in T : \E i \in 1..k : f[i] = t
    OBVIOUS
  <2>. QED
    BY <2>1, <2>2, <2>3, Zenon DEF Bijection, Injection, Surjection, IsInjective
<1>4. ExistsBijection(1..k, T)
  BY <1>3 DEF ExistsBijection
<1>. HIDE DEF T
<1>5. Cardinality(T) = k /\ IsFiniteSet(T)
  BY <1>1, <1>4, FS_CountingElements, FS_NatBijection
<1>. QED
  BY <1>2, <1>5 DEF T

\* A queue has as many members as entries, all of the right kind.
LEMMA ElementsFacts ==
  ASSUME NEW S, NEW q \in Seq(S)
  PROVE  /\ Len(q) \in Nat
         /\ Elements(q) \subseteq S
         /\ q = << >> <=> Len(q) = 0
         /\ q = << >> <=> Elements(q) = {}
         /\ Distinct(q) => IsFiniteSet(Elements(q)) /\ Cardinality(Elements(q)) = Len(q)
<1>1. Len(q) \in Nat /\ \A i \in 1..Len(q) : q[i] \in S
  BY ElementOfSeq
<1>2. Elements(q) \subseteq S
  BY <1>1 DEF Elements
<1>3. q = << >> <=> Len(q) = 0
  BY EmptySeq, <1>1
<1>4. q = << >> <=> Elements(q) = {}
  BY <1>1, <1>3 DEF Elements
<1>5. Distinct(q) => IsFiniteSet(Elements(q)) /\ Cardinality(Elements(q)) = Len(q)
  <2> SUFFICES ASSUME Distinct(q)
               PROVE  IsFiniteSet(Elements(q)) /\ Cardinality(Elements(q)) = Len(q)
    OBVIOUS
  <2>1. Len(q) \in 0..Len(q)
    BY <1>1
  <2>. QED
    BY <2>1, PrefixFacts DEF Elements
<1>. QED
  BY <1>1, <1>2, <1>3, <1>4, <1>5

\* A newcomer is put at the end.
LEMMA AppendFacts ==
  ASSUME NEW S, NEW q \in Seq(S), NEW x \in S
  PROVE  /\ Append(q, x) \in Seq(S)
         /\ Append(q, x) # << >>
         /\ Len(Append(q, x)) = Len(q) + 1
         /\ q # << >> => Head(Append(q, x)) = Head(q)
         /\ q = << >> => Head(Append(q, x)) = x
         /\ Elements(Append(q, x)) = Elements(q) \cup {x}
         /\ Distinct(q) /\ x \notin Elements(q) => Distinct(Append(q, x))
<1> DEFINE a == Append(q, x)
<1>1. /\ a \in Seq(S) /\ Len(a) = Len(q) + 1 /\ a[Len(a)] = x
      /\ \A i \in 1..Len(q) : a[i] = q[i]
      /\ Len(q) \in Nat
  OBVIOUS
<1>2. a # << >> /\ Head(a) = a[1]
  BY <1>1
<1>3. /\ q # << >> => Head(a) = Head(q)
      /\ q = << >> => Head(a) = x
  <2>1. q # << >> => Len(q) >= 1 /\ Head(q) = q[1]
    BY <1>1
  <2>. QED
    BY <1>1, <1>2, <2>1
<1> HIDE DEF a
<1>4. \A i \in 1..Len(a) : i \in 1..Len(q) \/ i = Len(a)
  BY <1>1
<1>5. \A i \in 1..Len(q) : i \in 1..Len(a)
  BY <1>1
<1>6. Len(a) \in 1..Len(a)
  BY <1>1
<1>7. Elements(a) = Elements(q) \cup {x}
  BY <1>1, <1>4, <1>5, <1>6 DEF Elements
<1>8. Distinct(q) /\ x \notin Elements(q) => Distinct(a)
  BY <1>1, <1>4 DEF Distinct, Elements
<1>. QED
  BY <1>1, <1>2, <1>3, <1>7, <1>8 DEF a

\* The first in the queue leaves.
LEMMA TailFacts ==
  ASSUME NEW S, NEW q \in Seq(S), q # << >>, Distinct(q)
  PROVE  /\ Head(q) \in Elements(q)
         /\ Tail(q) \in Seq(S)
         /\ Len(Tail(q)) = Len(q) - 1
         /\ Distinct(Tail(q))
         /\ Elements(Tail(q)) = Elements(q) \ {Head(q)}
<1> DEFINE t == Tail(q)
<1>1. /\ t \in Seq(S) /\ Len(t) = Len(q) - 1 /\ Len(q) \in Nat \ {0}
      /\ \A i \in 1..Len(t) : t[i] = q[i + 1]
      /\ Head(q) = q[1]
  OBVIOUS
<1> HIDE DEF t
<1>2. \A i \in 1..Len(t) : i + 1 \in 1..Len(q) /\ i + 1 # 1
  BY <1>1
<1>3. \A i \in 1..Len(q) : i # 1 => i - 1 \in 1..Len(t) /\ (i - 1) + 1 = i
  BY <1>1
<1>4. 1 \in 1..Len(q)
  BY <1>1
<1>5. Distinct(t)
  <2> SUFFICES ASSUME NEW i \in 1..Len(t), NEW j \in 1..Len(t), t[i] = t[j]
               PROVE  i = j
    BY DEF Distinct
  <2>1. i + 1 = j + 1
    BY <1>1, <1>2 DEF Distinct
  <2>. QED
    BY <1>1, <2>1
<1>6. ASSUME NEW x \in Elements(t)
      PROVE  x \in Elements(q) \ {Head(q)}
  <2>1. PICK i \in 1..Len(t) : x = q[i + 1]
    BY <1>1, <1>6 DEF Elements
  <2>. QED
    BY <1>1, <1>2, <1>4, <2>1 DEF Elements, Distinct
<1>7. ASSUME NEW x \in Elements(q) \ {Head(q)}
      PROVE  x \in Elements(t)
  <2>1. PICK i \in 1..Len(q) : x = q[i] /\ i # 1
    BY <1>1, <1>7 DEF Elements
  <2>2. i - 1 \in 1..Len(t) /\ t[i - 1] = x
    BY <1>1, <1>3, <2>1
  <2>. QED
    BY <2>2 DEF Elements
<1>. QED
  BY <1>1, <1>4, <1>5, <1>6, <1>7 DEF t, Elements

\* The first k leave: those behind them move up.
LEMMA DropFacts ==
  ASSUME NEW S, NEW q \in Seq(S), Distinct(q), NEW k \in 0..Len(q)
  PROVE  /\ SubSeq(q, k + 1, Len(q)) \in Seq(S)
         /\ Len(SubSeq(q, k + 1, Len(q))) = Len(q) - k
         /\ Distinct(SubSeq(q, k + 1, Len(q)))
         /\ Elements(SubSeq(q, k + 1, Len(q))) = Elements(q) \ {q[i] : i \in 1..k}
<1> DEFINE d == SubSeq(q, k + 1, Len(q))
           T == {q[i] : i \in 1..k}
<1>1. Len(q) \in Nat /\ k \in Nat /\ k <= Len(q)
  BY LenProperties
<1>2. /\ d \in Seq(S)
      /\ Len(d) = Len(q) - k
      /\ \A i \in 1..Len(d) : d[i] = q[i + k]
  <2>1. \A i \in (k + 1)..Len(q) : q[i] \in S
    BY <1>1, ElementOfSeq
  <2>2. /\ d \in Seq(S)
        /\ Len(d) = IF k + 1 <= Len(q) THEN Len(q) - (k + 1) + 1 ELSE 0
        /\ \A i \in 1..(Len(q) - (k + 1) + 1) : d[i] = q[(k + 1) + i - 1]
    BY <1>1, <2>1, SubSeqProperties
  <2> HIDE DEF d
  <2>3. Len(d) = Len(q) - k
    BY <1>1, <2>2
  <2>4. \A i \in 1..Len(d) : (k + 1) + i - 1 = i + k
    BY <1>1, <2>3
  <2>. QED
    BY <1>1, <2>2, <2>3, <2>4
<1> HIDE DEF d
<1>3. \A i \in 1..Len(d) : i + k \in 1..Len(q) /\ i + k \notin 1..k
  BY <1>1, <1>2
<1>4. \A i \in 1..Len(q) : i \notin 1..k => i - k \in 1..Len(d) /\ (i - k) + k = i
  BY <1>1, <1>2
<1>5. Distinct(d)
  <2> SUFFICES ASSUME NEW i \in 1..Len(d), NEW j \in 1..Len(d), d[i] = d[j]
               PROVE  i = j
    BY DEF Distinct
  <2>1. i + k = j + k
    BY <1>2, <1>3 DEF Distinct
  <2>. QED
    BY <1>1, <2>1
<1>6. ASSUME NEW x \in Elements(d)
      PROVE  x \in Elements(q) \ T
  <2>1. PICK i \in 1..Len(d) : x = q[i + k]
    BY <1>2, <1>6 DEF Elements
  <2>2. \A j \in 1..k : j \in 1..Len(q)
    BY <1>1
  <2>. QED
    BY <1>3, <2>1, <2>2 DEF Elements, Distinct
<1>7. ASSUME NEW x \in Elements(q) \ T
      PROVE  x \in Elements(d)
  <2>1. PICK i \in 1..Len(q) : x = q[i] /\ i \notin 1..k
    BY <1>7 DEF Elements
  <2>2. i - k \in 1..Len(d) /\ d[i - k] = x
    BY <1>2, <1>4, <2>1
  <2>. QED
    BY <2>2 DEF Elements
<1>. QED
  BY <1>2, <1>5, <1>6, <1>7 DEF d, T

\* Whoever stands at place k leaves.
LEMMA SpliceFacts ==
  ASSUME NEW S, NEW q \in Seq(S), Distinct(q), NEW k \in 1..Len(q), NEW w,
         w = [i \in 1..(Len(q) - 1) |-> IF i < k THEN q[i] ELSE q[i + 1]]
  PROVE  /\ w \in Seq(S)
         /\ Len(w) = Len(q) - 1
         /\ Distinct(w)
         /\ Elements(w) = Elements(q) \ {q[k]}
<1>1. Len(q) \in Nat /\ \A i \in 1..Len(q) : q[i] \in S
  BY ElementOfSeq
<1>2. w \in Seq(S) /\ Len(w) = Len(q) - 1
  <2>1. Len(q) - 1 \in Nat
    BY <1>1
  <2>2. \A i \in 1..(Len(q) - 1) : i \in 1..Len(q) /\ i + 1 \in 1..Len(q)
    BY <1>1
  <2>3. \A i \in 1..(Len(q) - 1) : (IF i < k THEN q[i] ELSE q[i + 1]) \in S
    BY <1>1, <2>2
  <2>. QED
    BY <2>1, <2>3
<1>3. \A i \in 1..Len(w) : w[i] = IF i < k THEN q[i] ELSE q[i + 1]
  BY <1>2
<1>4. Distinct(w)
  <2> SUFFICES ASSUME NEW i \in 1..Len(w), NEW j \in 1..Len(w), w[i] = w[j]
               PROVE  i = j
    BY DEF Distinct
  <2> DEFINE i2 == IF i < k THEN i ELSE i + 1
             j2 == IF j < k THEN j ELSE j + 1
  <2>1. i2 \in 1..Len(q) /\ j2 \in 1..Len(q)
    BY <1>1, <1>2
  <2>2. q[i2] = q[j2]
    BY <1>3
  <2>3. i2 = j2
    BY <2>1, <2>2 DEF Distinct
  <2>. QED
    BY <1>1, <1>2, <2>3
<1>5. ASSUME NEW x \in Elements(w)
      PROVE  x \in Elements(q) \ {q[k]}
  <2>1. PICK i \in 1..Len(w) : x = w[i]
    BY <1>5 DEF Elements
  <2> DEFINE i2 == IF i < k THEN i ELSE i + 1
  <2>2. i2 \in 1..Len(q) /\ i2 # k /\ x = q[i2]
    BY <1>1, <1>2, <1>3, <2>1
  <2>. QED
    BY <2>2 DEF Elements, Distinct
<1>6. ASSUME NEW x \in Elements(q) \ {q[k]}
      PROVE  x \in Elements(w)
  <2>1. PICK i \in 1..Len(q) : x = q[i] /\ i # k
    BY <1>6 DEF Elements
  <2> DEFINE i2 == IF i < k THEN i ELSE i - 1
  <2>2. i2 \in 1..Len(w) /\ (IF i2 < k THEN i2 ELSE i2 + 1) = i
    BY <1>1, <1>2, <2>1
  <2>3. w[i2] = x
    BY <1>3, <2>1, <2>2
  <2>. QED
    BY <2>2, <2>3 DEF Elements
<1>. QED
  BY <1>2, <1>4, <1>5, <1>6

-----------------------------------------------------------------------------
\* A set of natural numbers that is not empty has a least member.
LEMMA LeastOf ==
  ASSUME NEW S \in SUBSET Nat, S # {}
  PROVE  \E x \in S : \A y \in S : x <= y
<1>1. PICK x \in S : \A y \in S : ~(<<y, x>> \in OpToRel(<, Nat))
  BY WFMin, NatLessThanWellFounded
<1>2. x \in Nat
  OBVIOUS
<1>3. \A y \in S : ~(y < x)
  BY <1>1, <1>2 DEF OpToRel
<1>4. \A y \in S : x <= y
  BY <1>2, <1>3
<1> QED BY <1>4

\* What holds before the first turn of a loop of N turns and is kept by every
\* turn holds after each of them.
LEMMA LoopInduction ==
  ASSUME NEW N \in Nat, NEW S, 0 \in S, \A n \in 1..N : n - 1 \in S => n \in S
  PROVE  \A n \in 0..N : n \in S
<1> DEFINE T == (0..N) \ S
<1> SUFFICES ASSUME T # {} PROVE FALSE
  OBVIOUS
<1>1. PICK x \in T : \A y \in T : x <= y
  <2>1. T \in SUBSET Nat
    OBVIOUS
  <2> HIDE DEF T
  <2> QED BY <2>1, LeastOf
<1>2. x \in Nat /\ x \in 1..N /\ x - 1 \in Nat /\ x - 1 \in 0..N
  OBVIOUS
<1>3. x - 1 \notin T
  BY <1>1, <1>2
<1> QED BY <1>2, <1>3

\* f is the run of a loop that starts with x and whose turn n applies step[n].
RunsFrom(f, N, V, x, step) ==
  /\ f \in [0..N -> V]
  /\ f[0] = x
  /\ \A n \in 1..N : f[n] = step[n][f[n - 1]]

\* A loop has a run.
LEMMA LoopRuns ==
  ASSUME NEW N \in Nat, NEW V, NEW x \in V, NEW step \in [1..N -> [V -> V]]
  PROVE  \E f : RunsFrom(f, N, V, x, step)
<1> DEFINE S == {m \in 0..N : \E f : RunsFrom(f, m, V, x, step)}
<1>1. 0 \in S
  <2>1. RunsFrom([i \in 0..0 |-> x], 0, V, x, step)
    BY DEF RunsFrom
  <2> QED BY <2>1
<1>2. ASSUME NEW n \in 1..N, n - 1 \in S PROVE n \in S
  <2>1. PICK f : RunsFrom(f, n - 1, V, x, step)
    BY <1>2
  <2> DEFINE g == [i \in 0..n |-> IF i = n THEN step[n][f[n - 1]] ELSE f[i]]
  <2>2. f \in [0..(n - 1) -> V] /\ f[n - 1] \in V
    BY <2>1 DEF RunsFrom
  <2>3. g \in [0..n -> V] /\ g[0] = x
    BY <2>1, <2>2 DEF RunsFrom
  <2>4. ASSUME NEW k \in 1..n PROVE g[k] = step[k][g[k - 1]]
    <3>1. k - 1 \in 0..n /\ k \in 0..n /\ k - 1 # n
      OBVIOUS
    <3>2. g[k - 1] = f[k - 1]
      BY <3>1
    <3>3. CASE k = n
      BY <3>2, <3>3
    <3>4. CASE k # n
      <4>1. k \in 1..(n - 1)
        BY <3>4
      <4> QED BY <2>1, <3>1, <3>2, <3>4, <4>1 DEF RunsFrom
    <3> QED BY <3>3, <3>4
  <2>5. RunsFrom(g, n, V, x, step)
    BY <2>3, <2>4 DEF RunsFrom
  <2> QED BY <2>5
<1>3. N \in S
  <2>1. \A n \in 1..N : n - 1 \in S => n \in S
    BY <1>2
  <2> HIDE DEF S
  <2>2. \A n \in 0..N : n \in S
    BY <1>1, <2>1, LoopInduction
  <2> QED BY <2>2
<1> QED BY <1>3

\* R orders the pairs of H strictly.
StrictOn(R, H) ==
  /\ \A x \in H : <<x, x>> \notin R
  /\ \A x, y, z \in H : <<x, y>> \in R /\ <<y, z>> \in R => <<x, z>> \in R

\* A finite set that is strictly ordered and not empty has a first member.
LEMMA FirstOf ==
  ASSUME NEW R, NEW H, IsFiniteSet(H), H # {}, StrictOn(R, H)
  PROVE  \E x \in H : \A y \in H : <<y, x>> \notin R
<1> DEFINE Below(x) == {y \in H : <<y, x>> \in R}
           Sizes == {Cardinality(Below(x)) : x \in H}
<1>1. \A x \in H : IsFiniteSet(Below(x)) /\ Cardinality(Below(x)) \in Nat
  BY FS_Subset, FS_CardinalityType
<1>2. Sizes \in SUBSET Nat /\ Sizes # {}
  BY <1>1
<1>3. PICK m \in Sizes : \A k \in Sizes : m <= k
  <2> HIDE DEF Sizes
  <2> QED BY <1>2, LeastOf
<1>4. PICK x \in H : m = Cardinality(Below(x))
  OBVIOUS
<1>5. SUFFICES ASSUME NEW y \in H, <<y, x>> \in R PROVE FALSE
  BY <1>4
<1>6. Below(y) \subseteq Below(x) /\ y \in Below(x) /\ y \notin Below(y)
  BY <1>5 DEF StrictOn
<1>7. Cardinality(Below(y)) <= Cardinality(Below(x)) /\ Cardinality(Below(y)) # Cardinality(Below(x))
  <2> HIDE DEF Below
  <2> QED BY <1>1, <1>6, FS_Subset
<1>8. Cardinality(Below(x)) <= Cardinality(Below(y))
  BY <1>3, <1>4
<1>9. Cardinality(Below(x)) \in Nat /\ Cardinality(Below(y)) \in Nat
  BY <1>1
<1> HIDE DEF Below
<1> QED BY <1>7, <1>8, <1>9
=============================================================================
