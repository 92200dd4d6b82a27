------------------------ MODULE BatchProcessorProofs ------------------------
(***************************************************************************)
(* Proofs about BatchProcessor, for any batches, files, pool size, ceiling *)
(* of retries and number of crashes.                                       *)
(*                                                                         *)
(* A batch is sound by its own row, checkpoints, loop and history; no      *)
(* other batch comes in but through the size of the pool.  What ties the   *)
(* runs of the process together is in the database: an item that was sent  *)
(* has a checkpoint that the next loop takes for done, unless the batch is *)
(* deleted and no loop will start.  What a loop has counted is what the    *)
(* checkpoints behind it say.                                              *)
(***************************************************************************)
EXTENDS BatchProcessor, FiniteSetTheorems, TLAPS

Cancelled == {"deleted", "cancelling", "cancelled"}

\* CompletedIsWhole for a row r, checkpoints k and n lines.
Whole(r, k, n) ==
    /\ r.total = n
    /\ r.completed = Cardinality({i \in Item : k[i] \in {"ok"}})
    /\ r.failed = Cardinality({i \in Item : k[i] \in {"bad", "errored"}})
    /\ r.completed + r.failed = r.total
    /\ r.output = (r.completed > 0)
    /\ r.errors = (r.failed > 0)

\* Item i is still before loop l.
Ahead(l, i) == i > l.item \/ (i = l.item /\ l.pc \in {"top", "throttled"})

Position(n, l) ==
    /\ l.item <= n + 1
    /\ l.pc \in {"throttled", "waiting", "backoff"} => l.item <= n
    /\ l.pc \in {"counting", "completing"} => l.item = n + 1
    /\ l.completed + l.failed = l.item - 1
    /\ l.pc = "backoff" => l.attempt < MaxRetries

Owned(r, l) ==
    /\ l.pc \in {"counting", "completing"} => r.status = "finalizing"
    /\ l.pc \notin {"counting", "completing"} => r.status \in {"in_progress"} \cup Cancelled

\* What loop l may still send was not sent before; s counts the sends.
Unsent(l, s) ==
    /\ \A i \in Item : Ahead(l, i) /\ ~Recoverable(l.seen[i]) => s[i] = 0
    /\ l.pc = "throttled" => ~Recoverable(l.seen[l.item])
    /\ l.pc = "waiting" => s[l.item] = 1
    /\ l.pc = "backoff" => s[l.item] = 0

\* The loop's counts are those of the checkpoints behind it.
Counted(r, k, n, l) ==
    /\ r.total = n
    /\ \A i \in Item : i < l.item => k[i] \in {"ok", "bad", "errored"}
    /\ \A i \in Item : i <= n => k[i] # "absent"
    /\ \A i \in Item : Ahead(l, i) => k[i] = l.seen[i]
    /\ l.completed = Cardinality({i \in Item : i < l.item /\ k[i] \in {"ok"}})
    /\ l.failed = Cardinality({i \in Item : i < l.item /\ k[i] \in {"bad", "errored"}})
    /\ l.pc \in {"waiting", "backoff"} => k[l.item] = "processing"
    /\ l.pc = "completing" => r.completed = l.completed /\ r.failed = l.failed

Running(r, k, n, l, s) ==
    /\ Position(n, l)
    /\ Owned(r, l)
    /\ Unsent(l, s)
    /\ r.status # "deleted" => Counted(r, k, n, l)

\* A batch with row r, checkpoints k, n lines, loop l, sends s and t late sends.
Sound(r, k, n, l, s, t) ==
    /\ \A i \in Item : k[i] # "absent" => i <= n
    /\ r.status = "unborn" => l.pc = "none" /\ \A i \in Item : k[i] = "absent"
    /\ \A i \in Item : s[i] <= 1
    /\ \A i \in Item : s[i] # 0 => r.status = "deleted" \/ Recoverable(k[i])
    /\ t <= 1
    /\ t # 0 => r.status \in Cancelled /\ l.pc # "throttled"
    /\ r.status = "completed" => l.pc = "none" /\ Whole(r, k, n)
    /\ l.pc # "none" => Running(r, k, n, l, s)

PoolOK ==
    /\ active = {b \in Batch : loop[b].pc # "none"}
    /\ Cardinality(active) <= MaxConcurrent

BatchesOK ==
    \A b \in Batch : Sound(row[b], ckpt[b], lines[b], loop[b], sends[b], late[b])

IInv == TypeOK /\ PoolOK /\ BatchesOK

-----------------------------------------------------------------------------
(* One batch at a time.                                                    *)

\* Nothing but batch b changes in the database, the loops and the history.
Only(b) ==
    /\ row' = [row EXCEPT ![b] = row'[b]] /\ ckpt' = [ckpt EXCEPT ![b] = ckpt'[b]]
    /\ lines' = [lines EXCEPT ![b] = lines'[b]] /\ loop' = [loop EXCEPT ![b] = loop'[b]]
    /\ sends' = [sends EXCEPT ![b] = sends'[b]] /\ late' = [late EXCEPT ![b] = late'[b]]
    /\ input' \in [Batch -> {"valid", "invalid", "missing"}] /\ age' \in [Batch -> 0..2]
    /\ cached' \in BOOLEAN /\ crashes' = crashes
    /\ \/ loop'[b].pc = "none" /\ active' = active \ {b}
       \/ loop'[b].pc # "none" /\ loop[b].pc # "none" /\ active' = active
       \/ loop'[b].pc = "none" /\ loop[b].pc = "none" /\ active' = active

\* What batch b is after the step.
Typed(b) ==
    /\ row'[b] \in Row /\ ckpt'[b] \in [Item -> Checkpoint] /\ lines'[b] \in 0..MaxItems
    /\ loop'[b] \in Loop /\ sends'[b] \in [Item -> Nat] /\ late'[b] \in Nat

\* A step of batch b alone that leaves it sound keeps the invariant.
LEMMA OneBatchStep ==
  ASSUME IInv, NEW b \in Batch, Only(b), Typed(b),
         Sound(row'[b], ckpt'[b], lines'[b], loop'[b], sends'[b], late'[b])
  PROVE  IInv'
<1>1. /\ row \in [Batch -> Row] /\ ckpt \in [Batch -> [Item -> Checkpoint]]
      /\ lines \in [Batch -> 0..MaxItems] /\ active \subseteq Batch
      /\ loop \in [Batch -> Loop] /\ crashes \in 0..MaxCrashes
      /\ sends \in [Batch -> [Item -> Nat]] /\ late \in [Batch -> Nat]
  BY DEF IInv, TypeOK
<1>2. \A c \in Batch : c # b => /\ row'[c] = row[c] /\ ckpt'[c] = ckpt[c]
                                /\ lines'[c] = lines[c] /\ loop'[c] = loop[c]
                                /\ sends'[c] = sends[c] /\ late'[c] = late[c]
  BY <1>1 DEF Only
<1>3. /\ row' \in [Batch -> Row] /\ ckpt' \in [Batch -> [Item -> Checkpoint]]
      /\ lines' \in [Batch -> 0..MaxItems] /\ loop' \in [Batch -> Loop]
      /\ sends' \in [Batch -> [Item -> Nat]] /\ late' \in [Batch -> Nat]
  BY <1>1 DEF Only, Typed
<1>4. active' \subseteq active /\ active' = {c \in Batch : loop'[c].pc # "none"}
  <2>1. active = {c \in Batch : loop[c].pc # "none"}
    BY DEF IInv, PoolOK
  <2>2. \/ loop'[b].pc = "none" /\ active' = active \ {b}
        \/ loop'[b].pc # "none" /\ loop[b].pc # "none" /\ active' = active
        \/ loop'[b].pc = "none" /\ loop[b].pc = "none" /\ active' = active
    BY DEF Only
  <2>3. \A c \in Batch : c # b => loop'[c].pc = loop[c].pc
    BY <1>2
  <2>. QED
    BY <2>1, <2>2, <2>3
<1>5. Cardinality(active') <= MaxConcurrent
  <2>1. IsFiniteSet(active) /\ Cardinality(active) \in Nat
    BY <1>1, BatchAssumption, FS_Subset, FS_CardinalityType
  <2>2. Cardinality(active') \in Nat /\ Cardinality(active') <= Cardinality(active)
    BY <1>4, <2>1, FS_Subset, FS_CardinalityType
  <2>3. Cardinality(active) <= MaxConcurrent /\ MaxConcurrent \in Nat
    BY BatchAssumption DEF IInv, PoolOK
  <2>. QED
    BY <2>1, <2>2, <2>3
<1>6. TypeOK'
  BY <1>1, <1>3, <1>4 DEF TypeOK, Only
<1>7. BatchesOK'
  BY <1>2 DEF IInv, BatchesOK
<1>. QED
  BY <1>4, <1>5, <1>6, <1>7 DEF IInv, PoolOK

\* The values of one batch.
LEMMA BatchFacts ==
  ASSUME IInv, NEW b \in Batch
  PROVE  /\ row[b] \in Row /\ ckpt[b] \in [Item -> Checkpoint] /\ lines[b] \in 0..MaxItems
         /\ loop[b] \in Loop /\ sends[b] \in [Item -> Nat] /\ late[b] \in Nat
         /\ row \in [Batch -> Row] /\ ckpt \in [Batch -> [Item -> Checkpoint]]
         /\ lines \in [Batch -> 0..MaxItems] /\ loop \in [Batch -> Loop]
         /\ sends \in [Batch -> [Item -> Nat]] /\ late \in [Batch -> Nat]
         /\ input \in [Batch -> {"valid", "invalid", "missing"}]
         /\ age \in [Batch -> 0..2] /\ cached \in BOOLEAN /\ crashes \in 0..MaxCrashes
         /\ row = [row EXCEPT ![b] = row[b]] /\ ckpt = [ckpt EXCEPT ![b] = ckpt[b]]
         /\ lines = [lines EXCEPT ![b] = lines[b]] /\ loop = [loop EXCEPT ![b] = loop[b]]
         /\ sends = [sends EXCEPT ![b] = sends[b]] /\ late = [late EXCEPT ![b] = late[b]]
         /\ Sound(row[b], ckpt[b], lines[b], loop[b], sends[b], late[b])
         /\ MaxItems \in Nat /\ MaxRetries \in Nat \ {0}
  BY BatchAssumption DEF IInv, TypeOK, BatchesOK
-----------------------------------------------------------------------------
(* The loop is done with an item.                                          *)

\* One more checkpoint lies behind the loop.
LEMMA CountNext ==
  ASSUME MaxItems \in Nat, NEW k, NEW K, NEW m \in Item, NEW C,
         \A i \in Item : i # m => K[i] = k[i]
  PROVE  /\ Cardinality({i \in Item : i < m /\ k[i] \in C}) \in Nat
         /\ Cardinality({i \in Item : i < m + 1 /\ K[i] \in C}) =
               Cardinality({i \in Item : i < m /\ k[i] \in C}) + (IF K[m] \in C THEN 1 ELSE 0)
<1> DEFINE A == {i \in Item : i < m /\ k[i] \in C}
           B == {i \in Item : i < m + 1 /\ K[i] \in C}
<1>1. IsFiniteSet(Item) /\ A \in SUBSET Item
  BY FS_Interval DEF Item
<1>2. IsFiniteSet(A) /\ Cardinality(A) \in Nat
  BY <1>1, FS_Subset, FS_CardinalityType
<1>3. m \notin A
  BY DEF Item
<1>4. \A i \in Item : i < m + 1 <=> (i < m \/ i = m)
  BY DEF Item
<1>5. B = IF K[m] \in C THEN A \cup {m} ELSE A
  <2>1. \A i \in Item : i < m => i # m
    BY DEF Item
  <2>. QED
    BY <1>4, <2>1
<1> HIDE DEF A, B
<1>6. Cardinality(A \cup {m}) = Cardinality(A) + 1
  BY <1>2, <1>3, FS_AddElement
<1>7. Cardinality(B) = Cardinality(A) + (IF K[m] \in C THEN 1 ELSE 0)
  BY <1>2, <1>5, <1>6
<1>. QED
  BY <1>2, <1>7 DEF A, B

\* An item was settled: by an answer, an error or an earlier run's checkpoint.
LEMMA ItemDoneSound ==
  ASSUME IInv, NEW b \in Batch, NEW good \in BOOLEAN, ItemDone(b, good),
         loop[b].pc \in {"top", "waiting"}, loop[b].item <= lines[b],
         NEW K \in [Item -> Checkpoint],
         \A i \in Item : i # loop[b].item => K[i] = ckpt[b][i],
         K[loop[b].item] = ckpt[b][loop[b].item] \/ Recoverable(K[loop[b].item]),
         ckpt[b][loop[b].item] = "absent" => K[loop[b].item] = "absent",
         row[b].status # "deleted" =>
            K[loop[b].item] \in (IF good THEN {"ok"} ELSE {"bad", "errored"})
  PROVE  /\ loop' = [loop EXCEPT ![b] = loop'[b]] /\ row' = [row EXCEPT ![b] = row'[b]]
         /\ loop'[b] \in Loop /\ row'[b] \in Row /\ loop'[b].pc = "top"
         /\ Sound(row'[b], K, lines[b], loop'[b], sends[b], late[b])
<1> DEFINE r == row[b]
           k == ckpt[b]
           n == lines[b]
           l == loop[b]
           s == sends[b]
           t == late[b]
           L == loop'[b]
           R == row'[b]
<1>a. /\ r \in Row /\ k \in [Item -> Checkpoint] /\ n \in 0..MaxItems /\ l \in Loop
      /\ s \in [Item -> Nat] /\ t \in Nat /\ Sound(r, k, n, l, s, t)
      /\ MaxItems \in Nat
  BY BatchFacts
<1>b. row \in [Batch -> Row] /\ loop \in [Batch -> Loop]
  BY DEF IInv, TypeOK
<1>c. /\ L = [l EXCEPT !.pc = "top", !.item = @ + 1, !.attempt = 0,
                       !.completed = IF good THEN @ + 1 ELSE @,
                       !.failed = IF good THEN @ ELSE @ + 1]
      /\ loop' = [loop EXCEPT ![b] = L]
  BY <1>b DEF ItemDone
<1>d. row' = IF Exists(b)
             THEN [row EXCEPT ![b].completed = L.completed, ![b].failed = L.failed] ELSE row
  <2> DEFINE l2 == [l EXCEPT !.pc = "top", !.item = @ + 1, !.attempt = 0,
                             !.completed = IF good THEN @ + 1 ELSE @,
                             !.failed = IF good THEN @ ELSE @ + 1]
  <2>1. L = l2
    BY <1>c
  <2>2. row' = IF Exists(b)
               THEN [row EXCEPT ![b].completed = l2.completed, ![b].failed = l2.failed] ELSE row
    BY DEF ItemDone
  <2> HIDE DEF l2, L
  <2>. QED
    BY <2>1, <2>2
<1> HIDE DEF L
<1>e. /\ row' = [row EXCEPT ![b] = R]
      /\ R \in {r, [r EXCEPT !.completed = L.completed, !.failed = L.failed]}
  BY <1>b, <1>d
<1>f. /\ l.pc \in {"top", "waiting"} /\ l.item <= n
      /\ \A i \in Item : i # l.item => K[i] = k[i]
      /\ K[l.item] = k[l.item] \/ Recoverable(K[l.item])
      /\ k[l.item] = "absent" => K[l.item] = "absent"
      /\ r.status # "deleted" => K[l.item] \in (IF good THEN {"ok"} ELSE {"bad", "errored"})
  OBVIOUS
<1> HIDE DEF r, k, n, l, s, t, R
<1>g. l.item \in Item
  BY <1>a, <1>f DEF Loop, Item
<1>h. \A C : Cardinality({i \in Item : i < l.item + 1 /\ K[i] \in C}) =
                Cardinality({i \in Item : i < l.item /\ k[i] \in C})
                   + (IF K[l.item] \in C THEN 1 ELSE 0)
  <2>1. MaxItems \in Nat /\ \A i \in Item : i # l.item => K[i] = k[i]
    BY <1>a, <1>f
  <2> TAKE C
  <2>. QED
    BY <1>g, <2>1, CountNext
<1> USE <1>a, <1>c, <1>e, <1>f
<1>1. /\ l.item \in Item /\ l.completed \in 0..MaxItems /\ l.failed \in 0..MaxItems
      /\ l.item \in 1..(MaxItems + 1) /\ l.attempt \in Nat
  BY DEF Loop, Item
<1>2. Running(r, k, n, l, s)
  BY DEF Sound
<1>3. /\ l.completed + l.failed = l.item - 1
      /\ l.item <= MaxItems
  BY <1>1, <1>2 DEF Running, Position
<1>4. /\ L.pc = "top" /\ L.item = l.item + 1 /\ L.attempt = 0 /\ L.seen = l.seen
      /\ L.completed = IF good THEN l.completed + 1 ELSE l.completed
      /\ L.failed = IF good THEN l.failed ELSE l.failed + 1
  BY DEF Loop
<1>5. /\ L.item \in 1..(MaxItems + 1) /\ L.completed \in 0..MaxItems /\ L.failed \in 0..MaxItems
      /\ L.completed + L.failed = L.item - 1
  BY <1>1, <1>3, <1>4
<1>6. L \in Loop
  <2>1. l.item + 1 \in 1..(MaxItems + 1) /\ 0 \in 0..MaxRetries
    BY <1>4, <1>5, BatchAssumption
  <2>2. (IF good THEN l.completed + 1 ELSE l.completed) \in 0..MaxItems
    BY <1>4, <1>5
  <2>3. (IF good THEN l.failed ELSE l.failed + 1) \in 0..MaxItems
    BY <1>4, <1>5
  <2>. QED
    BY <2>1, <2>2, <2>3 DEF Loop
<1>7. R \in Row /\ R.status = r.status /\ R.total = r.total
  BY <1>5 DEF Row
<1>8. r.status \in {"in_progress"} \cup Cancelled
  BY <1>2 DEF Running, Owned
<1>9. \A i \in Item : Ahead(L, i) => i > l.item /\ i # l.item /\ Ahead(l, i)
  BY <1>1, <1>4 DEF Ahead, Item
<1>10. Position(n, L)
  BY <1>1, <1>4, <1>5 DEF Position
<1>11. Owned(R, L)
  BY <1>4, <1>7, <1>8 DEF Owned
<1>12. Unsent(L, s)
  BY <1>2, <1>4, <1>9 DEF Unsent, Running
<1>13. ASSUME r.status # "deleted"
       PROVE  Counted(R, K, n, L)
  <2>1. Counted(r, k, n, l)
    BY <1>2, <1>13 DEF Running
  <2>2. K[l.item] \in (IF good THEN {"ok"} ELSE {"bad", "errored"})
    BY <1>13
  <2>3. L.completed = Cardinality({i \in Item : i < L.item /\ K[i] \in {"ok"}})
    <3> DEFINE C == {"ok"}
    <3>1. l.completed = Cardinality({i \in Item : i < l.item /\ k[i] \in C})
      BY <2>1 DEF Counted
    <3>2. L.completed = IF K[l.item] \in C THEN l.completed + 1 ELSE l.completed
      BY <1>4, <2>2
    <3> HIDE DEF C
    <3>3. Cardinality({i \in Item : i < l.item + 1 /\ K[i] \in C}) =
             Cardinality({i \in Item : i < l.item /\ k[i] \in C})
                + (IF K[l.item] \in C THEN 1 ELSE 0)
      BY <1>h
    <3>4. L.completed = Cardinality({i \in Item : i < L.item /\ K[i] \in C})
      BY <1>1, <1>4, <3>1, <3>2, <3>3
    <3>. QED
      BY <3>4 DEF C
  <2>4. L.failed = Cardinality({i \in Item : i < L.item /\ K[i] \in {"bad", "errored"}})
    <3> DEFINE C == {"bad", "errored"}
    <3>1. l.failed = Cardinality({i \in Item : i < l.item /\ k[i] \in C})
      BY <2>1 DEF Counted
    <3>2. L.failed = IF K[l.item] \in C THEN l.failed + 1 ELSE l.failed
      BY <1>4, <2>2
    <3> HIDE DEF C
    <3>3. Cardinality({i \in Item : i < l.item + 1 /\ K[i] \in C}) =
             Cardinality({i \in Item : i < l.item /\ k[i] \in C})
                + (IF K[l.item] \in C THEN 1 ELSE 0)
      BY <1>h
    <3>4. L.failed = Cardinality({i \in Item : i < L.item /\ K[i] \in C})
      BY <1>1, <1>4, <3>1, <3>2, <3>3
    <3>. QED
      BY <3>4 DEF C
  <2>5. \A i \in Item : i < L.item => i < l.item \/ i = l.item
    BY <1>1, <1>4 DEF Item
  <2>6. \A i \in Item : i < L.item => K[i] \in {"ok", "bad", "errored"}
    BY <2>1, <2>2, <2>5 DEF Counted
  <2>7. \A i \in Item : i <= n => K[i] # "absent"
    BY <2>1, <2>2 DEF Counted
  <2>8. \A i \in Item : Ahead(L, i) => K[i] = L.seen[i]
    <3>1. \A i \in Item : Ahead(l, i) => k[i] = l.seen[i]
      BY <2>1 DEF Counted
    <3>. QED
      BY <1>4, <1>9, <1>f, <3>1, Zenon
  <2>9. R.total = n
    BY <1>7, <2>1 DEF Counted
  <2>. QED
    BY <1>4, <2>3, <2>4, <2>6, <2>7, <2>8, <2>9 DEF Counted
<1>14. Running(R, K, n, L, s)
  BY <1>7, <1>10, <1>11, <1>12, <1>13 DEF Running
<1>15. /\ \A i \in Item : K[i] # "absent" => i <= n
       /\ \A i \in Item : s[i] <= 1
       /\ \A i \in Item : s[i] # 0 => R.status = "deleted" \/ Recoverable(K[i])
       /\ t <= 1
       /\ t # 0 => R.status \in Cancelled
       /\ R.status # "unborn" /\ R.status # "completed"
  BY <1>1, <1>7, <1>8 DEF Sound, Cancelled
<1>16. Sound(R, K, n, L, s, t)
  BY <1>4, <1>14, <1>15 DEF Sound
<1>. QED
  BY <1>4, <1>6, <1>7, <1>16 DEF L, R, n, s, t

-----------------------------------------------------------------------------
(* Steps of a loop.                                                        *)

\* The three ways an item is settled.
LEMMA SettleStep ==
  ASSUME IInv, NEW b \in Batch,
         \/ ApplyRecoveredCheckpoint(b)
         \/ \E c \in {"ok", "bad"} : ItemAnswered(b, c)
         \/ ItemFails(b)
  PROVE  IInv'
<1> DEFINE r == row[b]
           k == ckpt[b]
           l == loop[b]
           n == lines[b]
           m == l.item
<1>1. /\ r \in Row /\ k \in [Item -> Checkpoint] /\ n \in 0..MaxItems
      /\ l \in Loop /\ Sound(r, k, n, l, sends[b], late[b]) /\ MaxItems \in Nat
      /\ sends[b] \in [Item -> Nat] /\ late[b] \in Nat
      /\ row \in [Batch -> Row] /\ loop \in [Batch -> Loop]
      /\ ckpt \in [Batch -> [Item -> Checkpoint]]
  BY BatchFacts DEF IInv, TypeOK
<1>2. l.pc \in {"top", "waiting"} /\ m <= n
  BY <1>1 DEF ApplyRecoveredCheckpoint, ItemAnswered, ItemFails, AtItem,
              Sound, Running, Position
<1>3. m \in Item /\ Running(r, k, n, l, sends[b])
  BY <1>1, <1>2 DEF Loop, Item, Sound
\* The checkpoint the item is left with, and how it counts.
<1>4. PICK K \in [Item -> Checkpoint], good \in BOOLEAN :
         /\ ckpt' = [ckpt EXCEPT ![b] = K]
         /\ ItemDone(b, good)
         /\ \A i \in Item : i # m => K[i] = k[i]
         /\ K[m] = k[m] \/ Recoverable(K[m])
         /\ k[m] = "absent" => K[m] = "absent"
         /\ r.status # "deleted" => K[m] \in (IF good THEN {"ok"} ELSE {"bad", "errored"})
  <2>1. r.status # "deleted" => k[m] # "absent"
    BY <1>2, <1>3 DEF Running, Counted
  <2>2. ASSUME NEW c \in {"ok", "bad", "errored"}, MarkItem(b, c), ItemDone(b, c = "ok")
        PROVE  \E K \in [Item -> Checkpoint], good \in BOOLEAN :
                 /\ ckpt' = [ckpt EXCEPT ![b] = K]
                 /\ ItemDone(b, good)
                 /\ \A i \in Item : i # m => K[i] = k[i]
                 /\ K[m] = k[m] \/ Recoverable(K[m])
                 /\ k[m] = "absent" => K[m] = "absent"
                 /\ r.status # "deleted" =>
                       K[m] \in (IF good THEN {"ok"} ELSE {"bad", "errored"})
    <3> DEFINE K == IF k[m] = "absent" THEN k ELSE [k EXCEPT ![m] = c]
               good == c = "ok"
    <3>1. K \in [Item -> Checkpoint]
      BY <1>1, <1>3 DEF Checkpoint
    <3>2. ckpt' = [ckpt EXCEPT ![b] = K]
      BY <1>1, <2>2 DEF MarkItem
    <3>3. /\ \A i \in Item : i # m => K[i] = k[i]
          /\ K[m] = IF k[m] = "absent" THEN k[m] ELSE c
      BY <1>1, <1>3
    <3>4. Recoverable(c)
      BY DEF Recoverable
    <3>5. ItemDone(b, good) /\ good \in BOOLEAN
      BY <2>2
    <3>6. /\ K[m] = k[m] \/ Recoverable(K[m])
          /\ k[m] = "absent" => K[m] = "absent"
          /\ r.status # "deleted" => K[m] \in (IF good THEN {"ok"} ELSE {"bad", "errored"})
      BY <2>1, <3>3, <3>4
    <3> HIDE DEF K, good
    <3>. QED
      BY <3>1, <3>2, <3>3, <3>5, <3>6
  <2>3. CASE \E c \in {"ok", "bad"} : ItemAnswered(b, c)
    BY <2>2, <2>3 DEF ItemAnswered
  <2>4. CASE ItemFails(b)
    <3>1. MarkItem(b, "errored") /\ ItemDone(b, "errored" = "ok")
      BY <2>4 DEF ItemFails
    <3>. QED
      BY <2>2, <3>1
  <2>5. CASE ApplyRecoveredCheckpoint(b)
    <3> DEFINE c == l.seen[m]
    <3>1. CASE c = "processing"
      <4>1. MarkItem(b, "errored") /\ ItemDone(b, "errored" = "ok")
        BY <2>5, <3>1 DEF ApplyRecoveredCheckpoint
      <4>. QED
        BY <2>2, <4>1
    <3>2. CASE c # "processing"
      <4>1. ckpt' = ckpt /\ ItemDone(b, c = "ok") /\ c \in {"ok", "bad", "errored"}
        BY <2>5, <3>2 DEF ApplyRecoveredCheckpoint, Recoverable
      <4>2. r.status # "deleted" /\ l.pc = "top"
        BY <2>5 DEF ApplyRecoveredCheckpoint, IsBatchCancelled, AtItem
      <4>3. k[m] = c
        BY <1>3, <4>2 DEF Running, Counted, Ahead
      <4>4. ckpt' = [ckpt EXCEPT ![b] = k]
        BY <1>1, <4>1
      <4> DEFINE good == c = "ok"
      <4>5. ItemDone(b, good) /\ good \in BOOLEAN
        BY <4>1
      <4>6. k[m] \in (IF good THEN {"ok"} ELSE {"bad", "errored"})
        BY <4>1, <4>3
      <4> HIDE DEF good
      <4>. QED
        BY <1>1, <4>4, <4>5, <4>6
    <3>. QED
      BY <3>1, <3>2
  <2>. QED
    BY <2>3, <2>4, <2>5
<1>5. /\ loop' = [loop EXCEPT ![b] = loop'[b]] /\ row' = [row EXCEPT ![b] = row'[b]]
      /\ loop'[b] \in Loop /\ row'[b] \in Row /\ loop'[b].pc = "top"
      /\ Sound(row'[b], K, n, loop'[b], sends[b], late[b])
  BY <1>2, <1>4, ItemDoneSound
<1>6. /\ cached' \in BOOLEAN
      /\ UNCHANGED <<input, lines, age, active, crashes, sends, late>>
  BY BatchFacts DEF ApplyRecoveredCheckpoint, ItemAnswered, ItemFails, history
<1>7. ckpt'[b] = K
  BY <1>1, <1>4
<1>8. Only(b)
  BY <1>2, <1>4, <1>5, <1>6, <1>7, BatchFacts DEF Only
<1>9. Typed(b)
  BY <1>1, <1>5, <1>6, <1>7 DEF Typed
<1>. QED
  BY <1>5, <1>6, <1>7, <1>8, <1>9, OneBatchStep

\* A loop holds its item back for the provider's rate limit.
LEMMA ThrottleStep ==
  ASSUME IInv, NEW b \in Batch, Throttle(b)
  PROVE  IInv'
<1> DEFINE r == row[b]
           k == ckpt[b]
           n == lines[b]
           l == loop[b]
           s == sends[b]
           t == late[b]
           L == loop'[b]
<1>1. /\ r \in Row /\ k \in [Item -> Checkpoint] /\ n \in 0..MaxItems /\ l \in Loop
      /\ s \in [Item -> Nat] /\ t \in Nat /\ Sound(r, k, n, l, s, t)
  BY BatchFacts
<1>2. L = [l EXCEPT !.pc = "throttled"] /\ loop' = [loop EXCEPT ![b] = L]
  <2>1. loop \in [Batch -> Loop]
    BY BatchFacts
  <2>2. loop' = [loop EXCEPT ![b].pc = "throttled"]
    BY DEF Throttle
  <2>. QED
    BY <2>1, <2>2
<1>3. /\ l.pc = "top" /\ l.item <= n /\ ~Recoverable(l.seen[l.item])
      /\ r.status \notin Cancelled
  BY DEF Throttle, AtItem, IsBatchCancelled, Cancelled
<1>4. UNCHANGED <<row, ckpt, input, lines, age, active, cached, crashes, sends, late>>
  BY DEF Throttle, durable, history
<1> HIDE DEF L
<1>5. L.pc = "throttled" /\ L \in Loop /\ l.item \in Nat
  BY <1>1, <1>2 DEF Loop
<1>6. /\ L.item = l.item /\ L.seen = l.seen /\ L.completed = l.completed /\ L.failed = l.failed
  BY <1>1, <1>2 DEF Loop
<1>7. Only(b) /\ Typed(b)
  BY <1>1, <1>2, <1>3, <1>4, <1>5, BatchFacts DEF Only, Typed, L
<1> HIDE DEF r, k, n, l, s, t
<1>8. Running(r, k, n, l, s)
  BY <1>1, <1>3 DEF Sound
<1>9. Position(n, L) /\ Owned(r, L)
  BY <1>3, <1>5, <1>6, <1>8 DEF Running, Position, Owned
<1>10. \A i : Ahead(L, i) <=> Ahead(l, i)
  BY <1>3, <1>5, <1>6 DEF Ahead
<1>11. Unsent(L, s)
  BY <1>3, <1>5, <1>6, <1>8, <1>10 DEF Running, Unsent
<1>12. r.status # "deleted" => Counted(r, k, n, L)
  BY <1>5, <1>6, <1>8, <1>10 DEF Running, Counted
<1>13. Running(r, k, n, L, s)
  BY <1>9, <1>11, <1>12 DEF Running
<1>14. Sound(r, k, n, L, s, t)
  BY <1>1, <1>3, <1>5, <1>8, <1>13 DEF Sound, Running, Owned
<1>. QED
  BY <1>4, <1>7, <1>14, OneBatchStep DEF r, k, n, L, s, t

\* An item is sent for the first time in this run of the process: none before
\* sent it, and one item at most is sent after a cancel.
LEMMA SendItemStep ==
  ASSUME IInv, NEW b \in Batch, SendItem(b)
  PROVE  IInv'
<1> DEFINE r == row[b]
           k == ckpt[b]
           n == lines[b]
           l == loop[b]
           s == sends[b]
           t == late[b]
           m == l.item
           K == ckpt'[b]
           L == loop'[b]
           S == sends'[b]
           T == late'[b]
<1>1. /\ r \in Row /\ k \in [Item -> Checkpoint] /\ n \in 0..MaxItems /\ l \in Loop
      /\ s \in [Item -> Nat] /\ t \in Nat /\ Sound(r, k, n, l, s, t)
      /\ MaxItems \in Nat /\ MaxRetries \in Nat \ {0}
  BY BatchFacts
<1>2. L = [l EXCEPT !.pc = "waiting", !.attempt = 1] /\ loop' = [loop EXCEPT ![b] = L]
  <2>1. loop \in [Batch -> Loop] /\ l \in Loop
    BY BatchFacts
  <2>2. loop' = [loop EXCEPT ![b].pc = "waiting", ![b].attempt = 1]
    BY DEF SendItem
  <2>. QED
    BY <2>1, <2>2 DEF Loop
<1>3. K = [k EXCEPT ![m] = "processing"] /\ ckpt' = [ckpt EXCEPT ![b] = K]
  <2>1. ckpt \in [Batch -> [Item -> Checkpoint]]
    BY BatchFacts
  <2>2. ckpt' = [ckpt EXCEPT ![b][m] = "processing"]
    BY DEF SendItem
  <2>. QED
    BY <2>1, <2>2
<1>4. S = [s EXCEPT ![m] = @ + 1] /\ sends' = [sends EXCEPT ![b] = S]
  <2>1. sends \in [Batch -> [Item -> Nat]]
    BY BatchFacts
  <2>2. sends' = [sends EXCEPT ![b][m] = @ + 1]
    BY DEF SendItem
  <2>. QED
    BY <2>1, <2>2
<1>5. T = (IF IsBatchCancelled(b) THEN t + 1 ELSE t) /\ late' = [late EXCEPT ![b] = T]
  <2>1. late \in [Batch -> Nat]
    BY BatchFacts
  <2>2. late' = [late EXCEPT ![b] = IF IsBatchCancelled(b) THEN @ + 1 ELSE @]
    BY DEF SendItem
  <2>. QED
    BY <2>1, <2>2
<1>6. /\ l.pc \in {"top", "throttled"} /\ (l.pc = "top" => m <= n)
      /\ (l.pc = "top" => ~Recoverable(l.seen[m]))
      /\ (IsBatchCancelled(b) => l.pc = "throttled")
  BY DEF SendItem, Ready, AtItem
<1>7. IsBatchCancelled(b) <=> r.status \in Cancelled
  BY DEF IsBatchCancelled, Cancelled
<1>8. UNCHANGED <<row, input, lines, age, active, cached, crashes>>
  BY DEF SendItem
<1> HIDE DEF K, L, S, T
<1>9. Running(r, k, n, l, s)
  BY <1>1, <1>6 DEF Sound
<1>10. m <= n /\ ~Recoverable(l.seen[m]) /\ m \in Item
  <2>1. m <= n /\ ~Recoverable(l.seen[m])
    BY <1>6, <1>9 DEF Running, Position, Unsent
  <2>. QED
    BY <1>1, <2>1 DEF Loop, Item
<1>11. s[m] = 0
  BY <1>6, <1>9, <1>10 DEF Running, Unsent, Ahead
<1>12. L \in Loop /\ L.pc = "waiting"
  <2>1. 1 \in 0..MaxRetries
    BY <1>1
  <2>. QED
    BY <1>1, <1>2, <2>1 DEF Loop
<1>13. /\ L.item = m /\ L.seen = l.seen /\ L.completed = l.completed /\ L.failed = l.failed
  BY <1>1, <1>2 DEF Loop
<1>14. /\ K \in [Item -> Checkpoint] /\ K[m] = "processing"
       /\ \A i \in Item : i # m => K[i] = k[i]
  BY <1>1, <1>3, <1>10 DEF Checkpoint
<1>15. S \in [Item -> Nat] /\ S[m] = 1 /\ \A i \in Item : i # m => S[i] = s[i]
  BY <1>1, <1>4, <1>10, <1>11
<1>16. /\ T \in Nat /\ T <= 1 /\ (T # 0 => r.status \in Cancelled)
  BY <1>1, <1>5, <1>6, <1>7 DEF Sound
<1>17. Only(b) /\ Typed(b)
  BY <1>1, <1>2, <1>3, <1>4, <1>5, <1>6, <1>8, <1>12, <1>14, <1>15, <1>16, BatchFacts
     DEF Only, Typed, K, L, S, T
<1> HIDE DEF r, k, n, l, s, t, m
<1>18. Position(n, L) /\ Owned(r, L)
  BY <1>6, <1>9, <1>10, <1>12, <1>13 DEF Running, Position, Owned, m
<1>19. \A i \in Item : Ahead(L, i) => i > m /\ i # m /\ Ahead(l, i)
  BY <1>10, <1>12, <1>13 DEF Ahead, Item, m
<1>20. Unsent(L, S)
  BY <1>9, <1>12, <1>13, <1>15, <1>19 DEF Running, Unsent
<1>21. ASSUME r.status # "deleted"
       PROVE  Counted(r, K, n, L)
  <2>1. Counted(r, k, n, l)
    BY <1>9, <1>21 DEF Running
  <2>2. \A i \in Item : i < m => i # m
    BY <1>10 DEF Item
  <2>3. \A C : {i \in Item : i < m /\ K[i] \in C} = {i \in Item : i < m /\ k[i] \in C}
    BY <1>14, <2>2
  <2>4. /\ L.completed = Cardinality({i \in Item : i < L.item /\ K[i] \in {"ok"}})
        /\ L.failed = Cardinality({i \in Item : i < L.item /\ K[i] \in {"bad", "errored"}})
    <3>1. /\ L.completed = l.completed /\ L.failed = l.failed /\ L.item = m
          /\ l.completed = Cardinality({i \in Item : i < m /\ k[i] \in {"ok"}})
          /\ l.failed = Cardinality({i \in Item : i < m /\ k[i] \in {"bad", "errored"}})
      BY <1>13, <2>1 DEF Counted, m
    <3>. QED
      BY <2>3, <3>1
  <2>5. \A i \in Item : i < L.item => K[i] \in {"ok", "bad", "errored"}
    BY <1>13, <1>14, <2>1, <2>2 DEF Counted, m
  <2>6. \A i \in Item : i <= n => K[i] # "absent"
    BY <1>14, <2>1 DEF Counted
  <2>7. \A i \in Item : Ahead(L, i) => K[i] = L.seen[i]
    BY <1>13, <1>14, <1>19, <2>1 DEF Counted
  <2>. QED
    BY <1>12, <1>13, <1>14, <2>1, <2>4, <2>5, <2>6, <2>7 DEF Counted
<1>22. Running(r, K, n, L, S)
  BY <1>18, <1>20, <1>21 DEF Running
<1>23. /\ \A i \in Item : K[i] # "absent" => i <= n
       /\ \A i \in Item : S[i] <= 1
       /\ \A i \in Item : S[i] # 0 => r.status = "deleted" \/ Recoverable(K[i])
  BY <1>1, <1>10, <1>14, <1>15 DEF Sound, Recoverable
<1>24. r.status \in {"in_progress"} \cup Cancelled
  BY <1>6, <1>9 DEF Running, Owned
<1>25. Sound(r, K, n, L, S, T)
  BY <1>12, <1>16, <1>22, <1>23, <1>24 DEF Sound, Cancelled
<1>. QED
  BY <1>8, <1>17, <1>25, OneBatchStep DEF r, K, n, L, S, T

\* An item the provider refuses is taken back, and sent again after the sleep.
LEMMA RetryStep ==
  ASSUME IInv, NEW b \in Batch, ItemRefused(b) \/ RetryItem(b)
  PROVE  IInv'
<1> DEFINE r == row[b]
           k == ckpt[b]
           n == lines[b]
           l == loop[b]
           s == sends[b]
           t == late[b]
           m == l.item
           L == loop'[b]
           S == sends'[b]
<1>1. /\ r \in Row /\ k \in [Item -> Checkpoint] /\ n \in 0..MaxItems /\ l \in Loop
      /\ s \in [Item -> Nat] /\ t \in Nat /\ Sound(r, k, n, l, s, t)
      /\ MaxItems \in Nat /\ MaxRetries \in Nat \ {0}
  BY BatchFacts
<1>2. UNCHANGED <<row, ckpt, input, lines, age, active, cached, crashes, late>>
  BY DEF ItemRefused, RetryItem, durable
<1>3. l.pc \in {"waiting", "backoff"}
  BY DEF ItemRefused, RetryItem
<1>4. Running(r, k, n, l, s)
  BY <1>1, <1>3 DEF Sound
<1>5. m <= n /\ m \in Item
  <2>1. m <= n
    BY <1>3, <1>4 DEF Running, Position
  <2>. QED
    BY <1>1, <2>1 DEF Loop, Item
<1>6. loop' = [loop EXCEPT ![b] = L] /\ sends' = [sends EXCEPT ![b] = S]
  BY BatchFacts DEF ItemRefused, RetryItem
\* Either way the loop keeps its place, and the item counts as sent when it is out.
<1>7. /\ L \in Loop /\ L.pc \in {"waiting", "backoff"}
      /\ L.item = m /\ L.seen = l.seen /\ L.completed = l.completed /\ L.failed = l.failed
      /\ L.pc = "backoff" => L.attempt < MaxRetries
      /\ S \in [Item -> Nat] /\ S[m] = IF L.pc = "waiting" THEN 1 ELSE 0
      /\ \A i \in Item : i # m => S[i] = s[i]
  <2>1. CASE ItemRefused(b)
    <3>1. L = [l EXCEPT !.pc = "backoff"] /\ S = [s EXCEPT ![m] = @ - 1]
      BY <2>1, BatchFacts DEF ItemRefused
    <3>2. l.pc = "waiting" /\ l.attempt < MaxRetries
      BY <2>1 DEF ItemRefused
    <3>3. s[m] = 1
      BY <1>4, <3>2 DEF Running, Unsent
    <3> HIDE DEF L, S
    <3>4. L \in Loop /\ L.pc = "backoff" /\ L.attempt = l.attempt
          /\ L.item = m /\ L.seen = l.seen /\ L.completed = l.completed /\ L.failed = l.failed
      BY <1>1, <3>1 DEF Loop
    <3>5. S \in [Item -> Nat] /\ S[m] = 0 /\ \A i \in Item : i # m => S[i] = s[i]
      BY <1>1, <1>5, <3>1, <3>3
    <3>. QED
      BY <3>2, <3>4, <3>5
  <2>2. CASE RetryItem(b)
    <3>1. L = [l EXCEPT !.pc = "waiting", !.attempt = @ + 1] /\ S = [s EXCEPT ![m] = @ + 1]
      BY <2>2, BatchFacts DEF RetryItem
    <3>2. l.pc = "backoff"
      BY <2>2 DEF RetryItem
    <3>3. s[m] = 0 /\ l.attempt < MaxRetries
      BY <1>4, <3>2 DEF Running, Unsent, Position
    <3> HIDE DEF L, S
    <3>4. l.attempt + 1 \in 0..MaxRetries
      BY <1>1, <3>3 DEF Loop
    <3>5. L \in Loop /\ L.pc = "waiting"
          /\ L.item = m /\ L.seen = l.seen /\ L.completed = l.completed /\ L.failed = l.failed
      BY <1>1, <3>1, <3>4 DEF Loop
    <3>6. S \in [Item -> Nat] /\ S[m] = 1 /\ \A i \in Item : i # m => S[i] = s[i]
      BY <1>1, <1>5, <3>1, <3>3
    <3>. QED
      BY <3>5, <3>6
  <2>. QED
    BY <2>1, <2>2
<1> HIDE DEF L, S
<1>8. Only(b) /\ Typed(b)
  BY <1>1, <1>2, <1>3, <1>6, <1>7, BatchFacts DEF Only, Typed, L, S
<1> HIDE DEF r, k, n, l, s, t, m
<1>9. Position(n, L) /\ Owned(r, L)
  BY <1>3, <1>4, <1>5, <1>7 DEF Running, Position, Owned, m
<1>10. \A i \in Item : (Ahead(L, i) <=> Ahead(l, i)) /\ (Ahead(l, i) => i # m)
  BY <1>3, <1>5, <1>7 DEF Ahead, Item, m
<1>11. Unsent(L, S)
  BY <1>4, <1>5, <1>7, <1>10 DEF Running, Unsent
<1>12. r.status # "deleted" => Counted(r, k, n, L)
  BY <1>3, <1>4, <1>7, <1>10 DEF Running, Counted, m
<1>13. Running(r, k, n, L, S)
  BY <1>9, <1>11, <1>12 DEF Running
<1>14. r.status = "deleted" \/ Recoverable(k[m])
  BY <1>3, <1>4 DEF Running, Counted, Recoverable, m
<1>15. /\ \A i \in Item : S[i] <= 1
       /\ \A i \in Item : S[i] # 0 => r.status = "deleted" \/ Recoverable(k[i])
  BY <1>1, <1>5, <1>7, <1>14 DEF Sound
<1>16. r.status \in {"in_progress"} \cup Cancelled
  BY <1>3, <1>4 DEF Running, Owned
<1>17. Sound(r, k, n, L, S, t)
  BY <1>1, <1>7, <1>13, <1>15, <1>16 DEF Sound, Cancelled
<1>. QED
  BY <1>2, <1>8, <1>17, OneBatchStep DEF r, k, n, L, S, t

\* A loop that ends early: its checkpoint was refused, or the batch was cancelled.
LEMMA EndEarlyStep ==
  ASSUME IInv, NEW b \in Batch, SendItemRefused(b) \/ HandleCancellation(b)
  PROVE  IInv'
<1> DEFINE r == row[b]
           k == ckpt[b]
           n == lines[b]
           l == loop[b]
           s == sends[b]
           t == late[b]
           R == row'[b]
           L == loop'[b]
<1>1. /\ r \in Row /\ k \in [Item -> Checkpoint] /\ n \in 0..MaxItems /\ l \in Loop
      /\ s \in [Item -> Nat] /\ t \in Nat /\ Sound(r, k, n, l, s, t)
      /\ MaxItems \in Nat /\ MaxRetries \in Nat \ {0}
  BY BatchFacts
<1>2. L = NoLoop /\ loop' = [loop EXCEPT ![b] = L] /\ active' = active \ {b}
  BY BatchFacts DEF SendItemRefused, HandleCancellation
<1>3. UNCHANGED <<ckpt, input, lines, age, cached, crashes, sends, late>>
  BY DEF SendItemRefused, HandleCancellation, durable, history
<1>4. /\ R = [r EXCEPT !.status = IF @ = "cancelling" THEN "cancelled" ELSE @]
      /\ row' = [row EXCEPT ![b] = R]
  <2>1. CASE SendItemRefused(b)
    <3>1. row' = row /\ r.status = "deleted"
      BY <2>1 DEF SendItemRefused, durable
    <3>2. r = [r EXCEPT !.status = IF @ = "cancelling" THEN "cancelled" ELSE @]
      BY <1>1, <3>1 DEF Row
    <3>. QED
      BY <3>1, <3>2, BatchFacts
  <2>2. CASE HandleCancellation(b)
    BY <2>2, BatchFacts DEF HandleCancellation
  <2>. QED
    BY <2>1, <2>2
<1>5. r.status \in Cancelled
  BY DEF SendItemRefused, HandleCancellation, IsBatchCancelled, Cancelled
<1> HIDE DEF R, L
<1>6. /\ R \in Row /\ R.status \in Cancelled
      /\ r.status = "deleted" => R.status = "deleted"
  BY <1>1, <1>4, <1>5 DEF Row, Cancelled, Status, Terminal
<1>7. L \in Loop /\ L.pc = "none"
  <2>1. 1 \in 1..(MaxItems + 1) /\ 0 \in 0..MaxItems /\ 0 \in 0..MaxRetries
    BY <1>1
  <2>. QED
    BY <1>2, <2>1 DEF NoLoop, Loop, Checkpoint
<1>8. Only(b) /\ Typed(b)
  BY <1>1, <1>2, <1>3, <1>4, <1>6, <1>7, BatchFacts DEF Only, Typed, R, L
<1> HIDE DEF r, k, n, l, s, t
<1>9. Sound(R, k, n, L, s, t)
  BY <1>1, <1>5, <1>6, <1>7 DEF Sound, Cancelled
<1>. QED
  BY <1>3, <1>8, <1>9, OneBatchStep DEF k, n, s, t, R, L

\* finalizeBatch begins: every item is behind the loop.
LEMMA MarkFinalizingStep ==
  ASSUME IInv, NEW b \in Batch, MarkFinalizing(b)
  PROVE  IInv'
<1> DEFINE r == row[b]
           k == ckpt[b]
           n == lines[b]
           l == loop[b]
           s == sends[b]
           t == late[b]
           R == row'[b]
           L == loop'[b]
<1>1. /\ r \in Row /\ k \in [Item -> Checkpoint] /\ n \in 0..MaxItems /\ l \in Loop
      /\ s \in [Item -> Nat] /\ t \in Nat /\ Sound(r, k, n, l, s, t)
  BY BatchFacts
<1>2. L = [l EXCEPT !.pc = "counting"] /\ loop' = [loop EXCEPT ![b] = L]
  <2>1. loop \in [Batch -> Loop] /\ loop' = [loop EXCEPT ![b].pc = "counting"]
    BY DEF MarkFinalizing, IInv, TypeOK
  <2>. QED
    BY <2>1
<1>3. R = [r EXCEPT !.status = "finalizing"] /\ row' = [row EXCEPT ![b] = R]
  BY BatchFacts DEF MarkFinalizing
<1>4. UNCHANGED <<ckpt, input, lines, age, active, cached, crashes, sends, late>>
  BY DEF MarkFinalizing, history
<1>5. l.pc = "top" /\ l.item > n /\ r.status \notin Cancelled
  BY DEF MarkFinalizing, LoopOver, IsBatchCancelled, Cancelled
<1> HIDE DEF R, L
<1>6. /\ R \in Row /\ R.status = "finalizing" /\ R.total = r.total
  BY <1>1, <1>3 DEF Row, Status
<1>7. /\ L \in Loop /\ L.pc = "counting" /\ L.item = l.item /\ L.seen = l.seen
      /\ L.completed = l.completed /\ L.failed = l.failed /\ l.item \in Nat
  BY <1>1, <1>2 DEF Loop
<1>8. Only(b) /\ Typed(b)
  BY <1>1, <1>2, <1>3, <1>4, <1>5, <1>6, <1>7, BatchFacts DEF Only, Typed, R, L
<1> HIDE DEF r, k, n, l, s, t
<1>9. Running(r, k, n, l, s) /\ Counted(r, k, n, l)
  BY <1>1, <1>5 DEF Sound, Running, Cancelled
<1>10. Position(n, L) /\ Owned(R, L)
  BY <1>1, <1>5, <1>6, <1>7, <1>9 DEF Running, Position, Owned
<1>11. \A i \in Item : Ahead(L, i) => Ahead(l, i)
  BY <1>7 DEF Ahead
<1>12. Unsent(L, s)
  BY <1>7, <1>9, <1>11 DEF Running, Unsent
<1>13. Counted(R, k, n, L)
  BY <1>6, <1>7, <1>9, <1>11 DEF Counted
<1>14. Sound(R, k, n, L, s, t)
  BY <1>1, <1>5, <1>6, <1>7, <1>9, <1>10, <1>12, <1>13 DEF Sound, Running, Owned, Cancelled
<1>. QED
  BY <1>4, <1>8, <1>14, OneBatchStep DEF k, n, s, t, R, L

\* The counts are written; the total is that of the lines already.
LEMMA PersistCountsStep ==
  ASSUME IInv, NEW b \in Batch, PersistCounts(b)
  PROVE  IInv'
<1> DEFINE r == row[b]
           k == ckpt[b]
           n == lines[b]
           l == loop[b]
           s == sends[b]
           t == late[b]
           R == row'[b]
           L == loop'[b]
<1>1. /\ r \in Row /\ k \in [Item -> Checkpoint] /\ n \in 0..MaxItems /\ l \in Loop
      /\ s \in [Item -> Nat] /\ t \in Nat /\ Sound(r, k, n, l, s, t) /\ MaxItems \in Nat
  BY BatchFacts
<1>2. L = [l EXCEPT !.pc = "completing"] /\ loop' = [loop EXCEPT ![b] = L]
  <2>1. loop \in [Batch -> Loop]
    BY BatchFacts
  <2>2. loop' = [loop EXCEPT ![b].pc = "completing"]
    BY DEF PersistCounts
  <2>. QED
    BY <2>1, <2>2
<1>3. /\ R = [r EXCEPT !.total = IF @ > 0 THEN @ ELSE l.completed + l.failed,
                       !.completed = l.completed, !.failed = l.failed]
      /\ row' = [row EXCEPT ![b] = R]
  <2>1. row \in [Batch -> Row] /\ r \in Row
    BY BatchFacts
  <2>2. row' = [row EXCEPT ![b].total = IF @ > 0 THEN @ ELSE l.completed + l.failed,
                           ![b].completed = l.completed, ![b].failed = l.failed]
    BY DEF PersistCounts
  <2>. QED
    BY <2>1, <2>2 DEF Row
<1>4. UNCHANGED <<ckpt, input, lines, age, active, cached, crashes, sends, late>>
  BY DEF PersistCounts, history
<1>5. l.pc = "counting"
  BY DEF PersistCounts
<1> HIDE DEF R, L
<1>6. Running(r, k, n, l, s) /\ r.status = "finalizing" /\ Counted(r, k, n, l)
  BY <1>1, <1>5 DEF Sound, Running, Owned
<1>7. r.total = n /\ l.completed + l.failed = n /\ l.item = n + 1
      /\ l.completed \in 0..MaxItems /\ l.failed \in 0..MaxItems /\ n \in Nat
  BY <1>1, <1>5, <1>6 DEF Running, Position, Counted, Loop
<1>8. /\ R \in Row /\ R.status = "finalizing" /\ R.total = n
      /\ R.completed = l.completed /\ R.failed = l.failed
  <2>1. (IF r.total > 0 THEN r.total ELSE l.completed + l.failed) = n
    BY <1>7
  <2>2. R = [r EXCEPT !.total = n, !.completed = l.completed, !.failed = l.failed]
    BY <1>1, <1>3, <2>1 DEF Row
  <2>. QED
    BY <1>1, <1>6, <1>7, <2>2 DEF Row
<1>9. /\ L \in Loop /\ L.pc = "completing" /\ L.item = l.item /\ L.seen = l.seen
      /\ L.completed = l.completed /\ L.failed = l.failed
  BY <1>1, <1>2 DEF Loop
<1>10. Only(b) /\ Typed(b)
  BY <1>1, <1>2, <1>3, <1>4, <1>5, <1>8, <1>9, BatchFacts DEF Only, Typed, R, L
<1> HIDE DEF r, k, n, l, s, t
<1>11. Position(n, L) /\ Owned(R, L)
  BY <1>5, <1>6, <1>7, <1>8, <1>9 DEF Running, Position, Owned
<1>12. \A i \in Item : Ahead(L, i) => Ahead(l, i)
  BY <1>9 DEF Ahead
<1>13. Unsent(L, s)
  BY <1>6, <1>9, <1>12 DEF Running, Unsent
<1>14. Counted(R, k, n, L)
  BY <1>6, <1>8, <1>9, <1>12 DEF Counted
<1>15. Sound(R, k, n, L, s, t)
  BY <1>1, <1>6, <1>8, <1>9, <1>11, <1>13, <1>14 DEF Sound, Running, Cancelled
<1>. QED
  BY <1>4, <1>10, <1>15, OneBatchStep DEF k, n, s, t, R, L

\* The batch is completed with what its loop has counted: the checkpoints of
\* all its lines, and there are no others.
LEMMA CompleteBatchStep ==
  ASSUME IInv, NEW b \in Batch, CompleteBatch(b)
  PROVE  IInv'
<1> DEFINE r == row[b]
           k == ckpt[b]
           n == lines[b]
           l == loop[b]
           s == sends[b]
           t == late[b]
           R == row'[b]
           L == loop'[b]
<1>1. /\ r \in Row /\ k \in [Item -> Checkpoint] /\ n \in 0..MaxItems /\ l \in Loop
      /\ s \in [Item -> Nat] /\ t \in Nat /\ Sound(r, k, n, l, s, t)
      /\ MaxItems \in Nat /\ MaxRetries \in Nat \ {0}
  BY BatchFacts
<1>2. L = NoLoop /\ loop' = [loop EXCEPT ![b] = L] /\ active' = active \ {b}
  <2>1. loop \in [Batch -> Loop]
    BY BatchFacts
  <2>2. loop' = [loop EXCEPT ![b] = NoLoop] /\ active' = active \ {b}
    BY DEF CompleteBatch
  <2>. QED
    BY <2>1, <2>2
<1>3. /\ R = [r EXCEPT !.status = "completed",
                       !.output = l.completed > 0, !.errors = l.failed > 0]
      /\ row' = [row EXCEPT ![b] = R]
  <2>1. row \in [Batch -> Row] /\ r \in Row
    BY BatchFacts
  <2>2. row' = [row EXCEPT ![b].status = "completed",
                           ![b].output = l.completed > 0, ![b].errors = l.failed > 0]
    BY DEF CompleteBatch
  <2>. QED
    BY <2>1, <2>2 DEF Row
<1>4. UNCHANGED <<ckpt, input, lines, age, cached, crashes, sends, late>>
  BY DEF CompleteBatch, history
<1>5. l.pc = "completing"
  BY DEF CompleteBatch
<1> HIDE DEF R, L
<1>6. Running(r, k, n, l, s) /\ r.status = "finalizing" /\ Counted(r, k, n, l)
  BY <1>1, <1>5 DEF Sound, Running, Owned
<1>7. /\ r.total = n /\ l.completed + l.failed = n /\ l.item = n + 1
      /\ r.completed = l.completed /\ r.failed = l.failed /\ n \in Nat
  BY <1>1, <1>5, <1>6 DEF Running, Position, Counted, Loop
<1>8. /\ R \in Row /\ R.status = "completed" /\ R.total = r.total
      /\ R.completed = r.completed /\ R.failed = r.failed
      /\ R.output = (l.completed > 0) /\ R.errors = (l.failed > 0)
  <2>1. (l.completed > 0) \in BOOLEAN /\ (l.failed > 0) \in BOOLEAN
    OBVIOUS
  <2>. QED
    BY <1>1, <1>3, <2>1 DEF Row, Status, Terminal
<1>9. L \in Loop /\ L.pc = "none"
  <2>1. 1 \in 1..(MaxItems + 1) /\ 0 \in 0..MaxItems /\ 0 \in 0..MaxRetries
    BY <1>1
  <2>. QED
    BY <1>2, <2>1 DEF NoLoop, Loop, Checkpoint
<1>10. Only(b) /\ Typed(b)
  BY <1>1, <1>2, <1>3, <1>4, <1>8, <1>9, BatchFacts DEF Only, Typed, R, L
<1> HIDE DEF r, k, n, l, s, t
<1>11. \A i \in Item : k[i] # "absent" => i < l.item
  BY <1>1, <1>7 DEF Sound, Item
<1>12. /\ r.completed = Cardinality({i \in Item : k[i] \in {"ok"}})
       /\ r.failed = Cardinality({i \in Item : k[i] \in {"bad", "errored"}})
  <2>1. {i \in Item : i < l.item /\ k[i] \in {"ok"}} = {i \in Item : k[i] \in {"ok"}}
    BY <1>11
  <2>2. {i \in Item : i < l.item /\ k[i] \in {"bad", "errored"}}
           = {i \in Item : k[i] \in {"bad", "errored"}}
    BY <1>11
  <2>. QED
    BY <1>6, <1>7, <2>1, <2>2 DEF Counted
<1>13. Whole(R, k, n)
  BY <1>7, <1>8, <1>12 DEF Whole
<1>14. Sound(R, k, n, L, s, t)
  BY <1>1, <1>6, <1>8, <1>9, <1>13 DEF Sound, Cancelled
<1>. QED
  BY <1>4, <1>10, <1>14, OneBatchStep DEF k, n, s, t, R, L

-----------------------------------------------------------------------------
(* Clients and time.                                                       *)

\* A batch begins without items, checkpoints or sends.
LEMMA CreateBatchStep ==
  ASSUME IInv, NEW b \in Batch, NEW file \in Files[b], CreateBatch(b, file)
  PROVE  IInv'
<1> DEFINE r == row[b]
           k == ckpt[b]
           l == loop[b]
           s == sends[b]
           t == late[b]
           R == row'[b]
           N == lines'[b]
<1>1. /\ r \in Row /\ k \in [Item -> Checkpoint] /\ l \in Loop
      /\ s \in [Item -> Nat] /\ t \in Nat /\ Sound(r, k, lines[b], l, s, t)
  BY BatchFacts
<1>2. file.kind \in {"valid", "invalid"} /\ file.lines \in 0..MaxItems
  BY BatchAssumption
<1>3. R = [r EXCEPT !.status = "validating"] /\ row' = [row EXCEPT ![b] = R]
  BY BatchFacts DEF CreateBatch
<1>4. N = file.lines /\ lines' = [lines EXCEPT ![b] = N]
  BY BatchFacts DEF CreateBatch
<1>5. /\ r.status = "unborn" /\ input' \in [Batch -> {"valid", "invalid", "missing"}]
      /\ UNCHANGED <<ckpt, age, active, loop, cached, crashes, sends, late>>
  BY <1>2, BatchFacts DEF CreateBatch, volatile, history
<1> HIDE DEF R, N
<1>6. R \in Row /\ R.status = "validating"
  BY <1>1, <1>3 DEF Row, Status
<1>7. l.pc = "none" /\ \A i \in Item : k[i] = "absent"
  BY <1>1, <1>5 DEF Sound
<1>8. Only(b)
  BY <1>3, <1>4, <1>5, <1>7, BatchFacts DEF Only, R, N
<1>9. Typed(b)
  BY <1>1, <1>2, <1>4, <1>5, <1>6 DEF Typed, R, N
<1> HIDE DEF r, k, l, s, t
<1>10. Sound(R, k, N, l, s, t)
  BY <1>1, <1>5, <1>6, <1>7 DEF Sound, Cancelled
<1>. QED
  BY <1>5, <1>8, <1>9, <1>10, OneBatchStep DEF R, N, k, l, s, t

\* A cancel changes the status only, under a loop that may be running.
LEMMA CancelBatchStep ==
  ASSUME IInv, NEW b \in Batch, CancelBatch(b)
  PROVE  IInv'
<1> DEFINE r == row[b]
           k == ckpt[b]
           n == lines[b]
           l == loop[b]
           s == sends[b]
           t == late[b]
           R == row'[b]
<1>1. /\ r \in Row /\ k \in [Item -> Checkpoint] /\ n \in 0..MaxItems /\ l \in Loop
      /\ s \in [Item -> Nat] /\ t \in Nat /\ Sound(r, k, n, l, s, t)
  BY BatchFacts
<1>2. R = [r EXCEPT !.status = "cancelling"] /\ row' = [row EXCEPT ![b] = R]
  BY BatchFacts DEF CancelBatch
<1>3. UNCHANGED <<ckpt, input, lines, age, active, loop, cached, crashes, sends, late>>
  BY DEF CancelBatch, volatile, history
<1>4. /\ l.pc \notin {"counting", "completing"}
      /\ r.status \notin {"unborn", "deleted", "completed"}
  BY DEF CancelBatch, Finalizing, Pending, Exists, Terminal
<1> HIDE DEF R
<1>5. R \in Row /\ R.status = "cancelling" /\ R.total = r.total
  BY <1>1, <1>2 DEF Row, Status
<1>6. Only(b)
  BY <1>2, <1>3, BatchFacts DEF Only, R
<1>7. Typed(b)
  BY <1>1, <1>3, <1>5 DEF Typed, R
<1> HIDE DEF r, k, n, l, s, t
<1>8. l.pc # "none" => Running(R, k, n, l, s)
  BY <1>1, <1>4, <1>5 DEF Sound, Running, Owned, Counted, Cancelled
<1>9. Sound(R, k, n, l, s, t)
  BY <1>1, <1>4, <1>5, <1>8 DEF Sound, Cancelled
<1>. QED
  BY <1>3, <1>6, <1>7, <1>9, OneBatchStep DEF R, k, n, l, s, t

\* A delete takes the checkpoints away, and there is no row a loop could start
\* from again.
LEMMA DeleteBatchStep ==
  ASSUME IInv, NEW b \in Batch, DeleteBatch(b)
  PROVE  IInv'
<1> DEFINE n == lines[b]
           l == loop[b]
           s == sends[b]
           t == late[b]
           R == row'[b]
           K == ckpt'[b]
<1>1. /\ n \in 0..MaxItems /\ l \in Loop /\ MaxItems \in Nat
      /\ s \in [Item -> Nat] /\ t \in Nat /\ Sound(row[b], ckpt[b], n, l, s, t)
  BY BatchFacts
<1>2. R = NoRow("deleted") /\ row' = [row EXCEPT ![b] = R]
  BY BatchFacts DEF DeleteBatch
<1>3. K = [i \in Item |-> "absent"] /\ ckpt' = [ckpt EXCEPT ![b] = K]
  <2>1. ckpt \in [Batch -> [Item -> Checkpoint]]
    BY BatchFacts
  <2>2. ckpt' = [ckpt EXCEPT ![b] = [i \in Item |-> "absent"]]
    BY DEF DeleteBatch
  <2>. QED
    BY <2>1, <2>2
<1>4. /\ input' \in [Batch -> {"valid", "invalid", "missing"}]
      /\ UNCHANGED <<lines, age, active, loop, cached, crashes, sends, late>>
  BY BatchFacts DEF DeleteBatch, volatile, history
<1>5. row[b].status \in Terminal
  BY DEF DeleteBatch
<1> HIDE DEF R, K
<1>6. R \in Row /\ R.status = "deleted"
  <2>1. 0 \in 0..MaxItems
    BY <1>1
  <2>. QED
    BY <1>2, <2>1 DEF NoRow, Row, Status
<1>7. K \in [Item -> Checkpoint] /\ \A i \in Item : K[i] = "absent"
  BY <1>3 DEF Checkpoint
<1>8. Only(b)
  BY <1>2, <1>3, <1>4, BatchFacts DEF Only, R, K
<1>9. Typed(b)
  BY <1>1, <1>4, <1>6, <1>7 DEF Typed, R, K
<1> HIDE DEF n, l, s, t
<1>10. l.pc # "none" => Running(R, K, n, l, s)
  BY <1>1, <1>5, <1>6 DEF Sound, Running, Owned, Terminal, Cancelled
<1>11. Sound(R, K, n, l, s, t)
  BY <1>1, <1>6, <1>7, <1>10 DEF Sound, Cancelled
<1>. QED
  BY <1>4, <1>8, <1>9, <1>11, OneBatchStep DEF R, K, n, l, s, t

\* The file goes or the batch ages: neither is part of what makes it sound.
LEMMA OutsideStep ==
  ASSUME IInv, NEW b \in Batch, DeleteInput(b) \/ TimePasses(b)
  PROVE  IInv'
<1>1. UNCHANGED <<row, ckpt, lines, active, loop, cached, crashes, sends, late>>
  BY DEF DeleteInput, TimePasses, volatile, history
<1>2. /\ input' \in [Batch -> {"valid", "invalid", "missing"}]
      /\ age' \in [Batch -> 0..2]
  <2>1. input \in [Batch -> {"valid", "invalid", "missing"}] /\ age \in [Batch -> 0..2]
    BY BatchFacts
  <2>2. CASE DeleteInput(b)
    BY <2>1, <2>2 DEF DeleteInput
  <2>3. CASE TimePasses(b)
    <3>1. age[b] + 1 \in 0..2
      BY <2>1, <2>3 DEF TimePasses
    <3>2. input' = input /\ age' = [age EXCEPT ![b] = age[b] + 1]
      BY <2>3 DEF TimePasses
    <3>. QED
      BY <2>1, <3>1, <3>2
  <2>. QED
    BY <2>2, <2>3
<1>. QED
  BY <1>1, <1>2 DEF IInv, TypeOK, PoolOK, BatchesOK

\* A crash ends the loops and leaves the rows and the checkpoints.
LEMMA CrashStep ==
  ASSUME IInv, Crash
  PROVE  IInv'
<1>1. UNCHANGED <<row, ckpt, input, lines, age, sends, late>> /\ active' = {} /\ cached' = FALSE
      /\ loop' = [b \in Batch |-> NoLoop]
  BY DEF Crash, durable
<1>2. crashes' \in 0..MaxCrashes
  BY BatchAssumption DEF Crash, IInv, TypeOK
<1>3. NoLoop \in Loop /\ NoLoop.pc = "none"
  <2>1. 1 \in 1..(MaxItems + 1) /\ 0 \in 0..MaxItems /\ 0 \in 0..MaxRetries
    BY BatchAssumption
  <2>. QED
    BY <2>1 DEF NoLoop, Loop, Checkpoint
<1>4. TypeOK'
  BY <1>1, <1>2, <1>3 DEF IInv, TypeOK
<1>5. PoolOK'
  <2>1. {b \in Batch : loop'[b].pc # "none"} = {}
    BY <1>1, <1>3
  <2>2. Cardinality({}) = 0
    BY FS_EmptySet
  <2>. QED
    BY <1>1, <2>1, <2>2, BatchAssumption DEF PoolOK
<1>6. BatchesOK'
  <2> SUFFICES ASSUME NEW b \in Batch
               PROVE  Sound(row[b], ckpt[b], lines[b], NoLoop, sends[b], late[b])
    BY <1>1 DEF BatchesOK
  <2>1. Sound(row[b], ckpt[b], lines[b], loop[b], sends[b], late[b])
    BY BatchFacts
  <2>. QED
    BY <1>3, <2>1, Zenon DEF Sound
<1>. QED
  BY <1>4, <1>5, <1>6 DEF IInv

-----------------------------------------------------------------------------
(* A poll.                                                                 *)

\* Recovery touches only batches without a loop, and none that is cancelled,
\* completed or gone.
LEMMA RecoveredFacts ==
  ASSUME IInv, NEW b \in Batch
  PROVE  /\ Recovered(b) \in Row
         /\ \/ Recovered(b) = row[b]
            \/ /\ loop[b].pc = "none"
               /\ row[b].status \in {"in_progress", "finalizing"}
               /\ Recovered(b).status \in {"failed", "validating"}
<1>1. row[b] \in Row /\ MaxItems \in Nat
  BY BatchFacts
<1>2. CASE ~Stale(b)
  BY <1>1, <1>2 DEF Recovered
<1>3. CASE Stale(b)
  <2>1. loop[b].pc = "none" /\ row[b].status \in {"in_progress", "finalizing"}
    BY <1>3 DEF Stale, IInv, PoolOK
  <2> DEFINE R == RecoverStaleBatch(b)
             none == CheckpointCount(b) = 0
             failed == [row[b] EXCEPT !.status = "failed"]
             again == [row[b] EXCEPT !.status = "validating", !.output = FALSE, !.errors = FALSE,
                                     !.completed = IF none THEN 0 ELSE @,
                                     !.failed = IF none THEN 0 ELSE @]
  <2>2. R \in {failed, again}
    BY DEF RecoverStaleBatch
  <2> HIDE DEF none, R
  <2>3. 0 \in 0..MaxItems
    BY <1>1
  <2>4. failed \in Row /\ failed.status = "failed"
    BY <1>1 DEF Row, Status, Terminal
  <2>5. again \in Row /\ again.status = "validating"
    BY <1>1, <2>3 DEF Row, Status
  <2>6. R \in Row /\ R.status \in {"failed", "validating"}
    BY <2>2, <2>4, <2>5
  <2>. QED
    BY <1>3, <2>1, <2>6 DEF Recovered, R
<1>. QED
  BY <1>2, <1>3

\* A batch that a poll may start has no loop and is not cancelled.
LEMMA ValidatingFacts ==
  ASSUME IInv, NEW b \in Batch, Recovered(b).status = "validating"
  PROVE  /\ loop[b].pc = "none" /\ late[b] = 0
         /\ row[b].status \in {"validating", "in_progress", "finalizing"}
<1>1. Sound(row[b], ckpt[b], lines[b], loop[b], sends[b], late[b])
  BY BatchFacts
<1>2. row[b].status \in {"validating", "in_progress", "finalizing"}
  BY RecoveredFacts
<1>3. row[b].status = "validating" => loop[b].pc = "none"
  BY <1>1 DEF Sound, Running, Owned, Cancelled
<1>4. loop[b].pc = "none"
  BY <1>2, <1>3, RecoveredFacts
<1>. QED
  BY <1>1, <1>2, <1>4 DEF Sound, Cancelled

\* A batch the poll starts: its loop will skip what an earlier run has sent.
LEMMA StartedSound ==
  ASSUME IInv, NEW b \in Batch, Recovered(b).status = "validating", input[b] = "valid"
  PROVE  LET K == EnsureBatchItemCheckpoints(b)
             L == [NoLoop EXCEPT !.pc = "top", !.seen = K]
             R == StartedRow(b, Recovered(b))
         IN  /\ K \in [Item -> Checkpoint] /\ L \in Loop /\ R \in Row /\ L.pc # "none"
             /\ Sound(R, K, lines[b], L, sends[b], late[b])
<1> DEFINE k == ckpt[b]
           n == lines[b]
           s == sends[b]
           K == EnsureBatchItemCheckpoints(b)
           L == [NoLoop EXCEPT !.pc = "top", !.seen = K]
           R == StartedRow(b, Recovered(b))
<1>1. /\ k \in [Item -> Checkpoint] /\ n \in 0..MaxItems /\ s \in [Item -> Nat]
      /\ Sound(row[b], k, n, loop[b], s, late[b]) /\ MaxItems \in Nat /\ MaxRetries \in Nat \ {0}
  BY BatchFacts
<1>2. late[b] = 0 /\ row[b].status # "deleted"
  BY ValidatingFacts
<1>3. /\ K \in [Item -> Checkpoint]
      /\ \A i \in Item : K[i] = IF i <= n /\ k[i] = "absent" THEN "pending" ELSE k[i]
  BY <1>1 DEF EnsureBatchItemCheckpoints, Checkpoint
<1>4. R = [Recovered(b) EXCEPT !.status = "in_progress", !.total = n]
  BY DEF StartedRow
<1> HIDE DEF K, R
<1>5. R \in Row /\ R.status = "in_progress" /\ R.total = n
  BY <1>1, <1>4, RecoveredFacts DEF Row, Status
<1>6. /\ L \in Loop /\ L.pc = "top" /\ L.item = 1 /\ L.seen = K
      /\ L.completed = 0 /\ L.failed = 0
  <2>1. 1 \in 1..(MaxItems + 1) /\ 0 \in 0..MaxItems /\ 0 \in 0..MaxRetries
    BY <1>1
  <2>. QED
    BY <1>3, <2>1 DEF NoLoop, Loop
<1> HIDE DEF L, k, n, s
<1>7. \A i \in Item : K[i] # "absent" => i <= n
  BY <1>1, <1>3 DEF Sound
<1>8. \A i \in Item : i <= n => K[i] # "absent"
  BY <1>3
<1>9. \A i \in Item : s[i] # 0 => Recoverable(K[i])
  <2>1. \A i \in Item : s[i] # 0 => Recoverable(k[i])
    BY <1>1, <1>2 DEF Sound
  <2>. QED
    BY <1>3, <2>1 DEF Recoverable
<1>10. Position(n, L) /\ Owned(R, L)
  BY <1>1, <1>5, <1>6 DEF Position, Owned
<1>11. Unsent(L, s)
  BY <1>6, <1>9 DEF Unsent
<1>12. Counted(R, K, n, L)
  <2>1. \A i \in Item : ~(i < 1)
    BY DEF Item
  <2>2. \A C : {i \in Item : i < 1 /\ K[i] \in C} = {}
    BY <2>1
  <2>3. Cardinality({}) = 0
    BY FS_EmptySet
  <2>4. /\ L.completed = Cardinality({i \in Item : i < L.item /\ K[i] \in {"ok"}})
        /\ L.failed = Cardinality({i \in Item : i < L.item /\ K[i] \in {"bad", "errored"}})
    BY <1>6, <2>2, <2>3
  <2>. QED
    BY <1>5, <1>6, <1>8, <2>1, <2>4 DEF Counted
<1>13. \A i \in Item : s[i] <= 1
  BY <1>1 DEF Sound
<1>14. Sound(R, K, n, L, s, late[b])
  BY <1>2, <1>5, <1>6, <1>7, <1>9, <1>10, <1>11, <1>12, <1>13 DEF Sound, Running
<1>. QED
  BY <1>3, <1>5, <1>6, <1>14 DEF L, K, R, n, s

\* A batch the poll does not start, or cannot.
LEMMA PolledSound ==
  ASSUME IInv, NEW b \in Batch, NEW S \in SUBSET Batch, S \subseteq Validating,
         ~(b \in S /\ input[b] = "valid")
  PROVE  Polled(b, S) \in Row /\ Sound(Polled(b, S), ckpt[b], lines[b], loop[b], sends[b], late[b])
<1> DEFINE r == row[b]
           q == Recovered(b)
           k == ckpt[b]
           n == lines[b]
           l == loop[b]
           s == sends[b]
           t == late[b]
           R == Polled(b, S)
<1>1. /\ r \in Row /\ k \in [Item -> Checkpoint] /\ n \in 0..MaxItems /\ l \in Loop
      /\ s \in [Item -> Nat] /\ t \in Nat /\ Sound(r, k, n, l, s, t) /\ MaxItems \in Nat
      /\ input[b] \in {"valid", "invalid", "missing"}
  BY BatchFacts
<1>2. /\ q \in Row
      /\ q = r \/ (l.pc = "none" /\ r.status \in {"in_progress", "finalizing"}
                   /\ q.status \in {"failed", "validating"})
  BY RecoveredFacts
<1>3. q.status = "validating" =>
         l.pc = "none" /\ t = 0 /\ r.status \in {"validating", "in_progress", "finalizing"}
  BY ValidatingFacts
<1> HIDE DEF q, R
<1>4. ASSUME R \in Row, l.pc = "none", t = 0, R.status \in {"failed", "validating", "expired"},
             r.status \in {"validating", "in_progress", "finalizing"}
      PROVE  Sound(R, k, n, l, s, t)
  <2> HIDE DEF r, k, n, l, s, t
  <2>. QED
    BY <1>1, <1>4 DEF Sound
<1>5. CASE b \in S
  <2>1. q.status = "validating" /\ input[b] \in {"invalid", "missing"}
    BY <1>1, <1>5 DEF Validating, q
  <2>2. R = IF input[b] = "missing" THEN [q EXCEPT !.status = "failed"]
            ELSE [q EXCEPT !.status = "failed", !.total = n, !.failed = n]
    BY <1>5, <2>1 DEF R, Polled, StartedRow, q
  <2>3. R \in Row /\ R.status = "failed"
    BY <1>1, <1>2, <2>2 DEF Row, Status, Terminal
  <2>. QED
    BY <1>3, <1>4, <2>1, <2>3 DEF R
<1>6. CASE b \notin S /\ q.status = "cancelling"
  <2>1. R = [q EXCEPT !.status = "cancelled"]
    BY <1>6 DEF R, Polled, q
  <2>2. q = r
    BY <1>2, <1>6
  <2>3. R \in Row /\ R.status = "cancelled" /\ R.total = r.total
        /\ R.completed = r.completed /\ R.failed = r.failed
    BY <1>1, <2>1, <2>2 DEF Row, Status, Terminal
  <2>4. r.status = "cancelling"
    BY <1>6, <2>2
  <2> HIDE DEF r, k, n, l, s, t
  <2>5. l.pc # "none" => Running(R, k, n, l, s)
    BY <1>1, <2>3, <2>4 DEF Sound, Running, Owned, Counted, Cancelled
  <2>6. Sound(R, k, n, l, s, t)
    BY <1>1, <2>3, <2>4, <2>5 DEF Sound, Cancelled
  <2>. QED
    BY <2>3, <2>6 DEF R, k, n, l, s, t
<1>7. CASE b \notin S /\ q.status = "validating" /\ age[b] > 0
  <2>1. R = [q EXCEPT !.status = "expired"]
    BY <1>7 DEF R, Polled, q
  <2>2. R \in Row /\ R.status = "expired"
    BY <1>2, <2>1 DEF Row, Status, Terminal
  <2>. QED
    BY <1>3, <1>4, <1>7, <2>2 DEF R
<1>8. CASE b \notin S /\ q.status # "cancelling" /\ ~(q.status = "validating" /\ age[b] > 0)
  <2>1. R = q
    BY <1>8 DEF R, Polled, q
  <2>2. CASE q = r
    BY <1>1, <2>1, <2>2 DEF R
  <2>3. CASE q # r
    <3>1. l.pc = "none" /\ r.status \in {"in_progress", "finalizing"}
          /\ R.status \in {"failed", "validating"} /\ R \in Row
      BY <1>2, <2>1, <2>3
    <3>2. t = 0
      BY <1>1, <3>1 DEF Sound, Cancelled
    <3>. QED
      BY <1>4, <3>1, <3>2 DEF R
  <2>. QED
    BY <2>2, <2>3
<1>. QED
  BY <1>5, <1>6, <1>7, <1>8

\* The whole poll: every batch is sound, and the pool has its bound.
LEMMA PollStep ==
  ASSUME IInv, NEW S \in SUBSET Batch, ProcessPendingBatches(S)
  PROVE  IInv'
<1> DEFINE started == {b \in S : input[b] = "valid"}
<1>1. /\ S \subseteq Validating /\ RoomFor(S)
      /\ row' = [b \in Batch |-> Polled(b, S)]
      /\ ckpt' = [b \in Batch |-> IF b \in started THEN EnsureBatchItemCheckpoints(b) ELSE ckpt[b]]
      /\ active' = active \cup started
      /\ loop' = [b \in Batch |-> IF b \in started
                                  THEN [NoLoop EXCEPT !.pc = "top", !.seen = ckpt'[b]]
                                  ELSE loop[b]]
      /\ input' = [b \in Batch |-> IF age[b] = 2 THEN "missing" ELSE input[b]]
      /\ UNCHANGED <<lines, age, cached, crashes, sends, late>>
  BY DEF ProcessPendingBatches, RoomFor, history
<1>2. started \subseteq S /\ \A b \in Batch : b \in started <=> b \in S /\ input[b] = "valid"
  OBVIOUS
<1> HIDE DEF started
<1>3. ASSUME NEW b \in Batch
      PROVE  /\ row'[b] \in Row /\ ckpt'[b] \in [Item -> Checkpoint] /\ loop'[b] \in Loop
             /\ loop'[b].pc # "none" <=> loop[b].pc # "none" \/ b \in started
             /\ Sound(row'[b], ckpt'[b], lines[b], loop'[b], sends[b], late[b])
  <2>1. CASE b \in started
    <3> DEFINE K == EnsureBatchItemCheckpoints(b)
               L == [NoLoop EXCEPT !.pc = "top", !.seen = K]
               R == StartedRow(b, Recovered(b))
    <3>1. Recovered(b).status = "validating" /\ input[b] = "valid" /\ b \in S
      BY <1>1, <1>2, <2>1 DEF Validating
    <3>2. /\ K \in [Item -> Checkpoint] /\ L \in Loop /\ R \in Row /\ L.pc # "none"
          /\ Sound(R, K, lines[b], L, sends[b], late[b])
      BY <3>1, StartedSound
    <3>3. row'[b] = R
      BY <1>1, <3>1 DEF Polled
    <3>4. ckpt'[b] = K
      BY <1>1, <2>1
    <3>5. loop'[b] = L
      BY <1>1, <2>1, <3>4
    <3> HIDE DEF K, L, R
    <3>. QED
      BY <2>1, <3>2, <3>3, <3>4, <3>5
  <2>2. CASE b \notin started
    <3>1. row'[b] = Polled(b, S) /\ ckpt'[b] = ckpt[b] /\ loop'[b] = loop[b]
      BY <1>1, <2>2
    <3>2. Polled(b, S) \in Row /\ Sound(Polled(b, S), ckpt[b], lines[b], loop[b], sends[b], late[b])
      BY <1>1, <1>2, <2>2, PolledSound
    <3>. QED
      BY <2>2, <3>1, <3>2, BatchFacts
  <2>. QED
    BY <2>1, <2>2
<1>4. /\ lines \in [Batch -> 0..MaxItems] /\ age \in [Batch -> 0..2] /\ cached \in BOOLEAN
      /\ sends \in [Batch -> [Item -> Nat]] /\ late \in [Batch -> Nat]
      /\ crashes \in 0..MaxCrashes /\ active \subseteq Batch
      /\ input \in [Batch -> {"valid", "invalid", "missing"}]
  BY DEF IInv, TypeOK
<1>5. /\ row' \in [Batch -> Row] /\ ckpt' \in [Batch -> [Item -> Checkpoint]]
      /\ loop' \in [Batch -> Loop] /\ input' \in [Batch -> {"valid", "invalid", "missing"}]
      /\ active' \subseteq Batch
  <2>1. row' \in [Batch -> Row]
    BY <1>1, <1>3
  <2>2. ckpt' \in [Batch -> [Item -> Checkpoint]]
    BY <1>1, <1>3
  <2>3. loop' \in [Batch -> Loop]
    BY <1>1, <1>3
  <2>4. input' \in [Batch -> {"valid", "invalid", "missing"}]
    BY <1>1, <1>4
  <2>. QED
    BY <1>1, <1>2, <1>4, <2>1, <2>2, <2>3, <2>4
<1>6. TypeOK'
  BY <1>1, <1>4, <1>5 DEF TypeOK
<1>7. BatchesOK'
  BY <1>1, <1>3 DEF BatchesOK
<1>8. active' = {b \in Batch : loop'[b].pc # "none"}
  <2>1. active = {b \in Batch : loop[b].pc # "none"}
    BY DEF IInv, PoolOK
  <2>2. \A b \in Batch : b \in active' <=> loop'[b].pc # "none"
    BY <1>1, <1>3, <2>1
  <2>. QED
    BY <1>5, <2>2
<1>9. Cardinality(active') <= MaxConcurrent
  <2>1. IsFiniteSet(active) /\ IsFiniteSet(S) /\ IsFiniteSet(started)
    BY <1>2, <1>4, BatchAssumption, FS_Subset
  <2>2. /\ Cardinality(active) \in Nat /\ Cardinality(S) \in Nat /\ Cardinality(started) \in Nat
        /\ Cardinality(started) <= Cardinality(S)
    BY <1>2, <2>1, FS_Subset, FS_CardinalityType
  <2>3. Cardinality(active \cup started) <= Cardinality(active) + Cardinality(started)
    <3>1. IsFiniteSet(active \cap started)
      BY <2>1, FS_Subset
    <3>2. Cardinality(active \cap started) \in Nat
      BY <3>1, FS_CardinalityType
    <3>3. Cardinality(active \cup started)
             = Cardinality(active) + Cardinality(started) - Cardinality(active \cap started)
      BY <2>1, FS_Union
    <3>. QED
      BY <2>2, <3>2, <3>3
  <2>4. Cardinality(active) <= MaxConcurrent /\ MaxConcurrent \in Nat
    BY BatchAssumption DEF IInv, PoolOK
  <2>5. Cardinality(active) + Cardinality(S) <= MaxConcurrent
    <3>1. \/ Cardinality(active) + Cardinality(S) = MaxConcurrent
          \/ Cardinality(active) + Cardinality(S) < MaxConcurrent
          \/ Cardinality(active) > MaxConcurrent
      BY DEF ProcessPendingBatches, RoomFor
    <3>. QED
      BY <2>2, <2>4, <3>1
  <2>6. IsFiniteSet(active \cup started)
    BY <2>1, FS_Union
  <2>7. Cardinality(active \cup started) \in Nat
    BY <2>6, FS_CardinalityType
  <2>8. active' = active \cup started
    BY <1>1
  <2>. QED
    BY <2>2, <2>3, <2>4, <2>5, <2>7, <2>8
<1>. QED
  BY <1>6, <1>7, <1>8, <1>9 DEF IInv, PoolOK

-----------------------------------------------------------------------------
(* The theorems.                                                           *)

\* Nothing is created, nothing runs.
LEMMA InitIInv == Init => IInv
<1> SUFFICES ASSUME Init
             PROVE  IInv
  OBVIOUS
<1>1. MaxItems \in Nat /\ MaxRetries \in Nat /\ MaxConcurrent \in Nat /\ MaxCrashes \in Nat
  BY BatchAssumption
<1>2. 1 \in 1..(MaxItems + 1) /\ 0 \in 0..MaxItems /\ 0 \in 0..MaxRetries /\ 0 \in 0..MaxCrashes
  BY <1>1
<1>3. NoLoop \in Loop /\ NoLoop.pc = "none"
  BY <1>2 DEF NoLoop, Loop, Checkpoint
<1>4. NoRow("unborn") \in Row /\ NoRow("unborn").status = "unborn"
  BY <1>2 DEF NoRow, Row, Status
<1>5. TypeOK
  <2>1. /\ row \in [Batch -> Row] /\ loop \in [Batch -> Loop]
        /\ ckpt \in [Batch -> [Item -> Checkpoint]]
    BY <1>3, <1>4 DEF Init, Checkpoint
  <2>2. /\ input \in [Batch -> {"valid", "invalid", "missing"}]
        /\ lines \in [Batch -> 0..MaxItems] /\ age \in [Batch -> 0..2]
        /\ sends \in [Batch -> [Item -> Nat]] /\ late \in [Batch -> Nat]
    BY <1>2 DEF Init
  <2>. QED
    BY <1>2, <2>1, <2>2 DEF Init, TypeOK
<1>6. PoolOK
  <2>1. {b \in Batch : loop[b].pc # "none"} = {}
    BY <1>3 DEF Init
  <2>2. Cardinality({}) = 0
    BY FS_EmptySet
  <2>. QED
    BY <1>1, <2>1, <2>2 DEF PoolOK, Init
<1>7. BatchesOK
  <2> SUFFICES ASSUME NEW b \in Batch
               PROVE  Sound(row[b], ckpt[b], lines[b], loop[b], sends[b], late[b])
    BY DEF BatchesOK
  <2>1. /\ row[b].status = "unborn" /\ loop[b].pc = "none" /\ late[b] = 0
        /\ \A i \in Item : ckpt[b][i] = "absent" /\ sends[b][i] = 0
    BY <1>3, <1>4 DEF Init
  <2>. QED
    BY <2>1 DEF Sound
<1>. QED
  BY <1>5, <1>6, <1>7 DEF IInv

\* One case per action.
LEMMA NextIInv == IInv /\ [Next]_vars => IInv'
<1> SUFFICES ASSUME IInv, [Next]_vars
             PROVE  IInv'
  OBVIOUS
<1>1. CASE UNCHANGED vars
  BY <1>1 DEF vars, IInv, TypeOK, PoolOK, BatchesOK
<1>2. CASE \E b \in Batch : Client(b) \/ TimePasses(b)
  BY <1>2, CreateBatchStep, CancelBatchStep, DeleteBatchStep, OutsideStep DEF Client
<1>3. CASE \E b \in Batch : LoopStep(b)
  BY <1>3, SettleStep, ThrottleStep, SendItemStep, RetryStep, EndEarlyStep,
     MarkFinalizingStep, PersistCountsStep, CompleteBatchStep DEF LoopStep
<1>4. CASE Poll
  BY <1>4, PollStep DEF Poll
<1>5. CASE Crash
  BY <1>5, CrashStep
<1>. QED
  BY <1>1, <1>2, <1>3, <1>4, <1>5 DEF Next

\* The inductive invariant holds in every state.
THEOREM Invariance == Spec => []IInv
  BY InitIInv, NextIInv, PTL DEF Spec

\* Rows, checkpoints and loops have their types: counts stay within the lines
\* of a file and attempts within the ceiling of retries.
THEOREM TypeCorrect == Spec => []TypeOK
<1>1. IInv => TypeOK
  BY DEF IInv
<1>. QED
  BY <1>1, Invariance, PTL

\* No item is sent twice, but after the provider has refused it: however often
\* the process dies and recovers its batches (applyRecoveredCheckpoint).
THEOREM NoDuplicateWork == Spec => []DispatchedOnce
<1>1. IInv => DispatchedOnce
  BY DEF IInv, BatchesOK, Sound, DispatchedOnce
<1>. QED
  BY <1>1, Invariance, PTL

\* Every active batch has one loop, there is room for it, and its row is one
\* that no poll recovers, starts or expires (processPendingBatches).
THEOREM LoopsOwn == Spec => []LoopOwnsBatch
<1>1. ASSUME IInv
      PROVE  LoopOwnsBatch
  <2>1. active = {b \in Batch : loop[b].pc # "none"} /\ Cardinality(active) <= MaxConcurrent
    BY <1>1 DEF IInv, PoolOK
  <2>2. ASSUME NEW b \in active
        PROVE  row[b].status \in {"in_progress", "cancelling", "cancelled", "deleted"}
                                 \cup (IF loop[b].pc \in {"counting", "completing"}
                                       THEN {"finalizing"} ELSE {})
    <3>1. b \in Batch /\ loop[b].pc # "none"
      BY <2>1
    <3>2. Sound(row[b], ckpt[b], lines[b], loop[b], sends[b], late[b])
      BY <1>1, <3>1, BatchFacts
    <3>3. Owned(row[b], loop[b])
      BY <3>1, <3>2 DEF Sound, Running
    <3>. QED
      BY <3>3 DEF Owned, Cancelled
  <2>. QED
    BY <2>1, <2>2 DEF LoopOwnsBatch
<1>. QED
  BY <1>1, Invariance, PTL

\* A cancelled batch sends one more item at most (processBatchItems after its
\* throttling sleep).
THEOREM CancelStops == Spec => []CancelStopsDispatch
<1>1. IInv => CancelStopsDispatch
  BY DEF IInv, BatchesOK, Sound, CancelStopsDispatch
<1>. QED
  BY <1>1, Invariance, PTL

\* A completed batch accounts for every line of its input, in however many
\* runs of the process it was finished (finalizeBatch).
THEOREM CompletedWhole == Spec => []CompletedIsWhole
<1>1. ASSUME IInv
      PROVE  CompletedIsWhole
  <2> SUFFICES ASSUME NEW b \in Batch, row[b].status = "completed"
               PROVE  /\ row[b].total = lines[b]
                      /\ row[b].completed = Cardinality({i \in Item : ckpt[b][i] \in {"ok"}})
                      /\ row[b].failed
                            = Cardinality({i \in Item : ckpt[b][i] \in {"bad", "errored"}})
                      /\ row[b].completed + row[b].failed = row[b].total
                      /\ row[b].output = (row[b].completed > 0)
                      /\ row[b].errors = (row[b].failed > 0)
    BY DEF CompletedIsWhole
  <2>1. Whole(row[b], ckpt[b], lines[b])
    BY <1>1, BatchFacts DEF Sound
  <2>. QED
    BY <2>1 DEF Whole
<1>. QED
  BY <1>1, Invariance, PTL
=============================================================================
