---------------------------- MODULE FairCostQueue ----------------------------
(***************************************************************************)
(* The bounded multi-tenant queue of open-sse/services/admission/queue.ts   *)
(* as a value and the operators on it: round robin over tenant buckets,     *)
(* skipping heads that do not fit, until a head was passed over MaxSkips    *)
(* times and reserves the capacity for itself.                              *)
(*                                                                          *)
(* A queue is a record [order, bucket, cursor, skip]: the tenants in order, *)
(* the FIFO of each, the position the round robin is at (from 0), and how   *)
(* often each request was passed over as a head.  enqueuedAtMs, which an    *)
(* entry keeps when it moves to another queue, is a relation between the    *)
(* waiting requests that the operators below are given: <<r, s>> is in it   *)
(* when r arrived before s; no two arrive in the same millisecond.  Loops   *)
(* are functions of the number of turns taken.                              *)
(***************************************************************************)
EXTENDS Integers, Sequences, FiniteSets, FiniteSetsExt

CONSTANTS Requests,    \* the requests that may be queued
          Tenants,     \* the tenants they belong to
          CostOf,      \* the cost of each request
          TenantOf,    \* the tenant of each request
          MaxSkips     \* MAX_UNFITTABLE_SKIPS

ASSUME QueueAssumption ==
  /\ IsFiniteSet(Requests)
  /\ CostOf \in [Requests -> Nat \ {0}]
  /\ TenantOf \in [Requests -> Tenants]
  /\ MaxSkips \in Nat \ {0}

EmptyQueue == [order |-> <<>>, bucket |-> [t \in Tenants |-> <<>>], cursor |-> 0,
               skip |-> [r \in Requests |-> 0]]

(* The cost of several requests: how many units they are made of.           *)
Units(r) == {r} \X (1 .. CostOf[r])
Cost(rs) == Cardinality(UNION {Units(r) : r \in rs})

(* seq without the members of S (a splice, or the deletion of map entries). *)
Without(seq, S) ==
  LET kept[n \in 0 .. Len(seq)] ==
        IF n = 0 THEN <<>>
        ELSE IF seq[n] \in S THEN kept[n - 1] ELSE Append(kept[n - 1], seq[n])
  IN  kept[Len(seq)]

Waiting(q) == UNION {Range(q.bucket[t]) : t \in Tenants}

CanAccept(q, r, maxCount, maxCost) ==
  /\ Cardinality(Waiting(q)) < maxCount
  /\ Cost(Waiting(q)) + CostOf[r] <= maxCost

Enqueue(q, r) ==
  LET t == TenantOf[r]
  IN  [q EXCEPT !.order = IF q.bucket[t] = <<>> THEN Append(@, t) ELSE @,
                !.bucket[t] = Append(@, r)]

(* The i-th bucket and its head as the round robin meets them.              *)
Turns(q)   == 0 .. Len(q.order) - 1
IndexOf(q, i) == (q.cursor + i) % Len(q.order)
HeadAt(q, i)  == Head(q.bucket[q.order[IndexOf(q, i) + 1]])

Position(seq, x) == CHOOSE p \in DOMAIN seq : seq[p] = x

(* Heads passed over too often; the oldest of them reserves capacity.       *)
Aged(q) == {i \in Turns(q) : q.skip[HeadAt(q, i)] >= MaxSkips}
Oldest(q, older) ==
  {i \in Aged(q) : \A j \in Aged(q) : <<HeadAt(q, j), HeadAt(q, i)>> \notin older}
Reserved(q, older) == CHOOSE i \in Oldest(q, older) : TRUE

Fitting(q, room) == {i \in Turns(q) : CostOf[HeadAt(q, i)] <= room}

Bug_ChoiceIgnoresReserved(q, room, older) ==
  IF Fitting(q, room) = {} THEN {} ELSE {Min(Fitting(q, room))}

(* Whose turn dequeue(room) takes: none or one.                             *)
Choice(q, room, older) ==
  IF Aged(q) # {}
  THEN LET i == Reserved(q, older)
       IN  IF CostOf[HeadAt(q, i)] <= room THEN {i} ELSE {}
  ELSE IF Fitting(q, room) = {} THEN {} ELSE {Min(Fitting(q, room))}

(* takeAt: the bucket at turn i loses its head and the round robin moves on.*)
TakeAt(q, i) ==
  LET idx  == IndexOf(q, i)
      t    == q.order[idx + 1]
      r    == Head(q.bucket[t])
      rest == [q EXCEPT !.bucket[t] = Tail(@), !.skip[r] = 0]
      n    == Len(q.order)
  IN  IF Len(q.bucket[t]) > 1
      THEN [rest EXCEPT !.cursor = (idx + 1) % n]
      ELSE [rest EXCEPT !.order = Without(@, {t}),
                        !.cursor = IF n = 1 THEN 0 ELSE idx % (n - 1)]

(* dequeue: taking a fitting head counts as a pass-over of the heads before *)
(* it, unless the head was reserved.                                        *)
Dequeue(q, i) ==
  LET passed == IF Aged(q) # {} THEN {} ELSE {HeadAt(q, j) : j \in 0 .. i - 1}
  IN  [TakeAt(q, i) EXCEPT !.skip = [r \in Requests |-> IF r \in passed THEN @[r] + 1 ELSE @[r]]]

Bug_RemoveByIdKeepsCursor(q, r) ==
  LET t   == TenantOf[r]
      out == [q EXCEPT !.bucket[t] = Without(@, {r}), !.skip[r] = 0]
  IN  IF Len(q.bucket[t]) > 1 THEN out
      ELSE [out EXCEPT !.order = Without(@, {t})]

(* removeById: a request leaves from anywhere in its bucket, and the cursor *)
(* stays at the same successor.                                             *)
RemoveById(q, r) ==
  LET t   == TenantOf[r]
      ti  == Position(q.order, t) - 1
      out == [q EXCEPT !.bucket[t] = Without(@, {r}), !.skip[r] = 0]
      n   == Len(q.order)
  IN  IF Len(q.bucket[t]) > 1 THEN out
      ELSE [out EXCEPT !.order = Without(@, {t}),
                       !.cursor = IF n = 1 THEN 0
                                  ELSE IF ti < @ THEN @ - 1
                                  ELSE IF @ >= n - 1 THEN 0 ELSE @]

Bug_DrainTurnInTurn(d, older) ==
  LET choice == Bug_ChoiceIgnoresReserved(d.queue, Cost(Requests), older)
      i      == CHOOSE j \in choice : TRUE
  IN  IF choice = {} THEN d
      ELSE [queue |-> Dequeue(d.queue, i), out |-> Append(d.out, HeadAt(d.queue, i))]

(* drain: everything, in the order dequeue gives it without a limit.  One   *)
(* turn of its loop, and the loop.                                          *)
DrainTurn(d, older) ==
  LET choice == Choice(d.queue, Cost(Requests), older)
      i      == CHOOSE j \in choice : TRUE
  IN  IF choice = {} THEN d
      ELSE [queue |-> Dequeue(d.queue, i), out |-> Append(d.out, HeadAt(d.queue, i))]

Drained(q, older) ==
  LET turn[n \in 0 .. Cardinality(Waiting(q))] ==
        IF n = 0 THEN [queue |-> q, out |-> <<>>] ELSE DrainTurn(turn[n - 1], older)
  IN  turn[Cardinality(Waiting(q))].out

(* The queue's books are in order: buckets and order agree, a request waits *)
(* once, in its tenant's bucket, and no head is passed over more than       *)
(* MaxSkips times.                                                          *)
QueueOK(q) ==
  /\ IsInjective(q.order)
  /\ \A t \in Tenants : /\ t \in Range(q.order) <=> q.bucket[t] # <<>>
                        /\ IsInjective(q.bucket[t])
                        /\ \A r \in Range(q.bucket[t]) : TenantOf[r] = t
  /\ q.cursor \in IF q.order = <<>> THEN {0} ELSE Turns(q)
  /\ q.skip \in [Requests -> 0 .. MaxSkips]
=============================================================================
