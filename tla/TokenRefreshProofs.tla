------------------------- MODULE TokenRefreshProofs -------------------------
(***************************************************************************)
(* Proofs about TokenRefresh, for every set of connections and callers.    *)
(*                                                                         *)
(* The types are not inductive: a caller's token must be a real one for    *)
(* its look-up in the rotation map to mean something, and a refresh that   *)
(* keeps the lane for the settle gap must carry the successor of the token *)
(* it presented, or the map would lead a stale caller astray.              *)
(***************************************************************************)
EXTENDS TokenRefresh, QueueFacts

Row     == [token : 0 .. MaxGen, life : Lives, active : BOOLEAN]
Entry   == [pc : {"none", "lane", "post", "spacing"},
            owner : Callers \cup {"none"}, presented : 0 .. MaxGen,
            expected : 0 .. MaxGen, result : Results]
Holds   == [pc : {"idle", "loaded", "waiting", "backoff"},
            token : 0 .. MaxGen, attempted : 0 .. MaxGen,
            attempt : 0 .. MaxAttempts - 1, persisted : BOOLEAN]
Breaker == [failures : 0 .. BreakerAfter, blocked : BOOLEAN]

\* Every variable has its type.
Types ==
  /\ db \in [Conns -> Row]
  /\ provider \in [Conns -> [issued : Gens, revoked : BOOLEAN]]
  /\ rotation \in [Conns -> [Gens -> 0 .. MaxGen]]
  /\ refresh \in [Conns -> Entry]
  /\ caller \in [Callers -> Holds]
  /\ breaker \in Breaker
  /\ received \in [Conns -> Gens]

\* The rotation map leads from a token to its successor.
MapOK == \A c \in Conns, g \in Gens : rotation[c][g] \in {0, g + 1}

\* The lane holds the refreshes in the mutex, once each, and its head alone
\* is at the provider or in the settle gap.
LaneOK ==
  /\ lane \in Seq(Conns)
  /\ Distinct(lane)
  /\ Elements(lane) = {c \in Conns : refresh[c].pc # "none"}
  /\ \A c \in Conns : refresh[c].pc \in {"post", "spacing"} => Head(lane) = c

\* A caller at work holds a token, and one that waits has a refresh to wait for.
CallersOK ==
  \A k \in Callers :
    /\ caller[k].pc # "idle" => caller[k].token \in Gens
    /\ caller[k].pc = "waiting" => refresh[ConnOf[k]].pc # "none"

\* Tokens r, if r is tokens, are the successor of g.
Succeeds(r, g) == r.kind = "tokens" => g \in Gens /\ r.gen = g + 1

\* A refresh that keeps the lane carries the successor of what it presented.
SpacingOK ==
  \A c \in Conns : refresh[c].pc = "spacing" => Succeeds(refresh[c].result, refresh[c].presented)

IInv ==
  /\ Types
  /\ MapOK
  /\ LaneOK
  /\ CallersOK
  /\ SpacingOK
  /\ RefreshOwnsRow

-----------------------------------------------------------------------------
(* The types of the operators.                                             *)

\* The bounds are numbers and admit the values the initial records hold.
LEMMA Numbers ==
  /\ MaxGen \in Nat /\ MaxAttempts \in Nat /\ BreakerAfter \in Nat
  /\ 0 \in 0 .. MaxGen /\ 0 \in 0 .. MaxAttempts - 1 /\ 0 \in 0 .. BreakerAfter
  /\ BreakerAfter \in 0 .. BreakerAfter
  /\ 1 \in Gens /\ Gens \subseteq 0 .. MaxGen /\ 0 \notin Gens
  /\ \A g \in 0 .. MaxGen : g # 0 => g \in Gens
  BY ConstantsAssumption DEF Gens

\* The constant records are of their types.
LEMMA RecordsTyped ==
  /\ Null \in Results /\ Error \in Results /\ \A g \in Gens : Tokens(g) \in Results
  /\ Idle \in Holds /\ Idle.pc = "idle"
  /\ NoEntry \in Entry /\ NoEntry.pc = "none"
<1>1. Null \in Results /\ Error \in Results /\ \A g \in Gens : Tokens(g) \in Results
  BY DEF Results
<1>2. Idle \in Holds /\ Idle.pc = "idle"
  BY Numbers DEF Idle, Holds
<1>3. NoEntry \in Entry /\ NoEntry.pc = "none"
  BY <1>1, Numbers DEF NoEntry, Entry
<1> QED BY <1>1, <1>2, <1>3

\* An answer that is tokens carries a real one.
LEMMA ResultFacts ==
  ASSUME NEW r \in Results
  PROVE  r.kind = "tokens" => r.gen \in Gens
  BY DEF Results, Null, Error, Tokens

\* Writing an answer to a row leaves a row.
LEMMA WrittenTyped ==
  ASSUME NEW row \in Row, NEW g \in Gens
  PROVE  Written(row, g) \in Row
<1>1. g \in 0 .. MaxGen
  BY Numbers
<1> QED BY <1>1 DEF Written, Row, Lives

\* Deactivating a row leaves a row.
LEMMA DeactivatedTyped ==
  ASSUME NEW row \in Row, NEW ks
  PROVE  Deactivated(row, ks) \in Row
<1>1. 0 \in 0 .. MaxGen
  BY Numbers
<1> QED BY <1>1 DEF Deactivated, Row

\* Whatever the callers do with an answer leaves a row.
LEMMA RowAfterTyped ==
  ASSUME NEW row \in Row, NEW o, NEW x, NEW ks, NEW r \in Results
  PROVE  RowAfter(row, o, x, ks, r) \in Row
<1>1. CASE r.kind = "tokens"
  <2>1. r.gen \in Gens
    BY <1>1, ResultFacts
  <2>2. Written(row, r.gen) \in Row /\ Written(Written(row, r.gen), r.gen) \in Row
    BY <2>1, WrittenTyped
  <2> QED BY <1>1, <2>2 DEF RowAfter
<1>2. CASE r.kind = "error"
  BY <1>2, DeactivatedTyped DEF RowAfter
<1>3. CASE r.kind # "tokens" /\ r.kind # "error"
  BY <1>3 DEF RowAfter
<1> QED BY <1>1, <1>2, <1>3

\* A caller that got its answer is done, or sleeps with the token it had.
LEMMA AfterAnswerTyped ==
  ASSUME NEW k \in Callers, NEW r, caller[k] \in Holds
  PROVE  /\ AfterAnswer(k, r) \in Holds
         /\ AfterAnswer(k, r).pc \in {"idle", "backoff"}
         /\ AfterAnswer(k, r).pc # "idle" => AfterAnswer(k, r).token = caller[k].token
<1>1. CASE r = Null /\ Retries(k)
  <2>1. caller[k].attempt \in 0 .. MaxAttempts - 1 /\ caller[k].attempt + 1 < MaxAttempts
    BY <1>1 DEF Retries, Holds
  <2>2. caller[k].attempt + 1 \in 0 .. MaxAttempts - 1
    BY <2>1, Numbers
  <2>3. AfterAnswer(k, r) = [caller[k] EXCEPT !.pc = "backoff", !.attempt = @ + 1]
    BY <1>1 DEF AfterAnswer
  <2> QED BY <2>2, <2>3 DEF Holds
<1>2. CASE ~(r = Null /\ Retries(k))
  BY <1>2, RecordsTyped DEF AfterAnswer
<1> QED BY <1>1, <1>2

\* Counting n failures leaves a breaker.
LEMMA RecordFailureTyped ==
  ASSUME NEW n \in Nat, breaker \in Breaker
  PROVE  RecordFailure(n) \in Breaker
<1> DEFINE total == IF breaker.failures + n < BreakerAfter
                    THEN breaker.failures + n ELSE BreakerAfter
<1>1. breaker.failures \in 0 .. BreakerAfter /\ breaker.blocked \in BOOLEAN
  BY DEF Breaker
<1>2. total \in 0 .. BreakerAfter
  BY <1>1, Numbers
<1>3. (breaker.blocked \/ (n > 0 /\ total = BreakerAfter)) \in BOOLEAN
  BY <1>1
<1> HIDE DEF total
<1> QED BY <1>2, <1>3 DEF RecordFailure, Breaker, total

\* Recording what became of a refresh leaves a breaker.
LEMMA RecordOutcomeTyped ==
  ASSUME NEW ks \in SUBSET Callers, NEW r, breaker \in Breaker
  PROVE  RecordOutcome(ks, r) \in Breaker
<1> DEFINE failed == {k \in {k \in ks : KindOf[k] = "reactive"} : ~Retries(k)}
<1>1. Cardinality(failed) \in Nat
  <2>1. failed \subseteq Callers
    OBVIOUS
  <2> QED BY <2>1, ConstantsAssumption, FS_Subset, FS_CardinalityType
<1>2. RecordSuccess \in Breaker
  BY Numbers DEF RecordSuccess, Breaker
<1>3. RecordFailure(Cardinality(failed)) \in Breaker
  BY <1>1, RecordFailureTyped
<1> QED BY <1>2, <1>3 DEF RecordOutcome

\* The check before the first attempt leaves a breaker.
LEMMA CheckedByTyped ==
  ASSUME NEW k, breaker \in Breaker
  PROVE  CheckedBy(k) \in Breaker
<1>1. RecordSuccess \in Breaker
  BY Numbers DEF RecordSuccess, Breaker
<1> QED BY <1>1 DEF CheckedBy, Checked

-----------------------------------------------------------------------------
(* The inductive invariant.                                                *)

\* The lane in terms of the facts about queues.
LEMMA LaneTerms ==
  ASSUME NEW q \in Seq(Conns)
  PROVE  /\ IsInjective(q) <=> Distinct(q)
         /\ Range(q) = Elements(q)
  BY LenProperties DEF IsInjective, Distinct, Range, Elements

\* The inductive invariant implies the types.
LEMMA IInvTypes ==
  ASSUME IInv
  PROVE  TypeOK
<1>1. IsInjective(lane) /\ Range(lane) = Elements(lane)
  BY LaneTerms DEF IInv, LaneOK
<1>2. /\ Range(lane) = {c \in Conns : refresh[c].pc # "none"}
      /\ \A c \in Conns : refresh[c].pc \in {"post", "spacing"} => Head(lane) = c
  BY <1>1 DEF IInv, LaneOK
<1>3. \A k \in Callers : caller[k].pc = "waiting" => refresh[ConnOf[k]].pc # "none"
  BY DEF IInv, CallersOK
<1> QED BY <1>1, <1>2, <1>3 DEF IInv, Types, MapOK, TypeOK, Row, Entry, Holds, Breaker

\* The initial state satisfies the invariant.
LEMMA InitIInv ==
  ASSUME Init
  PROVE  IInv
<1>1. Types
  <2>1. \A c \in Conns : db[c] = [token |-> 1, life |-> FirstLife[c], active |-> TRUE]
    BY DEF Init
  <2>2. \A c \in Conns : [token |-> 1, life |-> FirstLife[c], active |-> TRUE] \in Row
    BY Numbers, ConstantsAssumption DEF Row
  <2>3. breaker \in Breaker
    BY Numbers DEF Init, Breaker
  <2> QED BY <2>2, <2>3, Numbers, RecordsTyped DEF Init, Types
<1>2. MapOK
  BY DEF Init, MapOK
<1>3. \A c \in Conns : refresh[c].pc = "none"
  BY RecordsTyped DEF Init
<1>4. LaneOK
  <2>1. lane = << >>
    BY DEF Init
  <2> QED BY <2>1, <1>3, EmptyQueueFacts DEF LaneOK
<1>5. CallersOK
  BY RecordsTyped DEF Init, CallersOK
<1> QED BY <1>1, <1>2, <1>3, <1>4, <1>5 DEF IInv, SpacingOK, RefreshOwnsRow

\* A step that leaves the refreshes, the lane and the map alone, and the
\* tokens of the rows under refresh.
LEMMA OutsideStep ==
  ASSUME IInv, UNCHANGED <<provider, rotation, lane, refresh, received>>,
         db' \in [Conns -> Row], caller' \in [Callers -> Holds], breaker' \in Breaker,
         \A c \in Conns : refresh[c].pc # "none" => db'[c].token = db[c].token,
         CallersOK'
  PROVE  IInv'
<1>1. Types'
  BY DEF IInv, Types
<1>2. MapOK' /\ LaneOK' /\ SpacingOK'
  BY DEF IInv, MapOK, LaneOK, SpacingOK
<1>3. RefreshOwnsRow'
  BY DEF IInv, RefreshOwnsRow
<1> QED BY <1>1, <1>2, <1>3 DEF IInv

\* A step of one caller that leaves the rows alone as well.
LEMMA CallerStep ==
  ASSUME IInv, UNCHANGED <<db, provider, rotation, lane, refresh, received>>,
         NEW k \in Callers, NEW h \in Holds, caller' = [caller EXCEPT ![k] = h],
         h.pc # "idle" => h.token \in Gens,
         h.pc = "waiting" => refresh[ConnOf[k]].pc # "none",
         breaker' \in Breaker
  PROVE  IInv'
<1>1. caller \in [Callers -> Holds] /\ db \in [Conns -> Row]
  BY DEF IInv, Types
<1>2. caller' \in [Callers -> Holds] /\ caller'[k] = h
      /\ \A j \in Callers \ {k} : caller'[j] = caller[j]
  BY <1>1
<1>3. CallersOK'
  BY <1>2 DEF IInv, CallersOK
<1> QED BY <1>1, <1>2, <1>3, OutsideStep


-----------------------------------------------------------------------------
(* The steps of the callers.                                               *)

\* What a caller holds, and the breaker, under the invariant.
LEMMA CallerFacts ==
  ASSUME IInv, NEW k \in Callers
  PROVE  /\ caller[k] \in Holds /\ breaker \in Breaker
         /\ ConnOf[k] \in Conns /\ db[ConnOf[k]] \in Row
         /\ refresh[ConnOf[k]] \in Entry
         /\ caller[k].pc # "idle" => caller[k].token \in Gens
  BY ConstantsAssumption DEF IInv, Types, CallersOK

\* Taking up the row's credentials.
LEMMA LoadStep ==
  ASSUME IInv, NEW k \in Callers, Load(k)
  PROVE  IInv'
<1> DEFINE t == db[ConnOf[k]].token
           h == [Idle EXCEPT !.pc = "loaded", !.token = t, !.attempted = t]
<1>1. t \in 0 .. MaxGen /\ t # 0
  BY CallerFacts DEF Load, Row
<1>2. t \in Gens
  BY <1>1, Numbers
<1> HIDE DEF t
<1>3. h \in Holds /\ h.pc = "loaded" /\ h.token = t
  BY <1>1, RecordsTyped DEF Holds
<1>4. caller' = [caller EXCEPT ![k] = h]
  BY DEF Load, t
<1>5. breaker' \in Breaker /\ UNCHANGED <<db, provider, rotation, lane, refresh, received>>
  BY CallerFacts DEF Load
<1> HIDE DEF h
<1> QED BY <1>2, <1>3, <1>4, <1>5, CallerStep

\* Going idle, with the breaker as it was.
LEMMA EndStep ==
  ASSUME IInv, NEW k \in Callers, Finish(k) \/ GivesUpBlocked(k)
  PROVE  IInv'
<1>1. /\ caller' = [caller EXCEPT ![k] = Idle]
      /\ UNCHANGED <<db, provider, rotation, lane, refresh, breaker, received>>
  BY DEF Finish, GivesUpBlocked
<1>2. breaker' \in Breaker
  BY <1>1, CallerFacts
<1> QED BY <1>1, <1>2, RecordsTyped, CallerStep

\* Giving up the wait while the refresh goes on.
LEMMA TimeoutStep ==
  ASSUME IInv, NEW k \in Callers, Timeout(k)
  PROVE  IInv'
<1> DEFINE h == AfterAnswer(k, Null)
<1>1. caller[k] \in Holds /\ breaker \in Breaker /\ caller[k].token \in Gens
  BY CallerFacts DEF Timeout
<1>2. /\ h \in Holds /\ h.pc \in {"idle", "backoff"}
      /\ h.pc # "idle" => h.token \in Gens
  BY <1>1, AfterAnswerTyped
<1>3. breaker' \in Breaker
  BY <1>1, RecordOutcomeTyped DEF Timeout
<1>4. /\ caller' = [caller EXCEPT ![k] = h]
      /\ UNCHANGED <<db, provider, rotation, lane, refresh, received>>
  BY DEF Timeout
<1> HIDE DEF h
<1> QED BY <1>2, <1>3, <1>4, CallerStep

\* Sharing the refresh in flight.
LEMMA ShareStep ==
  ASSUME IInv, NEW k \in Callers, ShareRefresh(k)
  PROVE  IInv'
<1> DEFINE h == [caller[k] EXCEPT !.pc = "waiting"]
<1>1. caller[k] \in Holds /\ breaker \in Breaker /\ caller[k].token \in Gens
  BY CallerFacts DEF ShareRefresh, Asks
<1>2. h \in Holds /\ h.pc = "waiting" /\ h.token = caller[k].token
  BY <1>1 DEF Holds
<1>3. breaker' \in Breaker
  BY <1>1, CheckedByTyped DEF ShareRefresh
<1>4. /\ caller' = [caller EXCEPT ![k] = h]
      /\ refresh[ConnOf[k]].pc # "none"
      /\ UNCHANGED <<db, provider, rotation, lane, refresh, received>>
  BY DEF ShareRefresh
<1> HIDE DEF h
<1> QED BY <1>1, <1>2, <1>3, <1>4, CallerStep

\* What the map or the row answers is a real token.
LEMMA CachedTyped ==
  ASSUME IInv, NEW k \in Callers, caller[k].pc # "idle", Cached(k) # 0
  PROVE  Cached(k) \in Gens
<1>1. caller[k].token \in Gens /\ ConnOf[k] \in Conns /\ db[ConnOf[k]] \in Row
  BY CallerFacts
<1>2. rotation[ConnOf[k]][caller[k].token] \in 0 .. MaxGen
  BY <1>1 DEF IInv, Types
<1>3. db[ConnOf[k]].token \in 0 .. MaxGen
  BY <1>1 DEF Row
<1>4. Cached(k) \in 0 .. MaxGen
  BY <1>2, <1>3, Numbers DEF Cached, LookupRotation
<1> QED BY <1>4, Numbers

\* An answer without a POST.
LEMMA CacheStep ==
  ASSUME IInv, NEW k \in Callers, AnswerFromCache(k)
  PROVE  IInv'
<1> DEFINE c == ConnOf[k]
           n == RowAfter(db[c], k, Expected(k, caller[k].attempted), {k}, Tokens(Cached(k)))
<1>1. c \in Conns /\ db \in [Conns -> Row] /\ caller \in [Callers -> Holds]
      /\ breaker \in Breaker
  BY CallerFacts DEF IInv, Types
<1>2. Tokens(Cached(k)) \in Results
  BY CachedTyped, RecordsTyped DEF AnswerFromCache, Asks
<1>3. n \in Row
  BY <1>1, <1>2, RowAfterTyped
<1>4. /\ db' = [db EXCEPT ![c] = n] \/ db' = db
      /\ refresh[c].pc = "none"
      /\ caller' = [caller EXCEPT ![k] = Idle]
      /\ breaker' = RecordSuccess \/ breaker' = breaker
      /\ UNCHANGED <<provider, rotation, lane, refresh, received>>
  BY DEF AnswerFromCache
<1> HIDE DEF n
<1>5. /\ db' \in [Conns -> Row]
      /\ \A d \in Conns : refresh[d].pc # "none" => db'[d].token = db[d].token
  BY <1>1, <1>3, <1>4
<1>6. /\ caller' \in [Callers -> Holds] /\ caller'[k].pc = "idle"
      /\ \A j \in Callers \ {k} : caller'[j] = caller[j]
  BY <1>1, <1>4, RecordsTyped
<1>7. CallersOK'
  BY <1>4, <1>6 DEF IInv, CallersOK
<1>8. breaker' \in Breaker
  <2>1. RecordSuccess \in Breaker
    BY Numbers DEF RecordSuccess, Breaker
  <2> QED BY <2>1, <1>1, <1>4
<1> QED BY <1>4, <1>5, <1>6, <1>7, <1>8, OutsideStep

\* The token a refresh presents is real, and the row's unless the row is empty.
LEMMA PresentedFacts ==
  ASSUME IInv, NEW k \in Callers, caller[k].pc # "idle"
  PROVE  Presented(k) \in Gens /\ db[ConnOf[k]].token \in {0, Presented(k)}
<1>1. caller[k].token \in Gens /\ db[ConnOf[k]].token \in 0 .. MaxGen
  BY CallerFacts DEF Row
<1> QED BY <1>1, Numbers DEF Presented, NewerInRow

\* A new refresh queues for the lane.
LEMMA BeginStep ==
  ASSUME IInv, NEW k \in Callers, BeginRefresh(k)
  PROVE  IInv'
<1> DEFINE c == ConnOf[k]
           p == Presented(k)
           x == Expected(k, caller[k].attempted)
           e == [pc |-> "lane", owner |-> k, presented |-> p, expected |-> x, result |-> Null]
           h == [caller[k] EXCEPT !.pc = "waiting", !.token = p]
<1>1. /\ c \in Conns /\ db \in [Conns -> Row] /\ caller \in [Callers -> Holds]
      /\ refresh \in [Conns -> Entry] /\ breaker \in Breaker
      /\ caller[k] \in Holds /\ caller[k].pc # "idle"
  BY CallerFacts DEF IInv, Types, BeginRefresh, Asks
<1>2. p \in Gens /\ p \in 0 .. MaxGen /\ db[c].token \in {0, p}
  BY <1>1, PresentedFacts, Numbers
<1>3. x \in 0 .. MaxGen
  BY <1>1, Numbers DEF Expected, Holds
<1>4. /\ refresh' = [refresh EXCEPT ![c] = e]
      /\ lane' = Append(lane, c)
      /\ refresh[c].pc = "none"
      /\ breaker' = CheckedBy(k)
      /\ UNCHANGED <<db, provider, rotation, received>>
  BY DEF BeginRefresh
<1>5. caller' = [caller EXCEPT ![k] = h]
  BY <1>1 DEF BeginRefresh
<1> HIDE DEF c, p, x
<1>6. e \in Entry /\ e.pc = "lane" /\ e.presented = p
  BY <1>2, <1>3, RecordsTyped DEF Entry
<1>7. h \in Holds /\ h.pc = "waiting" /\ h.token = p
  BY <1>1, <1>2 DEF Holds
<1> HIDE DEF e, h
<1>8. /\ refresh' \in [Conns -> Entry] /\ refresh'[c].pc = "lane" /\ refresh'[c].presented = p
      /\ \A d \in Conns \ {c} : refresh'[d] = refresh[d]
  BY <1>1, <1>4, <1>6
<1>9. /\ caller' \in [Callers -> Holds] /\ caller'[k].pc = "waiting" /\ caller'[k].token = p
      /\ \A j \in Callers \ {k} : caller'[j] = caller[j]
  BY <1>1, <1>5, <1>7
<1>10. breaker' \in Breaker
  BY <1>1, <1>4, CheckedByTyped
<1>11. Types' /\ MapOK'
  BY <1>1, <1>4, <1>8, <1>9, <1>10 DEF IInv, Types, MapOK
<1>12. LaneOK'
  <2>1. /\ lane \in Seq(Conns) /\ Distinct(lane)
        /\ Elements(lane) = {d \in Conns : refresh[d].pc # "none"}
        /\ \A d \in Conns : refresh[d].pc \in {"post", "spacing"} => Head(lane) = d
    BY DEF IInv, LaneOK
  <2>2. c \notin Elements(lane)
    BY <2>1, <1>4
  <2>3. /\ lane' \in Seq(Conns) /\ Distinct(lane')
        /\ lane # << >> => Head(lane') = Head(lane)
        /\ Elements(lane') = Elements(lane) \cup {c}
    BY <2>1, <2>2, <1>1, <1>4, AppendFacts
  <2>4. Elements(lane') = {d \in Conns : refresh'[d].pc # "none"}
    BY <2>1, <2>3, <1>1, <1>8
  <2>5. ASSUME NEW d \in Conns, refresh'[d].pc \in {"post", "spacing"}
        PROVE  Head(lane') = d
    <3>1. d # c /\ refresh'[d] = refresh[d]
      BY <2>5, <1>8
    <3>2. Head(lane) = d /\ d \in Elements(lane)
      BY <2>1, <2>5, <3>1
    <3> QED BY <2>1, <2>3, <3>2, ElementsFacts
  <2> QED BY <2>3, <2>4, <2>5 DEF LaneOK
<1>13. CallersOK'
  <2>1. ConnOf[k] = c /\ \A j \in Callers : ConnOf[j] \in Conns
    BY ConstantsAssumption DEF c
  <2> QED BY <2>1, <1>1, <1>2, <1>8, <1>9 DEF IInv, CallersOK
<1>14. SpacingOK' /\ RefreshOwnsRow'
  <2>1. db' = db
    BY <1>4
  <2> QED BY <2>1, <1>2, <1>8 DEF IInv, SpacingOK, RefreshOwnsRow
<1> QED BY <1>11, <1>12, <1>13, <1>14 DEF IInv

-----------------------------------------------------------------------------
(* The steps of a refresh.                                                 *)

\* A refresh that has the lane, under the invariant.
LEMMA RefreshFacts ==
  ASSUME IInv, NEW c \in Conns
  PROVE  /\ refresh[c] \in Entry /\ db[c] \in Row
         /\ refresh[c].presented \in 0 .. MaxGen /\ refresh[c].result \in Results
         /\ provider[c].issued \in Gens /\ provider[c].revoked \in BOOLEAN
<1>1. refresh[c] \in Entry /\ db[c] \in Row
      /\ provider[c] \in [issued : Gens, revoked : BOOLEAN]
  BY DEF IInv, Types
<1> QED BY <1>1 DEF Entry

\* The POST leaves when the lane is the refresh's.
LEMMA PostStep ==
  ASSUME IInv, NEW c \in Conns, Post(c)
  PROVE  IInv'
<1> DEFINE e == [refresh[c] EXCEPT !.pc = "post"]
<1>1. refresh \in [Conns -> Entry] /\ refresh[c] \in Entry
  BY DEF IInv, Types
<1>2. e \in Entry /\ e.pc = "post" /\ e.presented = refresh[c].presented
  BY <1>1 DEF Entry
<1>3. /\ refresh' = [refresh EXCEPT ![c] = e]
      /\ refresh[c].pc = "lane" /\ Head(lane) = c
      /\ UNCHANGED <<db, provider, rotation, lane, caller, breaker, received>>
  BY DEF Post
<1> HIDE DEF e
<1>4. /\ refresh' \in [Conns -> Entry]
      /\ refresh'[c].pc = "post" /\ refresh'[c].presented = refresh[c].presented
      /\ \A d \in Conns \ {c} : refresh'[d] = refresh[d]
  BY <1>1, <1>2, <1>3
<1>5. Types' /\ MapOK'
  BY <1>3, <1>4 DEF IInv, Types, MapOK
<1>6. LaneOK'
  <2>1. {d \in Conns : refresh'[d].pc # "none"} = {d \in Conns : refresh[d].pc # "none"}
    BY <1>3, <1>4
  <2> QED BY <2>1, <1>3, <1>4 DEF IInv, LaneOK
<1>7. CallersOK'
  <2>1. \A j \in Callers : ConnOf[j] \in Conns
    BY ConstantsAssumption
  <2> QED BY <2>1, <1>3, <1>4 DEF IInv, CallersOK
<1>8. SpacingOK' /\ RefreshOwnsRow'
  BY <1>3, <1>4 DEF IInv, SpacingOK, RefreshOwnsRow
<1> QED BY <1>5, <1>6, <1>7, <1>8 DEF IInv

\* The head of the lane keeps it for the settle gap.
LEMMA SpacingStep ==
  ASSUME IInv, NEW c \in Conns, NEW r \in Results, refresh[c].pc = "post",
         Succeeds(r, refresh[c].presented),
         refresh' = [refresh EXCEPT ![c].pc = "spacing", ![c].result = r],
         UNCHANGED <<db, rotation, lane, caller, breaker>>,
         provider' \in [Conns -> [issued : Gens, revoked : BOOLEAN]],
         received' \in [Conns -> Gens]
  PROVE  IInv'
<1> DEFINE e == [refresh[c] EXCEPT !.pc = "spacing", !.result = r]
<1>1. refresh \in [Conns -> Entry] /\ refresh[c] \in Entry
  BY DEF IInv, Types
<1>2. e \in Entry /\ e.pc = "spacing" /\ e.presented = refresh[c].presented /\ e.result = r
  BY <1>1 DEF Entry
<1>3. refresh' = [refresh EXCEPT ![c] = e]
  BY <1>1
<1> HIDE DEF e
<1>4. /\ refresh' \in [Conns -> Entry]
      /\ refresh'[c].pc = "spacing" /\ refresh'[c].presented = refresh[c].presented
      /\ refresh'[c].result = r
      /\ \A d \in Conns \ {c} : refresh'[d] = refresh[d]
  BY <1>1, <1>2, <1>3
<1>5. Types' /\ MapOK'
  BY <1>4 DEF IInv, Types, MapOK
<1>6. LaneOK'
  <2>1. {d \in Conns : refresh'[d].pc # "none"} = {d \in Conns : refresh[d].pc # "none"}
    BY <1>4
  <2> QED BY <2>1, <1>4 DEF IInv, LaneOK
<1>7. CallersOK'
  <2>1. \A j \in Callers : ConnOf[j] \in Conns
    BY ConstantsAssumption
  <2> QED BY <2>1, <1>4 DEF IInv, CallersOK
<1>8. SpacingOK' /\ RefreshOwnsRow'
  BY <1>4 DEF IInv, SpacingOK, RefreshOwnsRow
<1> QED BY <1>5, <1>6, <1>7, <1>8 DEF IInv

\* A recorded rotation leads to the successor.
LEMMA RotationRecorded ==
  ASSUME IInv, NEW c \in Conns, NEW r \in Results, Succeeds(r, refresh[c].presented)
  PROVE  /\ RecordRotation(c, r) \in [Conns -> [Gens -> 0 .. MaxGen]]
         /\ \A d \in Conns, g \in Gens : RecordRotation(c, r)[d][g] \in {0, g + 1}
<1> DEFINE p == refresh[c].presented
<1>1. /\ rotation \in [Conns -> [Gens -> 0 .. MaxGen]]
      /\ \A d \in Conns, g \in Gens : rotation[d][g] \in {0, g + 1}
  BY DEF IInv, Types, MapOK
<1>2. CASE r.kind = "tokens"
  <2>1. r.gen \in 0 .. MaxGen /\ r.gen = p + 1 /\ p \in Gens
    BY <1>2, ResultFacts, Numbers DEF Succeeds
  <2>2. RecordRotation(c, r) = [rotation EXCEPT ![c][p] = r.gen]
    BY <1>2 DEF RecordRotation
  <2> HIDE DEF p
  <2> QED BY <1>1, <2>1, <2>2
<1>3. CASE r.kind # "tokens"
  BY <1>1, <1>3 DEF RecordRotation
<1> QED BY <1>2, <1>3

\* What a caller holds once the refresh of c answered r.
Went(c, r, k) ==
  IF k \in Waiting(c) THEN AfterAnswer(k, r)
  ELSE IF k = refresh[c].owner /\ caller[k].pc # "idle"
          /\ Persists(refresh[c].expected, db[c], r)
  THEN [caller[k] EXCEPT !.persisted = TRUE, !.token = r.gen]
  ELSE caller[k]

\* A caller that goes on holds a token unless it is idle, and waits only if it
\* waits for another connection's refresh.
LEMMA WentFacts ==
  ASSUME IInv, NEW c \in Conns, NEW r \in Results, NEW k \in Callers
  PROVE  /\ Went(c, r, k) \in Holds
         /\ Went(c, r, k).pc # "idle" => Went(c, r, k).token \in Gens
         /\ Went(c, r, k).pc = "waiting" => caller[k].pc = "waiting" /\ ConnOf[k] # c
<1>1. caller[k] \in Holds /\ (caller[k].pc # "idle" => caller[k].token \in Gens)
  BY CallerFacts
<1>2. CASE k \in Waiting(c)
  <2>1. Went(c, r, k) = AfterAnswer(k, r) /\ caller[k].pc = "waiting"
    BY <1>2 DEF Went, Waiting
  <2> QED BY <1>1, <2>1, AfterAnswerTyped
<1>3. CASE k \notin Waiting(c)
  <2>1. caller[k].pc = "waiting" => ConnOf[k] # c
    BY <1>3 DEF Waiting
  <2>2. CASE Went(c, r, k) = caller[k]
    BY <1>1, <2>1, <2>2
  <2>3. CASE /\ Went(c, r, k) = [caller[k] EXCEPT !.persisted = TRUE, !.token = r.gen]
             /\ Persists(refresh[c].expected, db[c], r)
    <3>1. r.gen \in Gens /\ r.gen \in 0 .. MaxGen
      BY <2>3, ResultFacts, Numbers DEF Persists
    <3>2. /\ Went(c, r, k) \in Holds /\ Went(c, r, k).pc = caller[k].pc
          /\ Went(c, r, k).token = r.gen
      BY <1>1, <2>3, <3>1 DEF Holds
    <3> QED BY <2>1, <3>1, <3>2
  <2> QED BY <1>3, <2>2, <2>3 DEF Went
<1> QED BY <1>2, <1>3

\* A refresh settles.
LEMMA SettleStep ==
  ASSUME IInv, NEW c \in Conns, NEW r \in Results,
         refresh[c].pc \in {"post", "spacing"},
         Succeeds(r, refresh[c].presented), Settle(c, r),
         provider' \in [Conns -> [issued : Gens, revoked : BOOLEAN]],
         received' \in [Conns -> Gens]
  PROVE  IInv'
<1> DEFINE n == RowAfter(db[c], refresh[c].owner, refresh[c].expected, Waiting(c), r)
<1>1. /\ refresh \in [Conns -> Entry] /\ db \in [Conns -> Row] /\ breaker \in Breaker
  BY DEF IInv, Types
<1>2. /\ rotation' = RecordRotation(c, r)
      /\ db' = [db EXCEPT ![c] = n]
      /\ caller' = [k \in Callers |-> Went(c, r, k)]
      /\ breaker' = RecordOutcome(Waiting(c), r)
      /\ refresh' = [refresh EXCEPT ![c] = NoEntry]
      /\ lane' = Tail(lane)
  BY DEF Settle, Went
<1>3. n \in Row
  BY <1>1, RowAfterTyped
<1> HIDE DEF n
<1>4. db' \in [Conns -> Row] /\ \A d \in Conns \ {c} : db'[d] = db[d]
  BY <1>1, <1>2, <1>3
<1>5. /\ refresh' \in [Conns -> Entry] /\ refresh'[c].pc = "none"
      /\ \A d \in Conns \ {c} : refresh'[d] = refresh[d]
  BY <1>1, <1>2, RecordsTyped
<1>6. /\ caller' \in [Callers -> Holds]
      /\ \A k \in Callers :
           /\ caller'[k].pc # "idle" => caller'[k].token \in Gens
           /\ caller'[k].pc = "waiting" => caller[k].pc = "waiting" /\ ConnOf[k] # c
  BY <1>2, WentFacts
<1>7. breaker' \in Breaker
  BY <1>1, <1>2, RecordOutcomeTyped DEF Waiting
<1>8. /\ rotation' \in [Conns -> [Gens -> 0 .. MaxGen]]
      /\ \A d \in Conns, g \in Gens : rotation'[d][g] \in {0, g + 1}
  BY <1>2, RotationRecorded
<1>9. Types' /\ MapOK'
  BY <1>4, <1>5, <1>6, <1>7, <1>8 DEF Types, MapOK
<1>10. LaneOK'
  <2>1. /\ lane \in Seq(Conns) /\ Distinct(lane) /\ Head(lane) = c
        /\ Elements(lane) = {d \in Conns : refresh[d].pc # "none"}
        /\ \A d \in Conns : refresh[d].pc \in {"post", "spacing"} => d = c
    BY DEF IInv, LaneOK
  <2>2. lane # << >>
    BY <2>1, ElementsFacts
  <2>3. lane' \in Seq(Conns) /\ Distinct(lane') /\ Elements(lane') = Elements(lane) \ {c}
    BY <1>2, <2>1, <2>2, TailFacts
  <2>4. Elements(lane') = {d \in Conns : refresh'[d].pc # "none"}
    BY <2>1, <2>3, <1>5
  <2>5. \A d \in Conns : refresh'[d].pc \notin {"post", "spacing"}
    BY <2>1, <1>5
  <2> QED BY <2>3, <2>4, <2>5 DEF LaneOK
<1>11. CallersOK'
  <2>1. \A j \in Callers : ConnOf[j] \in Conns
    BY ConstantsAssumption
  <2> QED BY <2>1, <1>5, <1>6 DEF IInv, CallersOK
<1>12. SpacingOK' /\ RefreshOwnsRow'
  BY <1>4, <1>5 DEF IInv, SpacingOK, RefreshOwnsRow
<1> QED BY <1>9, <1>10, <1>11, <1>12 DEF IInv

\* The answer of a POST is kept for the settle gap or settles at once.
LEMMA AnsweredStep ==
  ASSUME IInv, NEW c \in Conns, NEW r \in Results, refresh[c].pc = "post",
         Succeeds(r, refresh[c].presented), Answered(c, r),
         provider' \in [Conns -> [issued : Gens, revoked : BOOLEAN]],
         received' \in [Conns -> Gens]
  PROVE  IInv'
<1>1. CASE Len(lane) > 1
  BY <1>1, SpacingStep DEF Answered
<1>2. CASE ~(Len(lane) > 1)
  BY <1>2, SettleStep DEF Answered
<1> QED BY <1>1, <1>2

\* The end of a POST, however the provider answers.
LEMMA PostEndsStep ==
  ASSUME IInv, NEW c \in Conns, PostEnds(c)
  PROVE  IInv'
<1>1. /\ provider \in [Conns -> [issued : Gens, revoked : BOOLEAN]]
      /\ received \in [Conns -> Gens]
  BY DEF IInv, Types
<1>2. refresh[c].pc = "post"
  BY DEF PostEnds, PostRotates, PostRefused, PostFails
<1>3. /\ Succeeds(Null, refresh[c].presented) /\ Succeeds(Error, refresh[c].presented)
      /\ Null \in Results /\ Error \in Results
  BY RecordsTyped DEF Succeeds, Null, Error
<1>4. CASE PostRotates(c)
  <2> DEFINE next == provider[c].issued + 1
  <2>1. /\ refresh[c].presented = provider[c].issued /\ provider[c].issued \in Gens
        /\ next <= LastGen[c] /\ LastGen[c] \in 1 .. MaxGen
    BY <1>4, RefreshFacts, ConstantsAssumption DEF PostRotates
  <2>2. next \in Gens
    BY <2>1, Numbers DEF Gens
  <2>3. Tokens(next) \in Results /\ Succeeds(Tokens(next), refresh[c].presented)
    BY <2>1, <2>2, RecordsTyped DEF Succeeds, Tokens
  <2>4. provider' = [provider EXCEPT ![c].issued = next]
    BY <1>4 DEF PostRotates
  <2>5. \/ Answered(c, Tokens(next)) /\ received' = [received EXCEPT ![c] = next]
        \/ Answered(c, Null) /\ UNCHANGED received
    BY <1>4 DEF PostRotates
  <2> HIDE DEF next
  <2>6. /\ provider' \in [Conns -> [issued : Gens, revoked : BOOLEAN]]
        /\ received' \in [Conns -> Gens]
    BY <1>1, <2>2, <2>4, <2>5
  <2> QED BY <1>2, <1>3, <2>3, <2>5, <2>6, AnsweredStep
<1>5. CASE PostRefused(c)
  <2>1. PICK b \in BOOLEAN : provider' = [provider EXCEPT ![c].revoked = b]
    BY <1>5 DEF PostRefused
  <2>2. /\ provider' \in [Conns -> [issued : Gens, revoked : BOOLEAN]]
        /\ received' \in [Conns -> Gens]
    BY <1>1, <1>5, <2>1 DEF PostRefused
  <2> QED BY <1>2, <1>3, <1>5, <2>2, AnsweredStep DEF PostRefused
<1>6. CASE PostFails(c)
  BY <1>1, <1>2, <1>3, <1>6, AnsweredStep DEF PostFails
<1> QED BY <1>4, <1>5, <1>6 DEF PostEnds

\* The settle gap is over.
LEMMA SpacingOverStep ==
  ASSUME IInv, NEW c \in Conns, SpacingOver(c)
  PROVE  IInv'
<1>1. /\ provider' \in [Conns -> [issued : Gens, revoked : BOOLEAN]]
      /\ received' \in [Conns -> Gens]
  BY DEF IInv, Types, SpacingOver
<1>2. /\ refresh[c].pc = "spacing" /\ Settle(c, refresh[c].result)
      /\ Succeeds(refresh[c].result, refresh[c].presented)
  BY DEF IInv, SpacingOK, SpacingOver
<1>3. refresh[c].result \in Results
  BY RefreshFacts
<1> QED BY <1>1, <1>2, <1>3, SettleStep

\* An access token expires.
LEMMA ExpireStep ==
  ASSUME IInv, NEW c \in Conns, Expire(c)
  PROVE  IInv'
<1>1. db \in [Conns -> Row] /\ caller \in [Callers -> Holds] /\ breaker \in Breaker
  BY DEF IInv, Types
<1>2. /\ \E life \in Lives : db' = [db EXCEPT ![c].life = life]
      /\ UNCHANGED <<provider, rotation, lane, refresh, caller, breaker, received>>
  BY DEF Expire, Lives
<1>3. db' \in [Conns -> Row] /\ \A d \in Conns : db'[d].token = db[d].token
  BY <1>1, <1>2 DEF Row
<1>4. CallersOK'
  BY <1>2 DEF IInv, CallersOK
<1> QED BY <1>1, <1>2, <1>3, <1>4, OutsideStep

\* An entry of the rotation map runs out.
LEMMA CleanupStep ==
  ASSUME IInv, NEW c \in Conns, CleanupRotationMap(c)
  PROVE  IInv'
<1>1. /\ rotation \in [Conns -> [Gens -> 0 .. MaxGen]]
      /\ \A d \in Conns, g \in Gens : rotation[d][g] \in {0, g + 1}
  BY DEF IInv, Types, MapOK
<1>2. PICK h \in Gens : rotation' = [rotation EXCEPT ![c][h] = 0]
  BY DEF CleanupRotationMap
<1>3. UNCHANGED <<db, provider, lane, refresh, caller, breaker, received>>
  BY DEF CleanupRotationMap
<1>4. /\ rotation' \in [Conns -> [Gens -> 0 .. MaxGen]]
      /\ \A d \in Conns, g \in Gens : rotation'[d][g] \in {0, g + 1}
  BY <1>1, <1>2, Numbers
<1>5. Types' /\ MapOK'
  BY <1>3, <1>4 DEF IInv, Types, MapOK
<1>6. LaneOK' /\ CallersOK' /\ SpacingOK' /\ RefreshOwnsRow'
  BY <1>3 DEF IInv, LaneOK, CallersOK, SpacingOK, RefreshOwnsRow
<1> QED BY <1>5, <1>6 DEF IInv

\* The breaker's cooldown is over.
LEMMA CooldownStep ==
  ASSUME IInv, CooldownOver
  PROVE  IInv'
<1>1. db \in [Conns -> Row] /\ caller \in [Callers -> Holds] /\ breaker \in Breaker
  BY DEF IInv, Types
<1>2. /\ breaker' = [breaker EXCEPT !.blocked = FALSE]
      /\ UNCHANGED <<db, provider, rotation, lane, refresh, caller, received>>
  BY DEF CooldownOver
<1>3. breaker' \in Breaker
  BY <1>1, <1>2 DEF Breaker
<1>4. CallersOK'
  BY <1>2 DEF IInv, CallersOK
<1> QED BY <1>1, <1>2, <1>3, <1>4, OutsideStep
-----------------------------------------------------------------------------
\* The invariant holds in every reachable state: whatever the callers, the
\* provider and the timers of tokenRefresh.ts and refreshSerializer.ts do.
THEOREM Invariance == Spec => []IInv
<1>1. Init => IInv
  BY InitIInv
<1>2. IInv /\ [Next]_vars => IInv'
  <2> SUFFICES ASSUME IInv, [Next]_vars PROVE IInv'
    OBVIOUS
  <2>1. ASSUME NEW k \in Callers, Load(k) \/ Finish(k) \/ Ask(k) \/ Timeout(k)
        PROVE  IInv'
    BY <2>1, LoadStep, EndStep, ShareStep, CacheStep, BeginStep, TimeoutStep DEF Ask
  <2>2. ASSUME NEW c \in Conns,
               Post(c) \/ PostEnds(c) \/ SpacingOver(c) \/ Expire(c) \/ CleanupRotationMap(c)
        PROVE  IInv'
    BY <2>2, PostStep, PostEndsStep, SpacingOverStep, ExpireStep, CleanupStep
  <2>3. CASE CooldownOver
    BY <2>3, CooldownStep
  <2>4. CASE UNCHANGED vars
    <3>1. UNCHANGED <<db, provider, rotation, lane, refresh, caller, breaker, received>>
      BY <2>4 DEF vars
    <3>2. db' \in [Conns -> Row] /\ caller' \in [Callers -> Holds] /\ breaker' \in Breaker
      BY <3>1 DEF IInv, Types
    <3>3. CallersOK'
      BY <3>1 DEF IInv, CallersOK
    <3> QED BY <3>1, <3>2, <3>3, OutsideStep
  <2> QED BY <2>1, <2>2, <2>3, <2>4 DEF Next
<1> QED BY <1>1, <1>2, PTL DEF Spec

\* Every variable keeps its type; the lane holds exactly the refreshes in
\* the mutex and its head alone is at the provider; a consumed token is
\* mapped to its direct successor.
THEOREM TypeCorrect == Spec => []TypeOK
<1>1. IInv => TypeOK
  BY IInvTypes
<1> QED BY <1>1, Invariance, PTL

\* While a refresh is in flight the row holds the token it presented, or was
\* cleared: nobody else writes the row between the refresh's reads and the
\* answer of its POST.
THEOREM RowOwned == Spec => []RefreshOwnsRow
<1>1. IInv => RefreshOwnsRow
  BY DEF IInv
<1> QED BY <1>1, Invariance, PTL
=============================================================================
