------------------------ MODULE CircuitBreakerProofs ------------------------
(***************************************************************************)
(* Proofs about CircuitBreaker, for every set of requests and of breaker   *)
(* objects, every set of option records and every bound.                   *)
(*                                                                         *)
(* Each method of the class maps a sound breaker to a sound breaker (first *)
(* part); every action replaces one object by the result of such methods   *)
(* and writes the row or leaves it (second part).  The probes of a         *)
(* HALF_OPEN period (third part) and the promise of an OPEN one (fourth    *)
(* part) relate the breakers to the requests and to the clock; each has    *)
(* an invariant of its own on top of the first one.                        *)
(***************************************************************************)
EXTENDS CircuitBreaker, FiniteSetTheorems, TLAPS

\* What StateMatchesFailures and BackoffForgotten say of one breaker or row.
Sound(x) ==
    /\ Earned(x)
    /\ NotOverdue(x)
    /\ x.state \in {"CLOSED", "DEGRADED"} => x.openCycleCount = 0

Good(b) == b \in Breaker /\ Sound(b)

\* A row that is absent was not written by anyone.
RowOwned == db.row = "absent" => rowOwner = NoObj

\* A request that is under way holds a breaker object.
HoldsObject == \A r \in Req : request[r].phase # "idle" => request[r].obj \in Obj

\* The breakers and the row.
BreakersInv ==
    /\ breaker \in [Obj -> Breaker]
    /\ registered \in Obj \cup {NoObj}
    /\ db \in Rows
    /\ rowOwner \in Obj \cup {NoObj}
    /\ \A o \in Obj : Sound(breaker[o])
    /\ Sound(db)
    /\ WriteThrough
    /\ RowOwned

\* The requests, the clock and the history.
RequestsInv ==
    /\ request \in [Req -> [phase : Phases, obj : Obj \cup {NoObj}]]
    /\ HoldsObject
    /\ now \in Nat \ {0}
    /\ probing \subseteq Req
    /\ quietUntil \in Nat

\* Options whose failure threshold a caller has configured.  The others are
\* merged, from one caller's and another's and the defaults.
ConfiguredOptions ==
    {x \in OptionRecord : \E opt \in Options : x.failureThreshold = opt.failureThreshold}

\* What callers pass to getCircuitBreaker.
Passed == Options \cup {AtGate(opt) : opt \in Options}

\* The breaker that a request holds has been configured: the default threshold
\* counts no failures.
HeldConfigured ==
    \A r \in Req : request[r].phase # "idle" => breaker[request[r].obj].options \in ConfiguredOptions

\* The inductive invariant.
IInv == BreakersInv /\ RequestsInv /\ HeldConfigured

-----------------------------------------------------------------------------
(* The methods.                                                            *)

\* Every configured threshold is positive.
LEMMA OptionsTyped ==
    ASSUME NEW opt \in OptionRecord
    PROVE  /\ opt.failureThreshold \in Nat \ {0}
           /\ opt.degradationThreshold \in Nat
    BY DEF OptionRecord

\* Some configured threshold is more than no failures at all.
LEMMA SomeThreshold == \E opt \in Options : 0 < opt.failureThreshold
<1>1. PICK opt \in Options : opt \in OptionRecord
    BY BreakerAssumption
<1> QED
    BY <1>1, OptionsTyped

\* Merging what a caller passed into the options of a breaker.
LEMMA MergedConfigured ==
    ASSUME NEW old \in OptionRecord, NEW opt \in Passed
    PROVE  Merged(old, opt) \in ConfiguredOptions
<1>1. PICK p \in Options : opt = p \/ opt = AtGate(p)
    BY DEF Passed
<1>2. p \in OptionRecord
    BY BreakerAssumption
<1>3. PICK e, m, c : /\ e = Given(old.backoffEscalationCount, opt.backoffEscalationCount)
                     /\ m = Given(old.maxBackoffMultiplier, opt.maxBackoffMultiplier)
                     /\ c = [k \in Kinds |-> Given(old.cooldownByKind[k], p.cooldownByKind[k])]
    OBVIOUS
<1>4. /\ opt.failureThreshold = p.failureThreshold
      /\ opt.cooldownByKind = p.cooldownByKind
      /\ opt.backoffEscalationCount \in {p.backoffEscalationCount, NoOverride}
      /\ opt.maxBackoffMultiplier \in {p.maxBackoffMultiplier, NoOverride}
    BY <1>1, <1>2 DEF AtGate, OptionRecord
<1>5. e \in Nat /\ m \in Nat \ {0}
    BY <1>2, <1>3, <1>4 DEF Given, OptionRecord
<1>6. /\ c \in [Kinds -> Nat \cup {NoOverride}]
      /\ \A k \in Kinds : c[k] # NoOverride => ShortestCooldown <= c[k]
    BY <1>2, <1>3 DEF Given, OptionRecord
<1>7. Merged(old, opt) = [p EXCEPT !.backoffEscalationCount = e, !.maxBackoffMultiplier = m,
                                   !.cooldownByKind = c]
    BY <1>1, <1>2, <1>3, <1>4 DEF Merged, AtGate, OptionRecord
<1>8. Merged(old, opt) \in OptionRecord
    BY <1>2, <1>5, <1>6, <1>7 DEF OptionRecord
<1>9. Merged(old, opt).failureThreshold = p.failureThreshold
    BY <1>2, <1>7 DEF OptionRecord
<1> QED
    BY <1>8, <1>9 DEF ConfiguredOptions

\* The fields of a breaker.
LEMMA BreakerFields ==
    ASSUME NEW b \in Breaker
    PROVE  /\ b.state \in States
           /\ b.failureCount \in Nat
           /\ b.lastFailureTime \in Nat
           /\ b.lastFailureKind \in Kinds \cup {NullKind}
           /\ b.openCycleCount \in Nat
           /\ b.halfOpenAllowed \in Int
           /\ b.options \in OptionRecord
    BY DEF Breaker

\* _refreshOpenState keeps a breaker sound and saves nothing but the state.
LEMMA RefreshedGood ==
    ASSUME NEW b, Good(b)
    PROVE  /\ Good(Refreshed(b))
           /\ ~CooldownOver(b) => Refreshed(b) = b
           /\ Refreshed(b).options = b.options
<1>1. CASE ~CooldownOver(b)
    BY <1>1 DEF Refreshed
<1>2. CASE CooldownOver(b)
  <2>0. b \in Breaker /\ b.state = "OPEN"
      BY <1>2 DEF Good, Breaker, CooldownOver
  <2> DEFINE c == Refreshed(b)
  <2>1. c = [b EXCEPT !.state = "HALF_OPEN", !.halfOpenAllowed = HalfOpenRequests]
      BY <1>2 DEF Refreshed
  <2>2. HalfOpenRequests \in Int
      BY BreakerAssumption
  <2>3. c \in Breaker
      BY <2>0, <2>1, <2>2 DEF Breaker, States
  <2>4. c.state = "HALF_OPEN" /\ c.failureCount = b.failureCount
          /\ c.lastFailureTime = b.lastFailureTime /\ c.options = b.options
      BY <2>0, <2>1 DEF Breaker
  <2>5. Earned(b)
      BY DEF Good, Sound
  <2>6. Sound(c)
      BY <2>0, <2>4, <2>5 DEF Sound, Earned, NotOverdue
  <2> QED
      BY <1>2, <2>3, <2>4, <2>6 DEF Good
<1> QED
    BY <1>1, <1>2

\* reset leaves a sound breaker.
LEMMA ResetGood ==
    ASSUME NEW b, Good(b)
    PROVE  Good(ResetBreaker(b)) /\ ResetBreaker(b).options = b.options
<1> DEFINE c == ResetBreaker(b)
<1>0. b \in Breaker
    BY DEF Good
<1>1. c \in Breaker
    BY <1>0 DEF ResetBreaker, Breaker, States
<1>2. c.state = "CLOSED" /\ c.failureCount = 0 /\ c.openCycleCount = 0 /\ c.options = b.options
    BY <1>0 DEF ResetBreaker, Breaker
<1>3. Sound(c)
    BY <1>2, SomeThreshold DEF Sound, Earned, NotOverdue
<1> QED
    BY <1>1, <1>2, <1>3 DEF Good

\* _onSuccess leaves a sound breaker.
LEMMA OnSuccessGood ==
    ASSUME NEW b, Good(b)
    PROVE  Good(OnSuccess(b)) /\ OnSuccess(b).options = b.options
<1>0. b \in Breaker /\ b.state \in States /\ b.failureCount \in Nat
    BY BreakerFields DEF Good
<1>1. CASE b.state = "OPEN"
  <2>1. OnSuccess(b) = ResetBreaker(b)
      BY <1>1 DEF OnSuccess
  <2> QED
      BY <2>1, ResetGood
<1>2. CASE b.state = "HALF_OPEN"
  <2> DEFINE c == OnSuccess(b)
  <2>1. c = [b EXCEPT !.state = "CLOSED", !.failureCount = 0,
                      !.lastFailureKind = NullKind, !.openCycleCount = 0]
      BY <1>2 DEF OnSuccess
  <2> HIDE DEF c
  <2>0. b \in Breaker
      BY <1>0
  <2>2. c \in Breaker
      BY ONLY <2>0, <2>1 DEF Breaker, States
  <2>3. c.state = "CLOSED" /\ c.failureCount = 0 /\ c.openCycleCount = 0 /\ c.options = b.options
      BY <1>0, <2>1 DEF Breaker
  <2>4. Sound(c)
      BY <2>3, SomeThreshold DEF Sound, Earned, NotOverdue
  <2> QED
      BY <2>2, <2>3, <2>4 DEF Good, c
<1>3. CASE b.state \in {"CLOSED", "DEGRADED"}
  <2>1. PICK n \in Nat : /\ n = (IF b.failureCount > 0 THEN b.failureCount - 1 ELSE 0)
                         /\ n <= b.failureCount
      BY <1>0
  <2>2. PICK st \in {"CLOSED", "DEGRADED"} :
            st = (IF n <= b.options.degradationThreshold THEN "CLOSED" ELSE b.state)
      BY <1>3
  <2> DEFINE c == OnSuccess(b)
  <2>3. c = [b EXCEPT !.failureCount = n, !.state = st]
      BY <1>3, <2>1, <2>2 DEF OnSuccess
  <2>4. c \in Breaker
      BY <1>0, <2>3 DEF Breaker, States
  <2>5. /\ c.state = st /\ c.failureCount = n /\ c.openCycleCount = b.openCycleCount
        /\ c.options = b.options
      BY <1>0, <2>3 DEF Breaker
  <2>6. PICK opt \in Options : b.failureCount < opt.failureThreshold
      BY <1>3 DEF Good, Sound, NotOverdue
  <2>7. n < opt.failureThreshold
      BY <2>1, <2>6, <1>0, OptionsTyped, BreakerAssumption
  <2>8. b.openCycleCount = 0
      BY <1>3 DEF Good, Sound
  <2>9. Sound(c)
      BY <2>5, <2>7, <2>8 DEF Sound, Earned, NotOverdue
  <2> QED
      BY <2>4, <2>5, <2>9 DEF Good
<1> QED
    BY <1>0, <1>1, <1>2, <1>3 DEF States

\* _onFailure leaves a sound breaker, if it was configured.
LEMMA OnFailureGood ==
    ASSUME NEW b, Good(b), b.options \in ConfiguredOptions,
           NEW kind \in Kinds \cup {NullKind}, now \in Nat \ {0}
    PROVE  Good(OnFailure(b, kind)) /\ OnFailure(b, kind).options = b.options
<1>0. /\ b \in Breaker /\ b.state \in States /\ b.failureCount \in Nat
      /\ b.options \in OptionRecord /\ b.openCycleCount \in Nat
    BY BreakerFields DEF Good
<1>1. PICK n \in Nat : n = b.failureCount + 1 /\ n > b.failureCount
    BY <1>0
<1>2. PICK st \in States : st = StateAfterFailure(b, n)
    BY <1>0 DEF StateAfterFailure, States
<1>3. PICK cy \in Nat : cy = (IF b.state = "HALF_OPEN" THEN b.openCycleCount + 1
                              ELSE b.openCycleCount)
    BY <1>0
<1> DEFINE c == OnFailure(b, kind)
<1>4. c = [b EXCEPT !.failureCount = n, !.lastFailureTime = now, !.lastFailureKind = kind,
                    !.openCycleCount = cy, !.state = st]
    BY <1>1, <1>2, <1>3 DEF OnFailure
<1>5. c \in Breaker
    BY <1>0, <1>4 DEF Breaker
<1>6. /\ c.state = st /\ c.failureCount = n /\ c.openCycleCount = cy /\ c.lastFailureTime = now
      /\ c.options = b.options
    BY <1>0, <1>4 DEF Breaker
<1>7. b.options.failureThreshold \in Nat
    BY <1>0, OptionsTyped
<1>10. PICK own \in Options : own.failureThreshold = b.options.failureThreshold
    BY DEF ConfiguredOptions
<1>8. CASE b.state \in {"OPEN", "HALF_OPEN"}
  <2>1. st = "OPEN"
      BY <1>8, <1>2 DEF StateAfterFailure
  <2>2. PICK opt \in Options : opt.failureThreshold <= b.failureCount
      BY <1>8 DEF Good, Sound, Earned
  <2>3. opt.failureThreshold <= n
      BY <2>2, <1>1, <1>0, OptionsTyped, BreakerAssumption
  <2> QED
      BY <1>5, <1>6, <2>1, <2>3 DEF Good, Sound, Earned, NotOverdue
<1>9. CASE b.state \in {"CLOSED", "DEGRADED"}
  <2>1. b.openCycleCount = 0 /\ cy = 0
      BY <1>9, <1>3 DEF Good, Sound
  <2>2. CASE n >= b.options.failureThreshold
    <3>1. st = "OPEN"
        BY <1>9, <2>2, <1>2, <1>7 DEF StateAfterFailure
    <3>2. own \in Options /\ own.failureThreshold <= n
        BY <1>0, <1>7, <1>10, <2>2
    <3>3. Earned(c)
        BY <1>6, <3>2 DEF Earned
    <3> QED
        BY <1>5, <1>6, <3>1, <3>3 DEF Good, Sound, NotOverdue
  <2>3. CASE n < b.options.failureThreshold
    <3>1. st \in {"CLOSED", "DEGRADED"}
        BY <1>9, <2>3, <1>2, <1>7 DEF StateAfterFailure
    <3> QED
        BY <1>0, <1>5, <1>6, <1>10, <2>1, <2>3, <3>1 DEF Good, Sound, Earned, NotOverdue
  <2> QED
      BY <2>2, <2>3, <1>7
<1> QED
    BY <1>0, <1>8, <1>9 DEF States

\* A call let through costs at most a probe, which the row does not hold.
LEMMA LetThroughGood ==
    ASSUME NEW b, Good(b)
    PROVE  /\ Good(LetThrough(b)) /\ Row(LetThrough(b)) = Row(b)
           /\ LetThrough(b).options = b.options
<1>0. b \in Breaker /\ b.halfOpenAllowed \in Int
    BY BreakerFields DEF Good
<1>1. CASE b.state # "HALF_OPEN"
    BY <1>1 DEF LetThrough
<1>2. CASE b.state = "HALF_OPEN"
  <2>1. PICK n \in Int : n = b.halfOpenAllowed - 1
      BY <1>0
  <2>2. PICK c : c = [b EXCEPT !.halfOpenAllowed = n] /\ c = LetThrough(b)
      BY <1>2, <2>1 DEF LetThrough
  <2>3. c \in Breaker
      BY <1>0, <2>2 DEF Breaker
  <2>4. /\ c.state = b.state /\ c.failureCount = b.failureCount
        /\ c.lastFailureTime = b.lastFailureTime
        /\ c.lastFailureKind = b.lastFailureKind
        /\ c.openCycleCount = b.openCycleCount /\ c.options = b.options
      BY <1>0, <2>2 DEF Breaker
  <2>5. Sound(c)
      BY <2>4 DEF Good, Sound, Earned, NotOverdue
  <2> QED
      BY <2>2, <2>3, <2>4, <2>5 DEF Good, Row
<1> QED
    BY <1>1, <1>2

\* A breaker restored from a sound row is sound, and the row is a copy of it.
LEMMA RestoredGood ==
    ASSUME BreakersInv
    PROVE  /\ Good(Restored)
           /\ db.row = "present" => Row(Restored) = db
<1>0. /\ db \in Rows /\ Sound(db)
      /\ db.state \in States /\ db.failureCount \in Nat /\ db.lastFailureTime \in Nat
      /\ db.lastFailureKind \in Kinds \cup {NullKind} /\ db.openCycleCount \in Nat
    BY DEF BreakersInv, Rows
<1>1. PICK h \in Int : h = (IF db.state = "HALF_OPEN" THEN HalfOpenRequests ELSE 0)
    BY BreakerAssumption
<1>2. PICK c : /\ c = Restored
               /\ c = [state |-> db.state, failureCount |-> db.failureCount,
                       lastFailureTime |-> db.lastFailureTime,
                       lastFailureKind |-> db.lastFailureKind,
                       openCycleCount |-> db.openCycleCount,
                       halfOpenAllowed |-> h, options |-> DefaultOptions]
    BY <1>1 DEF Restored
<1>3. c \in Breaker
    BY <1>0, <1>2, BreakerAssumption DEF Breaker
<1>4. /\ c.state = db.state /\ c.failureCount = db.failureCount
      /\ c.lastFailureTime = db.lastFailureTime
      /\ c.lastFailureKind = db.lastFailureKind
      /\ c.openCycleCount = db.openCycleCount
    BY <1>2
<1>5. Sound(c)
    BY <1>0, <1>4 DEF Sound, Earned, NotOverdue
<1>6. db = [row |-> db.row, state |-> db.state, failureCount |-> db.failureCount,
            lastFailureTime |-> db.lastFailureTime,
            lastFailureKind |-> db.lastFailureKind,
            openCycleCount |-> db.openCycleCount]
    BY <1>0 DEF Rows
<1>7. db.row = "present" => Row(c) = db
    BY <1>4, <1>6 DEF Row
<1> QED
    BY <1>2, <1>3, <1>5, <1>7 DEF Good

\* What getCircuitBreaker(name) returns is sound, and agrees with the row if
\* the row was written from that object's place.
LEMMA LookedUpGood ==
    ASSUME BreakersInv
    PROVE  /\ Good(LookedUp)
           /\ \A o \in Obj : Entry(o) => \/ LookedUp.options = breaker[o].options
                                       \/ \A x \in Req : request[x].obj # o
           /\ \A o \in Obj : Entry(o) /\ rowOwner = o => db = Row(LookedUp)
<1>1. CASE registered # NoObj
  <2>1. registered \in Obj /\ LookedUp = breaker[registered]
      BY <1>1 DEF BreakersInv, LookedUp
  <2>2. Good(breaker[registered])
      BY <2>1 DEF BreakersInv, Good
  <2>3. ASSUME NEW o \in Obj, Entry(o), rowOwner = o
        PROVE  db = Row(LookedUp)
      BY <1>1, <2>1, <2>3 DEF Entry, BreakersInv, WriteThrough
  <2>4. ASSUME NEW o \in Obj, Entry(o)
        PROVE  LookedUp.options = breaker[o].options
      BY <1>1, <2>1, <2>4 DEF Entry
  <2> QED
      BY <2>1, <2>2, <2>3, <2>4
<1>2. CASE registered = NoObj
  <2>1. LookedUp = Restored
      BY <1>2 DEF LookedUp
  <2>2. Good(LookedUp) /\ (db.row = "present" => Row(LookedUp) = db)
      BY <2>1, RestoredGood
  <2>3. ASSUME NEW o \in Obj, rowOwner = o
        PROVE  db.row = "present"
      BY <2>3, BreakerAssumption DEF BreakersInv, RowOwned, Rows
  <2>4. ASSUME NEW o \in Obj, Entry(o)
        PROVE  \A x \in Req : request[x].obj # o
      BY <1>2, <2>4 DEF Entry, Unused
  <2> QED
      BY <2>2, <2>3, <2>4
<1> QED
    BY <1>1, <1>2

\* What getCircuitBreaker(name, options) returns is sound.
LEMMA ConfiguredGood ==
    ASSUME BreakersInv, NEW opt \in Passed
    PROVE  /\ Good(Configured(opt)) /\ Configured(opt).options \in ConfiguredOptions
           /\ Configured(opt).state = LookedUp.state
           /\ Configured(opt).failureCount = LookedUp.failureCount
           /\ Configured(opt).lastFailureTime = LookedUp.lastFailureTime
           /\ Configured(opt).openCycleCount = LookedUp.openCycleCount
           /\ Configured(opt).halfOpenAllowed = LookedUp.halfOpenAllowed
<1>1. PICK b : b = LookedUp
    OBVIOUS
<1>2. Good(b) /\ b \in Breaker /\ b.options \in OptionRecord
    BY <1>1, LookedUpGood, BreakerFields DEF Good
<1>3. PICK m \in ConfiguredOptions : m = Merged(b.options, opt)
    BY <1>2, MergedConfigured
<1>4. m \in OptionRecord
    BY DEF ConfiguredOptions
<1>5. PICK c : c = [b EXCEPT !.options = m] /\ c = Configured(opt)
    BY <1>1, <1>3 DEF Configured
<1>6. c \in Breaker
    BY ONLY <1>2, <1>4, <1>5 DEF Breaker
<1>7. /\ c.state = b.state /\ c.failureCount = b.failureCount
      /\ c.lastFailureTime = b.lastFailureTime
      /\ c.openCycleCount = b.openCycleCount /\ c.halfOpenAllowed = b.halfOpenAllowed
      /\ c.options = m
    BY <1>2, <1>5 DEF Breaker
<1>8. Sound(c)
    BY <1>2, <1>7 DEF Good, Sound, Earned, NotOverdue
<1> QED
    BY <1>1, <1>3, <1>5, <1>6, <1>7, <1>8 DEF Good

-----------------------------------------------------------------------------
(* The steps.                                                              *)

\* The row of a sound breaker is sound.
LEMMA RowGood ==
    ASSUME NEW b, Good(b)
    PROVE  Row(b) \in Rows /\ Sound(Row(b)) /\ Row(b).row = "present"
<1>1. /\ b.state \in States /\ b.failureCount \in Nat /\ b.lastFailureTime \in Nat
      /\ b.lastFailureKind \in Kinds \cup {NullKind} /\ b.openCycleCount \in Nat
    BY BreakerFields DEF Good
<1>2. Row(b) \in Rows
    BY <1>1 DEF Row, Rows
<1>3. /\ Row(b).state = b.state /\ Row(b).failureCount = b.failureCount
      /\ Row(b).lastFailureTime = b.lastFailureTime
      /\ Row(b).openCycleCount = b.openCycleCount
      /\ Row(b).row = "present"
    BY DEF Row
<1>4. Sound(Row(b))
    BY <1>3 DEF Good, Sound, Earned, NotOverdue
<1> QED
    BY <1>2, <1>3, <1>4

\* One object is replaced by a sound one, and the row is written from it or was
\* a copy of it already.
LEMMA Replaced ==
    ASSUME BreakersInv, NEW o \in Obj, NEW b, Good(b),
           breaker' = [breaker EXCEPT ![o] = b],
           registered' = o \/ registered' = registered,
           \/ Save(o, b)
           \/ UNCHANGED <<db, rowOwner>> /\ (rowOwner = o => db = Row(b))
    PROVE  BreakersInv'
<1>1. breaker' \in [Obj -> Breaker] /\ registered' \in Obj \cup {NoObj}
    BY DEF BreakersInv, Good
<1>2. \A x \in Obj : Sound(breaker'[x])
  <2> TAKE x \in Obj
  <2>1. breaker'[x] = IF x = o THEN b ELSE breaker[x]
      BY DEF BreakersInv
  <2> QED
      BY <2>1 DEF BreakersInv, Good
<1>3. breaker'[o] = b
    BY DEF BreakersInv
<1>4. CASE Save(o, b)
  <2>1. db' = Row(b) /\ rowOwner' = o
      BY <1>4 DEF Save
  <2>2. db' \in Rows /\ Sound(db') /\ db'.row = "present"
      BY <2>1, RowGood
  <2>3. WriteThrough'
      BY <1>3, <2>1 DEF WriteThrough
  <2>4. RowOwned'
      BY <2>2 DEF RowOwned
  <2> QED
      BY <1>1, <1>2, <2>1, <2>2, <2>3, <2>4 DEF BreakersInv, Sound, Earned, NotOverdue
<1>5. CASE UNCHANGED <<db, rowOwner>> /\ (rowOwner = o => db = Row(b))
  <2>1. WriteThrough'
    <3> SUFFICES ASSUME registered' # NoObj, rowOwner' = registered'
                 PROVE  db' = Row(breaker'[registered'])
        BY DEF WriteThrough
    <3>1. CASE registered' = o
        BY <1>3, <1>5, <3>1
    <3>2. CASE registered' # o
      <4>1. registered' = registered /\ breaker'[registered] = breaker[registered]
          BY <3>2 DEF BreakersInv
      <4> QED
          BY <1>5, <4>1 DEF BreakersInv, WriteThrough
    <3> QED
        BY <3>1, <3>2
  <2>2. RowOwned'
      BY <1>5 DEF BreakersInv, RowOwned
  <2>3. Sound(db')
      BY <1>5 DEF BreakersInv
  <2> QED
      BY <1>1, <1>2, <1>5, <2>1, <2>2, <2>3 DEF BreakersInv, Sound, Earned, NotOverdue
<1> QED
    BY <1>4, <1>5

\* What a request may become.
Places == {Idle} \cup {At(ph, o) : ph \in Phases, o \in Obj}

\* A request moves, or none does.
LEMMA Moved ==
    ASSUME RequestsInv,
           \/ UNCHANGED request
           \/ \E r \in Req, p \in Places : Move(r, p),
           now' = now, probing' \subseteq Req, quietUntil' \in Nat
    PROVE  RequestsInv'
<1>1. CASE UNCHANGED request
    BY <1>1 DEF RequestsInv, HoldsObject
<1>2. CASE \E r \in Req, p \in Places : Move(r, p)
  <2>1. PICK r \in Req, p \in Places : Move(r, p)
      BY <1>2
  <2>2. /\ p \in [phase : Phases, obj : Obj \cup {NoObj}]
        /\ p.phase # "idle" => p.obj \in Obj
      BY <2>1 DEF Places, Idle, At, Phases
  <2>3. request' = [request EXCEPT ![r] = p]
      BY <2>1 DEF Move
  <2>4. request' \in [Req -> [phase : Phases, obj : Obj \cup {NoObj}]]
      BY <2>2, <2>3 DEF RequestsInv
  <2>5. HoldsObject'
    <3> SUFFICES ASSUME NEW x \in Req, request'[x].phase # "idle"
                 PROVE  request'[x].obj \in Obj
        BY DEF HoldsObject
    <3>1. request'[x] = IF x = r THEN p ELSE request[x]
        BY <2>3 DEF RequestsInv
    <3> QED
        BY <2>2, <3>1 DEF RequestsInv, HoldsObject
  <2> QED
      BY <2>4, <2>5 DEF RequestsInv
<1> QED
    BY <1>1, <1>2

\* The requests' breakers stay configured when one object is replaced: by one with
\* the same options, with configured options, or one that nobody holds.  A request
\* either keeps its object or takes the replaced one, configured.
LEMMA StaysConfigured ==
    ASSUME IInv, NEW o \in Obj, NEW b, breaker' = [breaker EXCEPT ![o] = b],
           \/ b.options \in ConfiguredOptions
           \/ b.options = breaker[o].options
           \/ \A x \in Req : request[x].obj # o,
           \A x \in Req : request'[x].phase # "idle" =>
              \/ request'[x].obj = o /\ b.options \in ConfiguredOptions
              \/ request[x].phase # "idle" /\ request'[x].obj = request[x].obj
    PROVE  HeldConfigured'
<1> SUFFICES ASSUME NEW x \in Req, request'[x].phase # "idle"
             PROVE  breaker'[request'[x].obj].options \in ConfiguredOptions
    BY DEF HeldConfigured
<1>1. breaker'[o] = b /\ \A y \in Obj : y # o => breaker'[y] = breaker[y]
    BY DEF IInv, BreakersInv
<1>2. CASE request'[x].obj = o /\ b.options \in ConfiguredOptions
    BY <1>1, <1>2
<1>3. CASE request[x].phase # "idle" /\ request'[x].obj = request[x].obj
  <2>1. request[x].obj \in Obj /\ breaker[request[x].obj].options \in ConfiguredOptions
      BY <1>3 DEF IInv, RequestsInv, HoldsObject, HeldConfigured
  <2>2. CASE request[x].obj # o
      BY <1>1, <1>3, <2>1, <2>2
  <2>3. CASE request[x].obj = o
      BY <1>1, <1>3, <2>1, <2>3
  <2> QED
      BY <2>2, <2>3
<1> QED
    BY <1>2, <1>3

\* Where a request with object o may go.
Onward(o) == {Idle} \cup {At(ph, o) : ph \in Phases}

\* A request that moves ends, or has the object it moved with.
LEMMA MovedObject ==
    ASSUME RequestsInv, NEW r \in Req, NEW o \in Obj, NEW p \in Onward(o), Move(r, p)
    PROVE  /\ p \in Places
           /\ \A x \in Req : request'[x].phase # "idle" =>
                 IF x = r THEN request'[x].obj = o ELSE request'[x] = request[x]
<1>1. p \in Places /\ (p = Idle \/ p.obj = o)
    BY DEF Onward, Places, At
<1>2. \A x \in Req : request'[x] = IF x = r THEN p ELSE request[x]
    BY DEF Move, RequestsInv
<1> QED
    BY <1>1, <1>2 DEF Idle

\* They stay configured when a request moves with the object that is replaced.
LEMMA MovedConfigured ==
    ASSUME IInv, NEW r \in Req, NEW o \in Obj, NEW p \in Onward(o), Move(r, p),
           NEW b, breaker' = [breaker EXCEPT ![o] = b], b.options \in ConfiguredOptions
    PROVE  HeldConfigured'
<1>1. \A x \in Req : request'[x].phase # "idle" =>
         IF x = r THEN request'[x].obj = o ELSE request'[x] = request[x]
    BY MovedObject DEF IInv
<1>2. \A x \in Req : request'[x].phase # "idle" =>
         \/ request'[x].obj = o /\ b.options \in ConfiguredOptions
         \/ request[x].phase # "idle" /\ request'[x].obj = request[x].obj
    BY <1>1
<1> QED
    BY <1>2, StaysConfigured

\* A request under way holds an object, sound and configured.
LEMMA HeldGood ==
    ASSUME IInv, NEW r \in Req, request[r].phase # "idle"
    PROVE  /\ request[r].obj \in Obj /\ Good(breaker[request[r].obj])
           /\ breaker[request[r].obj].options \in ConfiguredOptions
<1>1. request[r].obj \in Obj
    BY DEF IInv, RequestsInv, HoldsObject
<1> QED
    BY <1>1 DEF IInv, BreakersInv, Good, HeldConfigured

\* The history variables keep their types.
LEMMA HistoryTyped ==
    ASSUME IInv, NEW o, NEW b
    PROVE  /\ ProbingAfter(o, b) \subseteq Req
           /\ Quiet(o, b) => quietUntil' \in Nat
<1>1. ProbingAfter(o, b) \subseteq Req
    BY DEF ProbingAfter, IInv, RequestsInv
<1>2. now + ShortestCooldown \in Nat
    BY BreakerAssumption DEF IInv, RequestsInv
<1>3. Quiet(o, b) => quietUntil' \in Nat
    BY <1>2 DEF Quiet
<1> QED
    BY <1>1, <1>3

\* An outcome recorded on the object of a request.
LEMMA Recorded ==
    ASSUME IInv, NEW r \in Req, request[r].phase # "idle", NEW b, Good(b), Record(r, b),
           b.options = breaker[request[r].obj].options,
           \E p \in Onward(request[r].obj) : Move(r, p)
    PROVE  IInv'
<1> DEFINE o == request[r].obj
<1>1. o \in Obj
    BY HeldGood
<1>2. BreakersInv'
    BY <1>1, Replaced DEF IInv, Record
<1>3. probing' \subseteq Req /\ quietUntil' \in Nat /\ now' = now
    BY HistoryTyped DEF Record, IInv, RequestsInv
<1>4. PICK p \in Onward(o) : Move(r, p)
    OBVIOUS
<1>5. RequestsInv'
    BY <1>1, <1>3, <1>4, Moved, MovedObject DEF IInv
<1>6. HeldConfigured'
  <2>1. breaker' = [breaker EXCEPT ![o] = b] /\ b.options \in ConfiguredOptions
      BY HeldGood DEF Record
  <2> QED
      BY <1>1, <1>4, <2>1, MovedConfigured
<1> QED
    BY <1>2, <1>5, <1>6 DEF IInv

\* The breaker is looked up, refreshed or changed otherwise, and registered.
LEMMA Touched ==
    ASSUME IInv, NEW o \in Obj, NEW b, Good(b), NEW saved \in BOOLEAN,
           Touch(o, b, saved),
           registered' = o \/ registered' = registered,
           saved \/ (rowOwner = o => db = Row(b)),
           \/ b.options \in ConfiguredOptions
           \/ b.options = breaker[o].options
           \/ \A x \in Req : request[x].obj # o,
           \/ UNCHANGED request
           \/ \E r \in Req : Move(r, Idle)
           \/ b.options \in ConfiguredOptions /\ \E r \in Req, p \in Onward(o) : Move(r, p),
           now' = now, probing' \subseteq Req, quietUntil' \in Nat
    PROVE  IInv'
<1>1. BreakersInv'
    BY Replaced DEF IInv, Touch
<1>2. breaker' = [breaker EXCEPT ![o] = b]
    BY DEF Touch
<1>3. CASE UNCHANGED request
  <2>1. RequestsInv'
      BY <1>3, Moved DEF IInv
  <2>2. HeldConfigured'
      BY <1>2, <1>3, StaysConfigured
  <2> QED
      BY <1>1, <2>1, <2>2 DEF IInv
<1>4. CASE \E r \in Req : Move(r, Idle)
  <2>1. PICK r \in Req : Move(r, Idle)
      BY <1>4
  <2>2. RequestsInv'
      BY <2>1, Moved DEF IInv, Places
  <2>3. \A x \in Req : request'[x].phase # "idle" => request'[x] = request[x]
      BY <2>1 DEF Move, Idle, IInv, RequestsInv
  <2>4. HeldConfigured'
      BY <1>2, <2>3, StaysConfigured
  <2> QED
      BY <1>1, <2>2, <2>4 DEF IInv
<1>5. CASE b.options \in ConfiguredOptions /\ \E r \in Req, p \in Onward(o) : Move(r, p)
  <2>1. PICK r \in Req, p \in Onward(o) : Move(r, p)
      BY <1>5
  <2>2. RequestsInv'
      BY <2>1, Moved, MovedObject DEF IInv
  <2>3. HeldConfigured'
      BY <1>2, <1>5, <2>1, MovedConfigured
  <2> QED
      BY <1>1, <2>2, <2>3 DEF IInv
<1> QED
    BY <1>3, <1>4, <1>5

\* A request that leaves the breaker alone.
LEMMA Untouched ==
    ASSUME IInv, NoRecord, probing' \subseteq Req,
           NEW r \in Req, request[r].phase # "idle",
           \E p \in Onward(request[r].obj) : Move(r, p)
    PROVE  IInv'
<1>1. BreakersInv'
    BY DEF IInv, BreakersInv, NoRecord, WriteThrough, RowOwned, Sound, Earned, NotOverdue
<1> DEFINE o == request[r].obj
<1>2. o \in Obj
    BY HeldGood
<1>3. PICK p \in Onward(o) : Move(r, p)
    OBVIOUS
<1>4. RequestsInv'
    BY <1>2, <1>3, Moved, MovedObject DEF IInv, RequestsInv, NoRecord
<1>5. breaker' = [breaker EXCEPT ![o] = breaker[o]]
    BY <1>2 DEF NoRecord, IInv, BreakersInv
<1>6. HeldConfigured'
    BY <1>2, <1>3, <1>5, HeldGood, MovedConfigured
<1> QED
    BY <1>1, <1>4, <1>6 DEF IInv

\* The gate of a request, forced or not, preserves the invariant.
LEMMA CheckGateStep ==
    ASSUME IInv, NEW r \in Req, NEW o \in Obj, NEW opt \in Options,
           CheckGate(r, o, opt) \/ CheckGateForced(r, o, opt)
    PROVE  IInv'
<1> DEFINE b == Configured(AtGate(opt))
<1>1. Good(b) /\ Good(Refreshed(b)) /\ Refreshed(b).options \in ConfiguredOptions
  <2>1. AtGate(opt) \in Passed
      BY DEF Passed
  <2> QED
      BY <2>1, ConfiguredGood, RefreshedGood DEF IInv
<1>2. Touch(o, Refreshed(b), TRUE) /\ registered' = o /\ now' = now
    BY DEF CheckGate, CheckGateForced
<1>3. probing' \subseteq Req /\ quietUntil' \in Nat
    BY HistoryTyped DEF CheckGate, CheckGateForced, IInv, RequestsInv
<1>4. At("ready", o) \in Onward(o) /\ At("bypassing", o) \in Onward(o)
    BY DEF Onward, Phases
<1>5. UNCHANGED request \/ \E p \in Onward(o) : Move(r, p)
    BY <1>4 DEF CheckGate, CheckGateForced
<1> QED
    BY <1>1, <1>2, <1>3, <1>5, Touched

\* execute, letting a call through, preserves the invariant: what it does to the
\* breaker without saving does not show in the row.
LEMMA ExecuteAdmittedStep ==
    ASSUME IInv, NEW r \in Req, ExecuteAdmitted(r)
    PROVE  IInv'
<1> DEFINE o == request[r].obj
           b == Refreshed(breaker[o])
           moved == CooldownOver(breaker[o])
<1>1. o \in Obj /\ Good(breaker[o])
    BY HeldGood DEF ExecuteAdmitted
<1>2. Good(b) /\ (~moved => b = breaker[o]) /\ b.options = breaker[o].options
    BY <1>1, RefreshedGood
<1>3. /\ Good(LetThrough(b)) /\ Row(LetThrough(b)) = Row(b)
      /\ LetThrough(b).options = breaker[o].options
    BY <1>2, LetThroughGood
<1>4. /\ breaker' = [breaker EXCEPT ![o] = LetThrough(b)]
      /\ IF moved THEN Save(o, LetThrough(b)) ELSE UNCHANGED <<db, rowOwner>>
      /\ registered' = registered /\ now' = now
    BY DEF ExecuteAdmitted, Touch
<1>5. ~moved /\ registered = o /\ rowOwner = o => db = Row(LetThrough(b))
  <2>1. registered = o => registered # NoObj
      BY <1>1, BreakerAssumption
  <2> QED
      BY <1>2, <1>3, <2>1 DEF IInv, BreakersInv, WriteThrough
<1>6. probing' \subseteq Req /\ quietUntil' \in Nat
    BY HistoryTyped DEF ExecuteAdmitted, IInv, RequestsInv
<1>7. At("calling", o) \in Onward(o) /\ Move(r, At("calling", o))
    BY DEF ExecuteAdmitted, Onward, Phases
<1>8. RequestsInv'
    BY <1>1, <1>4, <1>6, <1>7, Moved, MovedObject DEF IInv
<1>9. BreakersInv'
  <2>1. CASE moved
      BY <1>1, <1>3, <1>4, <2>1, Replaced DEF IInv
  <2>2. CASE ~moved /\ (registered = o \/ rowOwner # o)
      BY <1>1, <1>3, <1>4, <1>5, <2>2, Replaced DEF IInv
  <2>3. CASE ~moved /\ registered # o /\ rowOwner = o
    <3>1. breaker' \in [Obj -> Breaker]
        BY <1>1, <1>3, <1>4 DEF IInv, BreakersInv, Good
    <3>2. \A x \in Obj : Sound(breaker'[x])
      <4> TAKE x \in Obj
      <4>1. breaker'[x] = IF x = o THEN LetThrough(b) ELSE breaker[x]
          BY <1>1, <1>4 DEF IInv, BreakersInv
      <4> QED
          BY <1>3, <4>1 DEF IInv, BreakersInv, Good
    <3>3. UNCHANGED <<db, rowOwner>>
        BY <1>4, <2>3
    <3>4. WriteThrough' /\ RowOwned'
        BY <1>4, <2>3, <3>3 DEF WriteThrough, RowOwned, IInv, BreakersInv
    <3>5. Sound(db')
        BY <3>3 DEF IInv, BreakersInv
    <3> QED
        BY <1>4, <3>1, <3>2, <3>3, <3>4, <3>5
        DEF IInv, BreakersInv, Sound, Earned, NotOverdue
  <2> QED
      BY <2>1, <2>2, <2>3
<1>10. HeldConfigured'
  <2>1. request[r].phase # "idle"
      BY DEF ExecuteAdmitted
  <2>2. LetThrough(b).options \in ConfiguredOptions
      BY <1>3, <2>1, HeldGood
  <2> QED
      BY <1>1, <1>3, <1>4, <1>7, <2>2, MovedConfigured
<1> QED
    BY <1>8, <1>9, <1>10 DEF IInv

\* An outcome of the call, or of the request, preserves the invariant.
LEMMA OutcomeStep ==
    ASSUME IInv, NEW r \in Req,
           \/ \E result \in {"ok", "bad"} : CallResolves(r, result)
           \/ \E kind \in Kinds \cup {NullKind} : CallThrows(r, kind)
           \/ ServeResult(r)
           \/ TripForResult(r)
    PROVE  IInv'
<1> DEFINE o == request[r].obj
<1>1. request[r].phase # "idle"
    BY DEF CallResolves, CallThrows, ServeResult, TripForResult, Failed
<1>2. o \in Obj /\ Good(breaker[o]) /\ breaker[o].options \in ConfiguredOptions
    BY <1>1, HeldGood
<1>3. Good(OnSuccess(breaker[o])) /\ OnSuccess(breaker[o]).options = breaker[o].options
    BY <1>2, OnSuccessGood
<1>4. \A kind \in Kinds \cup {NullKind} :
         Good(OnFailure(breaker[o], kind)) /\ OnFailure(breaker[o], kind).options = breaker[o].options
    BY <1>2, OnFailureGood DEF IInv, RequestsInv
<1>5. Idle \in Onward(o) /\ \A ph \in Phases : At(ph, o) \in Onward(o)
    BY DEF Onward
<1>6. \E p \in Onward(o) : Move(r, p)
    BY <1>5 DEF CallResolves, CallThrows, ServeResult, TripForResult, Phases
<1>7. Record(r, OnSuccess(breaker[o]))
        \/ \E kind \in Kinds \cup {NullKind} : Record(r, OnFailure(breaker[o], kind))
    BY DEF CallResolves, CallThrows, ServeResult, TripForResult
<1> QED
    BY <1>1, <1>3, <1>4, <1>6, <1>7, Recorded

\* A request that moves on without an outcome preserves the invariant.
LEMMA NoOutcomeStep ==
    ASSUME IInv, NEW r \in Req,
           \/ ExecuteRefused(r)
           \/ CallThrowsIgnored(r)
           \/ BypassedCallEnds(r)
           \/ TryNextAccount(r)
           \/ ReturnResult(r)
    PROVE  IInv'
<1> DEFINE o == request[r].obj
<1>1. request[r].phase # "idle"
    BY DEF ExecuteRefused, CallThrowsIgnored, BypassedCallEnds, TryNextAccount, ReturnResult, Failed
<1>2. Idle \in Onward(o) /\ \A ph \in Phases : At(ph, o) \in Onward(o)
    BY DEF Onward
<1>3. \E p \in Onward(o) : Move(r, p)
    BY <1>2 DEF ExecuteRefused, CallThrowsIgnored, BypassedCallEnds, TryNextAccount,
                ReturnResult, Phases
<1>4. NoRecord /\ probing' \subseteq Req
    BY DEF ExecuteRefused, CallThrowsIgnored, BypassedCallEnds, TryNextAccount,
           ReturnResult, IInv, RequestsInv
<1> QED
    BY <1>1, <1>3, <1>4, Untouched

\* recordProviderSuccess preserves the invariant.
LEMMA RecordProviderSuccessStep ==
    ASSUME IInv, NEW r \in Req, NEW o \in Obj, RecordProviderSuccess(r, o)
    PROVE  IInv'
<1> DEFINE b == Refreshed(LookedUp)
           done == IF b.state = "OPEN" THEN b ELSE OnSuccess(b)
           saved == b.state # "OPEN"
<1>1. /\ Good(LookedUp) /\ Good(b) /\ (~CooldownOver(LookedUp) => b = LookedUp)
      /\ b.options = LookedUp.options
    BY LookedUpGood, RefreshedGood DEF IInv
<1>2. Good(done) /\ done.options = LookedUp.options
    BY <1>1, OnSuccessGood
<1>3. ~saved => b = LookedUp
  <2>1. CooldownOver(LookedUp) => b.state = "HALF_OPEN"
      BY <1>1 DEF Refreshed, Good, Breaker
  <2> QED
      BY <1>1, <2>1
<1>4. ~saved /\ rowOwner = o => db = Row(done)
    BY <1>3, LookedUpGood DEF RecordProviderSuccess, IInv
<1>5. probing' \subseteq Req /\ quietUntil' \in Nat
    BY HistoryTyped DEF RecordProviderSuccess, IInv, RequestsInv
<1>6. Touch(o, done, saved) /\ registered' = o /\ now' = now /\ Move(r, Idle)
    BY DEF RecordProviderSuccess
<1>7. done.options = breaker[o].options \/ \A x \in Req : request[x].obj # o
    BY <1>2, LookedUpGood DEF RecordProviderSuccess, IInv
<1> QED
    BY <1>2, <1>4, <1>5, <1>6, <1>7, Touched

\* recordProviderFailure preserves the invariant.
LEMMA RecordProviderFailureStep ==
    ASSUME IInv, NEW r \in Req, NEW o \in Obj, NEW opt \in Options,
           RecordProviderFailure(r, o, opt)
    PROVE  IInv'
<1> DEFINE b == Refreshed(Configured(opt))
           done == IF CanExecute(b) THEN Refreshed(OnFailure(b, NullKind)) ELSE b
<1>1. Good(b) /\ b.options \in ConfiguredOptions
  <2>1. opt \in Passed
      BY DEF Passed
  <2> QED
      BY <2>1, ConfiguredGood, RefreshedGood DEF IInv
<1>2. Good(OnFailure(b, NullKind)) /\ OnFailure(b, NullKind).options \in ConfiguredOptions
    BY <1>1, OnFailureGood DEF IInv, RequestsInv
<1>3. Good(done) /\ done.options \in ConfiguredOptions
    BY <1>1, <1>2, RefreshedGood
<1>4. probing' \subseteq Req /\ quietUntil' \in Nat
    BY HistoryTyped DEF RecordProviderFailure, IInv, RequestsInv
<1>5. Touch(o, done, TRUE) /\ registered' = o /\ now' = now /\ Move(r, Idle)
    BY DEF RecordProviderFailure
<1> QED
    BY <1>3, <1>4, <1>5, Touched

\* A query preserves the invariant.
LEMMA QueryStep ==
    ASSUME IInv, NEW o \in Obj, Query(o)
    PROVE  IInv'
<1> DEFINE saved == CooldownOver(LookedUp)
<1>1. /\ Good(Refreshed(LookedUp)) /\ (~saved => Refreshed(LookedUp) = LookedUp)
      /\ saved \in BOOLEAN /\ Refreshed(LookedUp).options = LookedUp.options
    BY LookedUpGood, RefreshedGood DEF IInv, CooldownOver
<1>2. ~saved /\ rowOwner = o => db = Row(Refreshed(LookedUp))
    BY <1>1, LookedUpGood DEF Query, IInv
<1>3. probing' \subseteq Req /\ quietUntil' \in Nat
    BY HistoryTyped DEF Query, IInv, RequestsInv
<1>4. /\ Touch(o, Refreshed(LookedUp), saved) /\ registered' = o
      /\ UNCHANGED request /\ now' = now
    BY DEF Query
<1>5. Refreshed(LookedUp).options = breaker[o].options \/ \A x \in Req : request[x].obj # o
    BY <1>1, LookedUpGood DEF Query, IInv
<1> QED
    BY <1>1, <1>2, <1>3, <1>4, <1>5, Touched

\* A reset of the provider preserves the invariant.
LEMMA ClearStep ==
    ASSUME IInv, NEW o \in Obj, ClearProviderFailure(o)
    PROVE  IInv'
<1>1. Good(ResetBreaker(LookedUp)) /\ ResetBreaker(LookedUp).options = LookedUp.options
    BY LookedUpGood, ResetGood DEF IInv
<1>2. probing' \subseteq Req /\ quietUntil' \in Nat
    BY DEF ClearProviderFailure, IInv, RequestsInv
<1>3. /\ Touch(o, ResetBreaker(LookedUp), TRUE) /\ registered' = o
      /\ UNCHANGED request /\ now' = now
    BY DEF ClearProviderFailure
<1>4. ResetBreaker(LookedUp).options = breaker[o].options \/ \A x \in Req : request[x].obj # o
    BY <1>1, LookedUpGood DEF ClearProviderFailure, IInv
<1> QED
    BY <1>1, <1>2, <1>3, <1>4, Touched

\* A breaker without failures, and no row, are sound.
LEMMA FreshGood == Good(Blank) /\ NoRow \in Rows /\ Sound(NoRow)
<1>1. Blank \in Breaker
    BY BreakerAssumption DEF Blank, Breaker, States
<1>2. Sound(Blank)
    BY SomeThreshold DEF Blank, Sound, Earned, NotOverdue
<1>3. NoRow \in Rows
    BY DEF NoRow, Rows, States
<1>4. Sound(NoRow)
    BY SomeThreshold DEF NoRow, Sound, Earned, NotOverdue
<1> QED
    BY <1>1, <1>2, <1>3, <1>4 DEF Good

\* The registry drops the breaker and the row.
LEMMA Dropped ==
    ASSUME BreakersInv, registered' = NoObj, db' = NoRow, rowOwner' = NoObj,
           breaker' \in [Obj -> Breaker], \A o \in Obj : Sound(breaker'[o])
    PROVE  BreakersInv'
<1>1. WriteThrough' /\ RowOwned'
    BY DEF WriteThrough, RowOwned
<1>2. db' \in Rows /\ Sound(db')
    BY FreshGood
<1> QED
    BY <1>1, <1>2 DEF BreakersInv, Sound, Earned, NotOverdue

\* resetAllCircuitBreakers preserves the invariant.
LEMMA ResetAllStep ==
    ASSUME IInv, ResetAll
    PROVE  IInv'
<1>1. breaker' \in [Obj -> Breaker] /\ \A o \in Obj : Sound(breaker'[o])
  <2>1. CASE registered = NoObj
      BY <2>1 DEF ResetAll, IInv, BreakersInv
  <2>2. CASE registered # NoObj
    <3>1. registered \in Obj /\ Good(breaker[registered])
        BY <2>2 DEF IInv, BreakersInv, Good
    <3>2. Good(ResetBreaker(breaker[registered]))
        BY <3>1, ResetGood
    <3>3. breaker' = [breaker EXCEPT ![registered] = ResetBreaker(breaker[registered])]
        BY <2>2 DEF ResetAll
    <3>4. breaker' \in [Obj -> Breaker]
        BY <3>1, <3>2, <3>3 DEF IInv, BreakersInv, Good
    <3>5. ASSUME NEW o \in Obj
          PROVE  Sound(breaker'[o])
      <4>1. breaker'[o] = IF o = registered THEN ResetBreaker(breaker[registered])
                          ELSE breaker[o]
          BY <3>1, <3>3 DEF IInv, BreakersInv
      <4> QED
          BY <3>2, <4>1 DEF IInv, BreakersInv, Good
    <3> QED
        BY <3>4, <3>5
  <2> QED
      BY <2>1, <2>2
<1>2. BreakersInv'
    BY <1>1, Dropped DEF ResetAll, IInv
<1>3. RequestsInv'
    BY Moved DEF ResetAll, IInv, RequestsInv
<1>4. HeldConfigured'
  <2>1. CASE registered = NoObj
      BY <2>1 DEF ResetAll, IInv, HeldConfigured
  <2>2. CASE registered # NoObj
    <3>1. registered \in Obj /\ Good(breaker[registered])
        BY <2>2 DEF IInv, BreakersInv, Good
    <3>2. ResetBreaker(breaker[registered]).options = breaker[registered].options
        BY <3>1, ResetGood
    <3>3. breaker' = [breaker EXCEPT ![registered] = ResetBreaker(breaker[registered])]
          /\ UNCHANGED request
        BY <2>2 DEF ResetAll
    <3> QED
        BY <3>1, <3>2, <3>3, StaysConfigured
  <2> QED
      BY <2>1, <2>2
<1> QED
    BY <1>2, <1>3, <1>4 DEF IInv

\* A pass of the sweep or of the eviction preserves the invariant.
LEMMA CollectStep ==
    ASSUME IInv, NEW mayDrop \in BOOLEAN, Collect(mayDrop)
    PROVE  IInv'
<1> DEFINE b == Refreshed(breaker[registered])
           saved == CooldownOver(breaker[registered])
<1>1. registered \in Obj /\ registered # NoObj /\ Good(breaker[registered])
    BY DEF Collect, IInv, BreakersInv, Good
<1>2. /\ Good(b) /\ (~saved => b = breaker[registered]) /\ saved \in BOOLEAN
      /\ b.options = breaker[registered].options
    BY <1>1, RefreshedGood DEF CooldownOver
<1>3. probing' \subseteq Req /\ quietUntil' \in Nat /\ UNCHANGED request /\ now' = now
    BY HistoryTyped DEF Collect, IInv, RequestsInv
<1>4. CASE Cold(b) /\ mayDrop
  <2>1. BreakersInv'
      BY <1>4, Dropped DEF Collect, IInv, BreakersInv
  <2>2. RequestsInv'
      BY <1>3, Moved DEF IInv
  <2>3. HeldConfigured'
      BY <1>3, <1>4 DEF Collect, IInv, HeldConfigured
  <2> QED
      BY <2>1, <2>2, <2>3 DEF IInv
<1>5. CASE ~(Cold(b) /\ mayDrop)
  <2>1. Touch(registered, b, saved) /\ registered' = registered
      BY <1>5 DEF Collect
  <2>2. ~saved /\ rowOwner = registered => db = Row(b)
      BY <1>1, <1>2 DEF IInv, BreakersInv, WriteThrough
  <2> QED
      BY <1>1, <1>2, <1>3, <2>1, <2>2, Touched
<1> QED
    BY <1>4, <1>5

\* A restart, and the clock, preserve the invariant.
LEMMA RestartTickStep ==
    ASSUME IInv, Restart \/ Tick
    PROVE  IInv'
<1>1. CASE Restart
  <2>1. breaker' = [o \in Obj |-> Blank] /\ registered' = NoObj /\ UNCHANGED <<db, rowOwner>>
      BY <1>1 DEF Restart
  <2>2. breaker' \in [Obj -> Breaker] /\ \A o \in Obj : Sound(breaker'[o])
      BY <2>1, FreshGood DEF Good
  <2>3. WriteThrough' /\ RowOwned'
      BY <2>1 DEF WriteThrough, RowOwned, IInv, BreakersInv
  <2>4. Sound(db')
      BY <2>1 DEF IInv, BreakersInv
  <2>5. BreakersInv'
      BY <2>1, <2>2, <2>3, <2>4 DEF IInv, BreakersInv, Sound, Earned, NotOverdue
  <2>6. RequestsInv'
      BY <1>1 DEF Restart, IInv, RequestsInv, HoldsObject, Idle, Phases
  <2>7. HeldConfigured'
      BY <1>1 DEF Restart, HeldConfigured, Idle
  <2> QED
      BY <2>5, <2>6, <2>7 DEF IInv
<1>2. CASE Tick
  <2>1. BreakersInv'
      BY <1>2 DEF Tick, IInv, BreakersInv, WriteThrough, RowOwned, Sound, Earned, NotOverdue
  <2>2. now' \in Nat \ {0} /\ UNCHANGED <<request, probing, quietUntil>>
      BY <1>2 DEF Tick, IInv, RequestsInv
  <2>3. RequestsInv'
      BY <2>2 DEF IInv, RequestsInv, HoldsObject
  <2>4. HeldConfigured'
      BY <1>2 DEF Tick, IInv, HeldConfigured
  <2> QED
      BY <2>1, <2>3, <2>4 DEF IInv
<1> QED
    BY <1>1, <1>2

-----------------------------------------------------------------------------
(* The theorems.                                                           *)

\* The initial state satisfies the invariant.
LEMMA InitEstablishes == Init => IInv
<1> SUFFICES ASSUME Init PROVE IInv
    OBVIOUS
<1>1. breaker \in [Obj -> Breaker] /\ \A o \in Obj : Sound(breaker[o])
    BY FreshGood DEF Init, Good
<1>2. db \in Rows /\ Sound(db)
    BY FreshGood DEF Init
<1>3. BreakersInv
    BY <1>1, <1>2 DEF Init, BreakersInv, WriteThrough, RowOwned
<1>4. RequestsInv
    BY DEF Init, RequestsInv, HoldsObject, Idle, Phases
<1>5. HeldConfigured
    BY DEF Init, HeldConfigured, Idle
<1> QED
    BY <1>3, <1>4, <1>5 DEF IInv

\* Every step preserves the invariant.
LEMMA StepPreserves == IInv /\ [Next]_vars => IInv'
<1> SUFFICES ASSUME IInv, [Next]_vars PROVE IInv'
    OBVIOUS
<1>1. ASSUME NEW r \in Req, NEW o \in Obj, NEW opt \in Options,
             CheckGate(r, o, opt) \/ CheckGateForced(r, o, opt)
      PROVE  IInv'
    BY <1>1, CheckGateStep
<1>2. ASSUME NEW r \in Req, ExecuteAdmitted(r)
      PROVE  IInv'
    BY <1>2, ExecuteAdmittedStep
<1>3. ASSUME NEW r \in Req,
             \/ \E result \in {"ok", "bad"} : CallResolves(r, result)
             \/ \E kind \in Kinds \cup {NullKind} : CallThrows(r, kind)
             \/ ServeResult(r)
             \/ TripForResult(r)
      PROVE  IInv'
    BY <1>3, OutcomeStep
<1>4. ASSUME NEW r \in Req,
             \/ ExecuteRefused(r) \/ CallThrowsIgnored(r) \/ BypassedCallEnds(r)
             \/ TryNextAccount(r) \/ ReturnResult(r)
      PROVE  IInv'
    BY <1>4, NoOutcomeStep
<1>5. ASSUME NEW r \in Req, NEW o \in Obj, RecordProviderSuccess(r, o)
      PROVE  IInv'
    BY <1>5, RecordProviderSuccessStep
<1>6. ASSUME NEW r \in Req, NEW o \in Obj, NEW opt \in Options,
             RecordProviderFailure(r, o, opt)
      PROVE  IInv'
    BY <1>6, RecordProviderFailureStep
<1>7. ASSUME NEW o \in Obj, Query(o) \/ ClearProviderFailure(o)
      PROVE  IInv'
    BY <1>7, QueryStep, ClearStep
<1>8. ASSUME ResetAll
      PROVE  IInv'
    BY <1>8, ResetAllStep
<1>9. ASSUME Sweep \/ Evict
      PROVE  IInv'
    BY <1>9, CollectStep DEF Sweep, Evict
<1>10. ASSUME Restart \/ Tick
       PROVE  IInv'
    BY <1>10, RestartTickStep
<1>11. CASE UNCHANGED vars
  <2>1. BreakersInv'
      BY <1>11 DEF vars, IInv, BreakersInv, WriteThrough, RowOwned, Sound, Earned, NotOverdue
  <2>2. RequestsInv'
      BY <1>11 DEF vars, IInv, RequestsInv, HoldsObject
  <2>3. HeldConfigured'
      BY <1>11 DEF vars, IInv, HeldConfigured
  <2> QED
      BY <2>1, <2>2, <2>3 DEF IInv
<1> QED
    BY <1>1, <1>2, <1>3, <1>4, <1>5, <1>6, <1>7, <1>8, <1>9, <1>10, <1>11 DEF Next

\* The inductive invariant holds in every reachable state.
LEMMA Invariance == Spec => []IInv
    BY InitEstablishes, StepPreserves, PTL DEF Spec

\* The breaker, its row and its requests keep their types.
THEOREM TypeCorrect == Spec => []TypeOK
<1>1. IInv => TypeOK
    BY DEF IInv, BreakersInv, RequestsInv, TypeOK
<1> QED
    BY <1>1, Invariance, PTL

\* However outcomes, refreshes, drops and restarts interleave, a breaker (and
\* the row) blocks only after enough failures and not without their time, and
\* does not pass traffic with too many.
THEOREM BlocksWhenEarned == Spec => []StateMatchesFailures
<1>1. IInv => StateMatchesFailures
    BY DEF IInv, BreakersInv, Sound, StateMatchesFailures
<1> QED
    BY <1>1, Invariance, PTL

\* The escalation of one outage is gone before the next one.
THEOREM BackoffIsForgotten == Spec => []BackoffForgotten
<1>1. IInv => BackoffForgotten
    BY DEF IInv, BreakersInv, Sound, BackoffForgotten
<1> QED
    BY <1>1, Invariance, PTL

\* The row is a copy of the registered breaker that wrote it.
THEOREM RowIsWrittenThrough == Spec => []WriteThrough
<1>1. IInv => WriteThrough
    BY DEF IInv, BreakersInv
<1> QED
    BY <1>1, Invariance, PTL

-----------------------------------------------------------------------------
(* The probes of a HALF_OPEN period.                                       *)

\* The calls that the current HALF_OPEN period of object o let in.
Probes(o) == {r \in probing : request[r].obj = o}

\* Breaker b, with n probes in flight, keeps to the number of a period.
Room(b, n) == b.state = "HALF_OPEN" => n + b.halfOpenAllowed <= HalfOpenRequests

\* ProbesBounded with what makes it inductive: a probe is a call in flight, so
\* a request that looks up a breaker or records an outcome is none.
ProbeInv ==
    /\ IsFiniteSet(probing)
    /\ \A r \in probing : request[r].phase = "calling"
    /\ \A o \in Obj : Room(breaker[o], Cardinality(Probes(o)))

\* No call becomes a probe, and those that stay probes stay where they are.
Shrinks ==
    /\ probing' \subseteq probing
    /\ \A r \in probing' : request'[r] = request[r]

\* The probes of an object are finitely many.
LEMMA ProbesFinite ==
    ASSUME ProbeInv, NEW o
    PROVE  IsFiniteSet(Probes(o)) /\ Cardinality(Probes(o)) \in Nat
<1>1. Probes(o) \subseteq probing
    BY DEF Probes
<1> QED
    BY <1>1, FS_Subset, FS_CardinalityType DEF ProbeInv

\* Probes that shrink become no more.
LEMMA FewerProbes ==
    ASSUME ProbeInv, Shrinks, NEW o
    PROVE  /\ Cardinality(Probes(o)') \in Nat
           /\ Cardinality(Probes(o)') <= Cardinality(Probes(o))
           /\ IsFiniteSet(probing')
           /\ \A r \in probing' : request'[r].phase = "calling"
<1>1. Probes(o)' \subseteq Probes(o)
    BY DEF Probes, Shrinks
<1>2. /\ IsFiniteSet(probing')
      /\ \A r \in probing' : request'[r].phase = "calling"
    BY FS_Subset DEF ProbeInv, Shrinks
<1> QED
    BY <1>1, <1>2, ProbesFinite, FS_Subset, FS_CardinalityType

\* Fewer probes need no more room.
LEMMA RoomForFewer ==
    ASSUME NEW b \in Breaker, NEW n \in Nat, NEW m \in Nat, m <= n, Room(b, n)
    PROVE  Room(b, m)
<1>1. b.halfOpenAllowed \in Int /\ HalfOpenRequests \in Nat
    BY BreakerFields, BreakerAssumption
<1> QED
    BY <1>1 DEF Room

\* A refresh starts a new period, which has no probes yet, or changes nothing.
LEMMA RoomRefreshed ==
    ASSUME NEW b \in Breaker, NEW n \in Nat, NEW m \in Nat, m <= n, Room(b, n),
           CooldownOver(b) => m = 0
    PROVE  Room(Refreshed(b), m)
<1>1. CASE ~CooldownOver(b)
    BY <1>1, RoomForFewer DEF Refreshed
<1>2. CASE CooldownOver(b)
  <2>1. HalfOpenRequests \in Nat
      BY BreakerAssumption
  <2>2. Refreshed(b).halfOpenAllowed = HalfOpenRequests
      BY <1>2 DEF Refreshed, Breaker
  <2>3. m + Refreshed(b).halfOpenAllowed <= HalfOpenRequests
      BY <1>2, <2>1, <2>2
  <2> QED
      BY <2>3 DEF Room
<1> QED
    BY <1>1, <1>2

\* A new object has all its room and no probes; options change neither.
LEMMA RoomLookedUp ==
    ASSUME IInv, ProbeInv, NEW o \in Obj, Entry(o)
    PROVE  /\ Room(LookedUp, Cardinality(Probes(o)))
           /\ \A opt \in Passed : Room(Configured(opt), Cardinality(Probes(o)))
<1>1. ASSUME registered = NoObj
      PROVE  Room(Restored, Cardinality(Probes(o)))
  <2>1. Probes(o) = {}
      BY <1>1 DEF Entry, Unused, Probes, IInv, RequestsInv
  <2>2. Cardinality(Probes(o)) = 0
      BY <2>1, FS_EmptySet
  <2>3. Restored.state = "HALF_OPEN" => Restored.halfOpenAllowed = HalfOpenRequests
      BY DEF Restored
  <2> QED
      BY <2>2, <2>3, BreakerAssumption DEF Room
<1>2. ASSUME registered # NoObj
      PROVE  registered = o /\ Room(breaker[o], Cardinality(Probes(o)))
    BY <1>2 DEF Entry, ProbeInv, IInv, BreakersInv
<1>3. Room(LookedUp, Cardinality(Probes(o)))
    BY <1>1, <1>2 DEF LookedUp
<1>4. ASSUME NEW opt \in Passed
      PROVE  Room(Configured(opt), Cardinality(Probes(o)))
    BY <1>3, ConfiguredGood DEF Room, IInv
<1> QED
    BY <1>3, <1>4

\* Recording an outcome and resetting never leave a breaker HALF_OPEN.
LEMMA NotHalfOpen ==
    ASSUME NEW b \in Breaker, NEW kind
    PROVE  /\ OnSuccess(b).state \in {"CLOSED", "DEGRADED"}
           /\ OnFailure(b, kind).state \in {"CLOSED", "DEGRADED", "OPEN"}
           /\ ResetBreaker(b).state = "CLOSED"
<1>1. ResetBreaker(b).state = "CLOSED"
    BY DEF ResetBreaker, Breaker
<1>2. b.state \in States
    BY BreakerFields
<1>3. OnSuccess(b).state \in {"CLOSED", "DEGRADED"}
  <2>1. CASE b.state = "OPEN"
      BY <1>1, <2>1 DEF OnSuccess
  <2>2. CASE b.state = "HALF_OPEN"
      BY <2>2 DEF OnSuccess, Breaker
  <2>3. CASE b.state \in {"CLOSED", "DEGRADED"}
    <3>1. PICK n, st : /\ st \in {"CLOSED", "DEGRADED"}
                       /\ OnSuccess(b) = [b EXCEPT !.failureCount = n, !.state = st]
        BY <2>3 DEF OnSuccess
    <3> QED
        BY <3>1 DEF Breaker
  <2> QED
      BY <1>2, <2>1, <2>2, <2>3 DEF States
<1>4. OnFailure(b, kind).state \in {"CLOSED", "DEGRADED", "OPEN"}
  <2>1. PICK n, cy, st : /\ st \in {"CLOSED", "DEGRADED", "OPEN"}
                         /\ OnFailure(b, kind) =
                              [b EXCEPT !.failureCount = n, !.lastFailureTime = now,
                                        !.lastFailureKind = kind, !.openCycleCount = cy,
                                        !.state = st]
    <3>1. StateAfterFailure(b, b.failureCount + 1) \in {"CLOSED", "DEGRADED", "OPEN"}
        BY <1>2 DEF StateAfterFailure, States
    <3> QED
        BY <3>1 DEF OnFailure
  <2> QED
      BY <2>1 DEF Breaker
<1> QED
    BY <1>1, <1>3, <1>4

\* One object is replaced, and the probes shrink.
LEMMA ProbesAfter ==
    ASSUME IInv, ProbeInv, Shrinks, NEW o \in Obj, NEW b,
           breaker' = [breaker EXCEPT ![o] = b],
           Room(b, Cardinality(Probes(o)'))
    PROVE  ProbeInv'
<1>1. breaker \in [Obj -> Breaker]
    BY DEF IInv, BreakersInv
<1>2. ASSUME NEW x \in Obj
      PROVE  Room(breaker'[x], Cardinality(Probes(x)'))
  <2>1. CASE x = o
      BY <1>1, <2>1
  <2>2. CASE x # o
    <3>1. breaker'[x] = breaker[x] /\ breaker[x] \in Breaker
        BY <1>1, <2>2
    <3>2. Room(breaker[x], Cardinality(Probes(x)))
        BY DEF ProbeInv
    <3> QED
        BY <3>1, <3>2, FewerProbes, ProbesFinite, RoomForFewer
  <2> QED
      BY <2>1, <2>2
<1> QED
    BY <1>2, FewerProbes DEF ProbeInv, Room

\* No object is replaced.
LEMMA ProbesOnlyShrink ==
    ASSUME IInv, ProbeInv, Shrinks, UNCHANGED breaker
    PROVE  ProbeInv'
<1>1. ASSUME NEW x \in Obj
      PROVE  Room(breaker'[x], Cardinality(Probes(x)'))
  <2>1. breaker'[x] = breaker[x] /\ breaker[x] \in Breaker
      BY DEF IInv, BreakersInv
  <2>2. Room(breaker[x], Cardinality(Probes(x)))
      BY DEF ProbeInv
  <2> QED
      BY <2>1, <2>2, FewerProbes, ProbesFinite, RoomForFewer
<1>2. /\ IsFiniteSet(probing')
      /\ \A r \in probing' : request'[r].phase = "calling"
    BY FewerProbes
<1> QED
    BY <1>1, <1>2 DEF ProbeInv, Room

\* The requests that stay probes are not the one that moves.
LEMMA MoveShrinks ==
    ASSUME IInv, ProbeInv, probing' \subseteq probing, NEW r \in Req, r \notin probing',
           \/ \E p : Move(r, p)
           \/ UNCHANGED request
    PROVE  Shrinks
<1>1. request \in [Req -> [phase : Phases, obj : Obj \cup {NoObj}]] /\ probing \subseteq Req
    BY DEF IInv, RequestsInv
<1>2. ASSUME NEW x \in probing'
      PROVE  request'[x] = request[x]
    BY <1>1, <1>2 DEF Move
<1> QED
    BY <1>2 DEF Shrinks

\* What the refresh of b leaves of the probes of o.
LEMMA ProbingAfterFacts ==
    ASSUME NEW o, NEW b
    PROVE  ProbingAfter(o, b) \subseteq probing
    BY DEF ProbingAfter

\* A lookup or a query: object o becomes the refresh of b.
LEMMA RefreshProbes ==
    ASSUME IInv, ProbeInv, Shrinks, NEW o \in Obj, NEW b, Good(b),
           Room(b, Cardinality(Probes(o))),
           breaker' = [breaker EXCEPT ![o] = Refreshed(b)],
           probing' = ProbingAfter(o, b)
    PROVE  ProbeInv'
<1>1. CooldownOver(b) => Cardinality(Probes(o)') = 0
  <2> SUFFICES ASSUME CooldownOver(b) PROVE Cardinality(Probes(o)') = 0
      OBVIOUS
  <2>1. Probes(o)' = {}
      BY DEF Probes, Shrinks, ProbingAfter
  <2> QED
      BY <2>1, FS_EmptySet
<1>2. Room(Refreshed(b), Cardinality(Probes(o)'))
    BY <1>1, FewerProbes, ProbesFinite, RoomRefreshed DEF Good
<1> QED
    BY <1>2, ProbesAfter

\* Object o becomes one that is not HALF_OPEN.
LEMMA ClosedProbes ==
    ASSUME IInv, ProbeInv, Shrinks, NEW o \in Obj, NEW b, b.state # "HALF_OPEN",
           breaker' = [breaker EXCEPT ![o] = b]
    PROVE  ProbeInv'
<1>1. Room(b, Cardinality(Probes(o)'))
    BY DEF Room
<1> QED
    BY <1>1, ProbesAfter

\* The gate of a request, forced or not.
LEMMA CheckGateProbes ==
    ASSUME IInv, ProbeInv, NEW r \in Req, NEW o \in Obj, NEW opt \in Options,
           CheckGate(r, o, opt) \/ CheckGateForced(r, o, opt)
    PROVE  ProbeInv'
<1>1. AtGate(opt) \in Passed
    BY DEF Passed
<1>2. /\ Entry(o) /\ request[r].phase = "idle"
      /\ breaker' = [breaker EXCEPT ![o] = Refreshed(Configured(AtGate(opt)))]
      /\ probing' = ProbingAfter(o, Configured(AtGate(opt)))
      /\ (\E p : Move(r, p)) \/ UNCHANGED request
    BY DEF CheckGate, CheckGateForced, Touch
<1>3. Shrinks
    BY <1>2, ProbingAfterFacts, MoveShrinks DEF ProbeInv
<1>4. /\ Good(Configured(AtGate(opt)))
      /\ Room(Configured(AtGate(opt)), Cardinality(Probes(o)))
    BY <1>1, <1>2, ConfiguredGood, RoomLookedUp DEF IInv
<1> QED
    BY <1>2, <1>3, <1>4, RefreshProbes

\* A query.
LEMMA QueryProbes ==
    ASSUME IInv, ProbeInv, NEW o \in Obj, Query(o)
    PROVE  ProbeInv'
<1>1. /\ Entry(o) /\ UNCHANGED request
      /\ breaker' = [breaker EXCEPT ![o] = Refreshed(LookedUp)]
      /\ probing' = ProbingAfter(o, LookedUp)
    BY DEF Query, Touch
<1>2. Shrinks
    BY <1>1, ProbingAfterFacts DEF Shrinks
<1>3. Good(LookedUp) /\ Room(LookedUp, Cardinality(Probes(o)))
    BY <1>1, LookedUpGood, RoomLookedUp DEF IInv
<1> QED
    BY <1>1, <1>2, <1>3, RefreshProbes

\* A pass of the sweep or of the eviction.
LEMMA CollectProbes ==
    ASSUME IInv, ProbeInv, NEW mayDrop, Collect(mayDrop)
    PROVE  ProbeInv'
<1> DEFINE b == breaker[registered]
<1>1. registered \in Obj /\ Good(b) /\ Room(b, Cardinality(Probes(registered)))
    BY DEF Collect, ProbeInv, IInv, BreakersInv, Good
<1>2. UNCHANGED request /\ probing' = ProbingAfter(registered, b)
    BY DEF Collect
<1>3. Shrinks
    BY <1>2, ProbingAfterFacts DEF Shrinks
<1>4. UNCHANGED breaker \/ breaker' = [breaker EXCEPT ![registered] = Refreshed(b)]
    BY DEF Collect, Touch
<1> HIDE DEF b
<1> QED
    BY <1>1, <1>2, <1>3, <1>4, ProbesOnlyShrink, RefreshProbes

\* A call is let through: what was offered is now in flight.
LEMMA AdmittedProbes ==
    ASSUME IInv, ProbeInv, NEW r \in Req, ExecuteAdmitted(r)
    PROVE  ProbeInv'
<1>0. PICK o \in Obj, a \in Breaker, b \in Breaker :
         o = request[r].obj /\ a = breaker[o] /\ b = Refreshed(a) /\ Good(a)
    BY HeldGood, RefreshedGood DEF ExecuteAdmitted, Good
<1>1. Room(a, Cardinality(Probes(o)))
    BY <1>0 DEF ProbeInv
<1>2. /\ request[r].phase = "ready"
      /\ breaker' = [breaker EXCEPT ![o] = LetThrough(b)]
      /\ probing' = IF b.state = "HALF_OPEN" THEN ProbingAfter(o, a) \cup {r} ELSE probing
      /\ Move(r, At("calling", o))
    BY <1>0 DEF ExecuteAdmitted, Touch
<1>3. r \notin probing
    BY <1>2 DEF ProbeInv
<1>4. /\ request'[r].phase = "calling" /\ request'[r].obj = o
      /\ \A x \in Req \ {r} : request'[x] = request[x]
    BY <1>2 DEF Move, At, IInv, RequestsInv
<1>5. probing \subseteq Req
    BY DEF IInv, RequestsInv
<1>6. CASE b.state # "HALF_OPEN"
  <2>1. LetThrough(b) = b /\ probing' = probing
      BY <1>2, <1>6 DEF LetThrough
  <2>2. Shrinks
      BY <1>3, <1>4, <1>5, <2>1 DEF Shrinks
  <2> QED
      BY <1>1, <1>2, <1>6, <2>1, <2>2, ClosedProbes
<1>7. CASE b.state = "HALF_OPEN"
  <2> DEFINE old == {x \in ProbingAfter(o, a) : request[x].obj = o}
  <2>1. old \subseteq Probes(o) /\ r \notin old /\ (CooldownOver(a) => old = {})
      BY <1>3 DEF Probes, ProbingAfter
  <2>2. IsFiniteSet(old) /\ Cardinality(old) \in Nat
        /\ Cardinality(old) <= Cardinality(Probes(o))
        /\ (CooldownOver(a) => Cardinality(old) = 0)
      BY <2>1, ProbesFinite, FS_Subset, FS_CardinalityType, FS_EmptySet
  <2>3. Room(b, Cardinality(old))
    <3> HIDE DEF old
    <3> QED
      BY <1>0, <1>1, <2>2, ProbesFinite, RoomRefreshed
  <2>4. Probes(o)' = old \cup {r}
    <3>1. probing' = ProbingAfter(o, a) \cup {r}
        BY <1>2, <1>7
    <3>2. ProbingAfter(o, a) \subseteq probing
        BY ProbingAfterFacts
    <3> QED
        BY <3>1, <3>2, <1>3, <1>4, <1>5 DEF Probes
  <2>5. Cardinality(Probes(o)') = Cardinality(old) + 1
    <3> HIDE DEF old
    <3> QED
      BY <2>1, <2>2, <2>4, FS_AddElement
  <2>6. /\ LetThrough(b).halfOpenAllowed = b.halfOpenAllowed - 1
        /\ b.halfOpenAllowed \in Int
      BY <1>3, <1>7, BreakerFields DEF LetThrough, Breaker
  <2>7. Cardinality(old) + b.halfOpenAllowed <= HalfOpenRequests
      BY <1>7, <2>3 DEF Room
  <2>8. Cardinality(Probes(o)') + LetThrough(b).halfOpenAllowed <= HalfOpenRequests
    <3> HIDE DEF old
    <3> QED
      BY <2>2, <2>5, <2>6, <2>7, BreakerAssumption
  <2>9. ASSUME NEW x \in Obj
        PROVE  Room(breaker'[x], Cardinality(Probes(x)'))
    <3>1. breaker'[x] = IF x = o THEN LetThrough(b) ELSE breaker[x]
        BY <1>1, <1>2 DEF IInv, BreakersInv
    <3>2. CASE x = o
        BY <3>1, <3>2, <2>8 DEF Room
    <3>3. CASE x # o
      <4>1. Probes(x)' \subseteq Probes(x)
        <5>1. probing' \subseteq probing \cup {r}
            BY <1>2, ProbingAfterFacts
        <5> QED
            BY <5>1, <1>4, <1>5, <3>3 DEF Probes
      <4>2. /\ Cardinality(Probes(x)') \in Nat
            /\ Cardinality(Probes(x)') <= Cardinality(Probes(x))
          BY <4>1, ProbesFinite, FS_Subset, FS_CardinalityType
      <4>3. breaker[x] \in Breaker /\ Room(breaker[x], Cardinality(Probes(x)))
          BY DEF ProbeInv, IInv, BreakersInv
      <4> QED
          BY <3>1, <3>3, <4>2, <4>3, ProbesFinite, RoomForFewer
    <3> QED
        BY <3>2, <3>3
  <2>10. IsFiniteSet(probing')
    <3>1. IsFiniteSet(ProbingAfter(o, a))
        BY ProbingAfterFacts, FS_Subset DEF ProbeInv
    <3> QED
        BY <3>1, <1>2, <1>7, FS_AddElement
  <2>11. \A x \in probing' : request'[x].phase = "calling"
    <3>1. probing' \subseteq probing \cup {r}
        BY <1>2, ProbingAfterFacts
    <3> QED
        BY <3>1, <1>4, <1>5 DEF ProbeInv
  <2> QED
      BY <2>9, <2>10, <2>11 DEF ProbeInv, Room
<1> QED
    BY <1>6, <1>7

\* An outcome recorded by a request on its object.
LEMMA OutcomeProbes ==
    ASSUME IInv, ProbeInv, NEW r \in Req,
           \/ \E result \in {"ok", "bad"} : CallResolves(r, result)
           \/ \E kind \in Kinds \cup {NullKind} : CallThrows(r, kind)
           \/ ServeResult(r)
           \/ TripForResult(r)
    PROVE  ProbeInv'
<1>1. request[r].phase # "idle"
    BY DEF CallResolves, CallThrows, ServeResult, TripForResult, Failed
<1>2. PICK o \in Obj : o = request[r].obj /\ breaker[o] \in Breaker
    BY <1>1, HeldGood DEF Good
<1>3. PICK b : /\ \/ b = OnSuccess(breaker[o])
                  \/ \E kind \in Kinds \cup {NullKind} : b = OnFailure(breaker[o], kind)
               /\ Record(r, b)
    BY <1>2 DEF CallResolves, CallThrows, ServeResult, TripForResult
<1>4. \E p : Move(r, p)
    BY DEF CallResolves, CallThrows, ServeResult, TripForResult
<1>5. b.state # "HALF_OPEN"
    BY <1>2, <1>3, NotHalfOpen
<1>6. breaker' = [breaker EXCEPT ![o] = b] /\ probing' = probing \ {r}
    BY <1>2, <1>3 DEF Record
<1>7. Shrinks
    BY <1>4, <1>6, MoveShrinks
<1> QED
    BY <1>5, <1>6, <1>7, ClosedProbes

\* A request that goes on without recording anything.
LEMMA NoOutcomeProbes ==
    ASSUME IInv, ProbeInv, NEW r \in Req,
           \/ ExecuteRefused(r) \/ CallThrowsIgnored(r) \/ BypassedCallEnds(r)
           \/ TryNextAccount(r) \/ ReturnResult(r)
    PROVE  ProbeInv'
<1>1. (\E p : Move(r, p)) /\ UNCHANGED breaker
    BY DEF ExecuteRefused, CallThrowsIgnored, BypassedCallEnds, TryNextAccount, ReturnResult,
           NoRecord
<1>2. \/ probing' = probing \ {r}
      \/ probing' = probing /\ request[r].phase # "calling"
    BY DEF ExecuteRefused, CallThrowsIgnored, BypassedCallEnds, TryNextAccount, ReturnResult,
           Failed
<1>3. probing' \subseteq probing /\ r \notin probing'
    BY <1>2 DEF ProbeInv
<1> QED
    BY <1>1, <1>3, MoveShrinks, ProbesOnlyShrink

\* recordProviderSuccess.
LEMMA ProviderSuccessProbes ==
    ASSUME IInv, ProbeInv, NEW r \in Req, NEW o \in Obj, RecordProviderSuccess(r, o)
    PROVE  ProbeInv'
<1> DEFINE b == Refreshed(LookedUp)
<1>1. b \in Breaker
    BY LookedUpGood, RefreshedGood DEF IInv, Good
<1>2. /\ breaker' = [breaker EXCEPT ![o] = IF b.state = "OPEN" THEN b ELSE OnSuccess(b)]
      /\ probing' = ProbingAfter(o, LookedUp)
      /\ request[r].phase = "comboOk"
      /\ Move(r, Idle)
    BY DEF RecordProviderSuccess, Touch
<1>3. Shrinks
    BY <1>2, ProbingAfterFacts, MoveShrinks DEF ProbeInv
<1>4. (IF b.state = "OPEN" THEN b ELSE OnSuccess(b)).state # "HALF_OPEN"
    BY <1>1, NotHalfOpen
<1> HIDE DEF b
<1> QED
    BY <1>2, <1>3, <1>4, ClosedProbes

\* recordProviderFailure: a failure whose cooldown is nil starts a new period
\* at once.
LEMMA ProviderFailureProbes ==
    ASSUME IInv, ProbeInv, NEW r \in Req, NEW o \in Obj, NEW opt \in Options,
           RecordProviderFailure(r, o, opt)
    PROVE  ProbeInv'
<1> DEFINE c == Configured(opt)
           b == Refreshed(c)
           f == OnFailure(b, NullKind)
<1>1. opt \in Passed
    BY DEF Passed
<1>2. /\ Good(c) /\ Good(b) /\ Good(f)
      /\ Room(c, Cardinality(Probes(o)))
  <2>1. Good(c) /\ c.options \in ConfiguredOptions
      BY <1>1, ConfiguredGood DEF IInv
  <2>2. Good(b) /\ b.options \in ConfiguredOptions
      BY <2>1, RefreshedGood
  <2>3. Good(f)
      BY <2>2, OnFailureGood DEF IInv, RequestsInv
  <2>4. Room(c, Cardinality(Probes(o)))
      BY <1>1, RoomLookedUp DEF RecordProviderFailure
  <2> QED
      BY <2>1, <2>2, <2>3, <2>4
<1>3. f.state # "HALF_OPEN"
    BY <1>2, NotHalfOpen DEF Good
<1>4. /\ breaker' = [breaker EXCEPT ![o] = IF CanExecute(b) THEN Refreshed(f) ELSE b]
      /\ probing' = IF CanExecute(b) /\ CooldownOver(f)
                    THEN {x \in probing : request[x].obj # o} ELSE ProbingAfter(o, c)
      /\ request[r].phase # "calling"
      /\ Move(r, Idle)
    BY DEF RecordProviderFailure, Touch, Failed
<1>5. Shrinks
  <2>1. probing' \subseteq probing
      BY <1>4, ProbingAfterFacts
  <2>2. r \notin probing'
      BY <2>1, <1>4 DEF ProbeInv
  <2> QED
      BY <1>4, <2>1, <2>2, MoveShrinks
<1> HIDE DEF c, f
<1>6. CASE ~CanExecute(b)
    BY <1>2, <1>4, <1>5, <1>6, RefreshProbes
<1>7. CASE CanExecute(b) /\ ~CooldownOver(f)
  <2>1. Refreshed(f) = f
      BY <1>7 DEF Refreshed
  <2>2. breaker' = [breaker EXCEPT ![o] = f]
      BY <1>4, <1>7, <2>1
  <2> QED
      BY <1>3, <1>5, <2>2, ClosedProbes
<1>8. CASE CanExecute(b) /\ CooldownOver(f)
  <2>1. Probes(o)' = {}
      BY <1>4, <1>5, <1>8 DEF Probes, Shrinks
  <2>2. Cardinality(Probes(o)') = 0
      BY <2>1, FS_EmptySet
  <2>3. Room(f, 0)
      BY <1>3 DEF Room
  <2>4. Room(Refreshed(f), 0)
      BY <1>2, <2>3, RoomRefreshed DEF Good
  <2>5. breaker' = [breaker EXCEPT ![o] = Refreshed(f)]
      BY <1>4, <1>8
  <2> QED
      BY <1>5, <2>2, <2>4, <2>5, ProbesAfter
<1> QED
    BY <1>6, <1>7, <1>8

\* The resets.
LEMMA ResetProbes ==
    ASSUME IInv, ProbeInv, ResetAll \/ \E o \in Obj : ClearProviderFailure(o)
    PROVE  ProbeInv'
<1>1. Shrinks
    BY DEF ResetAll, ClearProviderFailure, Shrinks
<1>2. CASE ResetAll
  <2>1. CASE registered = NoObj
      BY <1>1, <1>2, <2>1, ProbesOnlyShrink DEF ResetAll
  <2>2. CASE registered # NoObj
    <3>1. registered \in Obj /\ breaker[registered] \in Breaker
        BY <2>2 DEF IInv, BreakersInv
    <3>2. breaker' = [breaker EXCEPT ![registered] = ResetBreaker(breaker[registered])]
        BY <1>2, <2>2 DEF ResetAll
    <3> QED
        BY <1>1, <3>1, <3>2, NotHalfOpen, ClosedProbes
  <2> QED
      BY <2>1, <2>2
<1>3. ASSUME NEW o \in Obj, ClearProviderFailure(o)
      PROVE  ProbeInv'
  <2>1. breaker' = [breaker EXCEPT ![o] = ResetBreaker(LookedUp)]
      BY <1>3 DEF ClearProviderFailure, Touch
  <2>2. LookedUp \in Breaker
      BY LookedUpGood DEF IInv, Good
  <2> QED
      BY <1>1, <2>1, <2>2, NotHalfOpen, ClosedProbes
<1> QED
    BY <1>2, <1>3

\* A restart leaves no probes and no HALF_OPEN object.
LEMMA RestartProbes ==
    ASSUME IInv, ProbeInv, Restart
    PROVE  ProbeInv'
<1>1. probing' = {} /\ breaker' = [o \in Obj |-> Blank]
    BY DEF Restart
<1> QED
    BY <1>1, FS_EmptySet DEF ProbeInv, Room, Blank

\* Every step keeps the probes bounded.
LEMMA ProbesPreserved == IInv /\ ProbeInv /\ [Next]_vars => ProbeInv'
<1> SUFFICES ASSUME IInv, ProbeInv, [Next]_vars PROVE ProbeInv'
    OBVIOUS
<1>1. ASSUME NEW r \in Req,
             \/ \E o \in Obj, opt \in Options :
                   \/ CheckGate(r, o, opt) \/ CheckGateForced(r, o, opt)
                   \/ RecordProviderFailure(r, o, opt)
             \/ \E o \in Obj : RecordProviderSuccess(r, o)
             \/ ExecuteAdmitted(r)
      PROVE  ProbeInv'
    BY <1>1, CheckGateProbes, ProviderFailureProbes, ProviderSuccessProbes, AdmittedProbes
<1>2. ASSUME NEW r \in Req,
             \/ \E result \in {"ok", "bad"} : CallResolves(r, result)
             \/ \E kind \in Kinds \cup {NullKind} : CallThrows(r, kind)
             \/ ServeResult(r) \/ TripForResult(r)
             \/ ExecuteRefused(r) \/ CallThrowsIgnored(r) \/ BypassedCallEnds(r)
             \/ TryNextAccount(r) \/ ReturnResult(r)
      PROVE  ProbeInv'
    BY <1>2, OutcomeProbes, NoOutcomeProbes
<1>3. ASSUME NEW o \in Obj, Query(o) \/ ClearProviderFailure(o)
      PROVE  ProbeInv'
    BY <1>3, QueryProbes, ResetProbes
<1>4. CASE ResetAll \/ Sweep \/ Evict \/ Restart
    BY <1>4, ResetProbes, CollectProbes, RestartProbes DEF Sweep, Evict
<1>5. CASE Tick \/ UNCHANGED vars
  <2>1. Shrinks /\ UNCHANGED breaker
      BY <1>5 DEF Tick, vars, Shrinks
  <2> QED
      BY <2>1, ProbesOnlyShrink
<1> QED
    BY <1>1, <1>2, <1>3, <1>4, <1>5 DEF Next

\* A HALF_OPEN period never has more probes in flight and on offer than
\* halfOpenRequests, whatever is refreshed, reconfigured, dropped or
\* restored meanwhile.
THEOREM ProbesAreBounded == Spec => []ProbesBounded
<1>1. Init => ProbeInv
    BY FS_EmptySet DEF Init, ProbeInv, Room, Blank
<1>2. ProbeInv => ProbesBounded
    BY DEF ProbeInv, ProbesBounded, Room, Probes
<1> QED
    BY <1>1, <1>2, ProbesPreserved, Invariance, PTL DEF Spec

-----------------------------------------------------------------------------
(* The open period.                                                        *)

\* The open cycles of a breaker or row are among its failures, which the bound
\* of the model limits.
Small(x) == x.openCycleCount <= x.failureCount /\ x.failureCount <= MaxFailures

SmallInv == (\A o \in Obj : Small(breaker[o])) /\ Small(db)

\* Breaker or row x blocks, and its cooldown lasts till q at least.
Blocks(x, q) == x.state = "OPEN" /\ q <= x.lastFailureTime + ShortestCooldown

\* Until the promised time the registered breaker blocks, and so does the row,
\* from which the next one is restored.
QuietInv ==
    now < quietUntil =>
        /\ Blocks(db, quietUntil)
        /\ registered # NoObj => Blocks(breaker[registered], quietUntil)

PeriodInv == SmallInv /\ QuietInv

\* No cooldown is shorter than the shortest one configured: neither a kind's
\* own, nor the reset timeout with its escalation.
LEMMA CooldownLasts ==
    ASSUME NEW b \in Breaker, Small(b)
    PROVE  EffectiveCooldown(b) \in Int /\ ShortestCooldown <= EffectiveCooldown(b)
<1> DEFINE opt == b.options
           esc == opt.backoffEscalationCount
           n == b.openCycleCount - esc
           factor == IF b.openCycleCount <= esc THEN 1 ELSE 2 ^ n
           m == IF factor < opt.maxBackoffMultiplier THEN factor ELSE opt.maxBackoffMultiplier
<1>1. /\ opt \in OptionRecord
      /\ b.openCycleCount \in Nat /\ b.failureCount \in Nat
      /\ b.lastFailureKind \in Kinds \cup {NullKind}
    BY BreakerFields, BreakerAssumption
<1>2. /\ ShortestCooldown \in Nat /\ ShortestCooldown <= opt.resetTimeout
      /\ \A k \in Kinds : opt.cooldownByKind[k] # NoOverride
                            => ShortestCooldown <= opt.cooldownByKind[k]
    BY <1>1, BreakerAssumption DEF OptionRecord
<1>3. /\ opt.resetTimeout \in Nat
      /\ \A k \in Kinds : opt.cooldownByKind[k] \in Nat \cup {NoOverride}
    BY <1>1 DEF OptionRecord
<1>4. /\ esc \in Nat /\ opt.maxBackoffMultiplier \in Nat \ {0}
      /\ MaxFailures \in Nat
    BY <1>1, BreakerAssumption DEF OptionRecord
<1>5. b.openCycleCount > esc => n \in 0 .. MaxFailures
    BY <1>1, <1>4 DEF Small
<1>6. factor \in Int /\ factor >= 1
  <2>1. CASE b.openCycleCount <= esc
      BY <2>1
  <2>2. CASE ~(b.openCycleCount <= esc)
    <3>1. n \in 0 .. MaxFailures
        BY <2>2, <1>1, <1>4, <1>5
    <3> HIDE DEF n
    <3>2. 2 ^ n \in Int /\ 2 ^ n >= 1
        BY <3>1, <1>4, PowersOfTwo
    <3> QED
        BY <2>2, <3>2
  <2> QED
      BY <2>1, <2>2
<1> HIDE DEF factor
<1>7. m \in Nat /\ m >= 1
    BY <1>4, <1>6
<1>8. EffectiveResetTimeout(b) = opt.resetTimeout * m
    BY DEF EffectiveResetTimeout, factor
<1> HIDE DEF m, opt
<1>9. EffectiveResetTimeout(b) \in Int /\ opt.resetTimeout <= EffectiveResetTimeout(b)
  <2>1. PICK t \in Nat : t = opt.resetTimeout
      BY <1>3
  <2>2. t * m \in Int /\ t <= t * m
      BY <1>7
  <2> QED
      BY <1>8, <2>1, <2>2
<1>10. ShortestCooldown <= EffectiveResetTimeout(b)
    BY <1>2, <1>3, <1>9
<1> QED
    BY <1>1, <1>2, <1>3, <1>9, <1>10 DEF EffectiveCooldown, opt

\* A breaker that blocks till q does so before q: no refresh opens it.
LEMMA StillBlocked ==
    ASSUME NEW b, Good(b), Small(b), NEW q \in Nat, now \in Nat, now < q, Blocks(b, q)
    PROVE  ~CooldownOver(b) /\ Refreshed(b) = b /\ ~CanExecute(b)
<1>1. b \in Breaker /\ b.lastFailureTime \in Nat /\ b.lastFailureTime # 0 /\ b.state = "OPEN"
    BY BreakerFields DEF Good, Sound, Earned, Blocks
<1>2. EffectiveCooldown(b) \in Int /\ ShortestCooldown <= EffectiveCooldown(b)
    BY <1>1, CooldownLasts
<1>3. ShortestCooldown \in Nat
    BY BreakerAssumption
<1>4. now - b.lastFailureTime < EffectiveCooldown(b)
    BY <1>1, <1>2, <1>3 DEF Blocks
<1>5. ~CooldownOver(b)
    BY <1>1, <1>2, <1>4 DEF CooldownOver
<1> QED
    BY <1>1, <1>5 DEF Refreshed, CanExecute

\* The methods keep the open cycles among the failures.
LEMMA MethodsSmall ==
    ASSUME NEW b, Good(b), Small(b)
    PROVE  /\ Small(Refreshed(b))
           /\ Small(ResetBreaker(b))
           /\ Small(OnSuccess(b))
           /\ Small(LetThrough(b))
<1>1. b \in Breaker /\ b.failureCount \in Nat /\ b.openCycleCount \in Nat /\ b.state \in States
    BY BreakerFields DEF Good
<1>2. MaxFailures \in Nat
    BY BreakerAssumption
<1>3. Small(Refreshed(b))
    BY <1>1 DEF Refreshed, Small, Breaker
<1>4. Small(ResetBreaker(b))
  <2>1. ResetBreaker(b).openCycleCount = 0 /\ ResetBreaker(b).failureCount = 0
      BY <1>1 DEF ResetBreaker, Breaker
  <2> QED
      BY <1>2, <2>1 DEF Small
<1>5. Small(LetThrough(b))
    BY <1>1 DEF LetThrough, Small, Breaker
<1>6. Small(OnSuccess(b))
  <2>1. CASE b.state = "OPEN"
      BY <1>4, <2>1 DEF OnSuccess
  <2>2. CASE b.state = "HALF_OPEN"
    <3>1. OnSuccess(b).openCycleCount = 0 /\ OnSuccess(b).failureCount = 0
        BY <1>1, <2>2 DEF OnSuccess, Breaker
    <3> QED
        BY <1>2, <3>1 DEF Small
  <2>3. CASE b.state \in {"CLOSED", "DEGRADED"}
    <3>1. b.openCycleCount = 0
        BY <2>3 DEF Good, Sound
    <3>2. PICK n \in Nat : /\ n = (IF b.failureCount > 0 THEN b.failureCount - 1 ELSE 0)
                           /\ n <= b.failureCount
        BY <1>1
    <3>3. PICK st : OnSuccess(b) = [b EXCEPT !.failureCount = n, !.state = st]
        BY <2>3, <3>2 DEF OnSuccess
    <3>4. OnSuccess(b).openCycleCount = 0 /\ OnSuccess(b).failureCount = n
        BY <1>1, <3>1, <3>3 DEF Breaker
    <3> QED
        BY <1>1, <1>2, <3>2, <3>4 DEF Small
  <2> QED
      BY <1>1, <2>1, <2>2, <2>3 DEF States
<1> QED
    BY <1>3, <1>4, <1>5, <1>6

\* So does a failure, within the bound, and it is dated now.
LEMMA FailureSmall ==
    ASSUME NEW b, Good(b), Small(b), NEW kind
    PROVE  /\ OnFailure(b, kind).failureCount <= MaxFailures => Small(OnFailure(b, kind))
           /\ OnFailure(b, kind).lastFailureTime = now
           /\ Refreshed(OnFailure(b, kind)).failureCount = OnFailure(b, kind).failureCount
<1>1. b \in Breaker /\ b.failureCount \in Nat /\ b.openCycleCount \in Nat
    BY BreakerFields DEF Good
<1>2. PICK n \in Nat : n = b.failureCount + 1
    BY <1>1
<1>3. PICK cy \in Nat : /\ cy = (IF b.state = "HALF_OPEN" THEN b.openCycleCount + 1
                                 ELSE b.openCycleCount)
                        /\ cy <= b.openCycleCount + 1
    BY <1>1
<1>4. PICK st, f : /\ f = OnFailure(b, kind)
                   /\ f = [b EXCEPT !.failureCount = n, !.lastFailureTime = now,
                                    !.lastFailureKind = kind, !.openCycleCount = cy,
                                    !.state = st]
    BY <1>2, <1>3 DEF OnFailure
<1>5. f.failureCount = n /\ f.openCycleCount = cy /\ f.lastFailureTime = now
    BY <1>1, <1>4 DEF Breaker
<1>6. cy <= n
    BY <1>1, <1>2, <1>3 DEF Small
<1>7. Refreshed(f).failureCount = f.failureCount
    BY <1>1, <1>4 DEF Refreshed, Breaker
<1> QED
    BY <1>4, <1>5, <1>6, <1>7 DEF Small

\* A lookup keeps the failures and their time, of the registered breaker or of
\* the row.
LEMMA LookupBlocks ==
    ASSUME IInv, PeriodInv, NEW opt \in Passed
    PROVE  /\ Small(LookedUp) /\ Small(Configured(opt))
           /\ now < quietUntil => Blocks(LookedUp, quietUntil)
           /\ now < quietUntil => Blocks(Configured(opt), quietUntil)
<1>1. ASSUME registered = NoObj
      PROVE  /\ Small(Restored)
             /\ now < quietUntil => Blocks(Restored, quietUntil)
  <2>1. /\ Restored.state = db.state /\ Restored.lastFailureTime = db.lastFailureTime
        /\ Restored.failureCount = db.failureCount
        /\ Restored.openCycleCount = db.openCycleCount
      BY DEF Restored
  <2> QED
      BY <2>1 DEF PeriodInv, SmallInv, QuietInv, Small, Blocks
<1>2. ASSUME registered # NoObj
      PROVE  /\ Small(breaker[registered])
             /\ now < quietUntil => Blocks(breaker[registered], quietUntil)
    BY <1>2 DEF PeriodInv, SmallInv, QuietInv, IInv, BreakersInv
<1>3. Small(LookedUp) /\ (now < quietUntil => Blocks(LookedUp, quietUntil))
    BY <1>1, <1>2 DEF LookedUp
<1> QED
    BY <1>3, ConfiguredGood DEF Small, Blocks, IInv

\* One object is replaced; the row is its copy, or gone, or what it was.
LEMMA SmallAfter ==
    ASSUME IInv, SmallInv, NEW o \in Obj, NEW b, Small(b),
           breaker' = [breaker EXCEPT ![o] = b],
           db' = db \/ db' = Row(b) \/ db' = NoRow
    PROVE  SmallInv'
<1>1. \A x \in Obj : breaker'[x] = IF x = o THEN b ELSE breaker[x]
    BY DEF IInv, BreakersInv
<1>2. Small(Row(b)) /\ Small(NoRow)
    BY BreakerAssumption DEF Small, Row, NoRow
<1>3. \A x \in Obj : Small(breaker'[x])
    BY <1>1 DEF SmallInv
<1>4. Small(db')
    BY <1>2 DEF SmallInv
<1> QED
    BY <1>3, <1>4 DEF SmallInv, Small

\* A step that promises nothing.
LEMMA NothingPromised ==
    ASSUME IInv, SmallInv', quietUntil' = 0, now' = now
    PROVE  PeriodInv'
<1>1. ~(now' < quietUntil')
    BY DEF IInv, RequestsInv
<1> QED
    BY <1>1 DEF PeriodInv, QuietInv

\* A lookup or a query of object o, which becomes the refresh of b.
LEMMA LookupPeriod ==
    ASSUME IInv, PeriodInv, NEW o \in Obj, registered' = o, NEW b, Good(b), Small(b),
           now < quietUntil => Blocks(b, quietUntil),
           breaker' = [breaker EXCEPT ![o] = Refreshed(b)],
           db' = db \/ db' = Row(Refreshed(b)),
           UNCHANGED <<now, quietUntil>>
    PROVE  PeriodInv'
<1>1. SmallInv'
    BY MethodsSmall, SmallAfter DEF PeriodInv
<1>2. ASSUME now < quietUntil
      PROVE  /\ Blocks(db', quietUntil)
             /\ Blocks(breaker'[o], quietUntil)
  <2>1. Refreshed(b) = b
      BY <1>2, StillBlocked DEF IInv, RequestsInv
  <2>2. breaker'[o] = b
      BY <2>1 DEF IInv, BreakersInv
  <2>3. Blocks(Row(b), quietUntil) /\ Blocks(db, quietUntil)
      BY <1>2 DEF Blocks, Row, PeriodInv, QuietInv
  <2> QED
      BY <1>2, <2>1, <2>2, <2>3
<1>3. QuietInv'
    BY <1>2 DEF QuietInv, Blocks
<1> QED
    BY <1>1, <1>3 DEF PeriodInv

\* An outcome that leaves object o as b.
LEMMA OutcomePeriod ==
    ASSUME IInv, PeriodInv, NEW o \in Obj, NEW b, Small(b),
           breaker' = [breaker EXCEPT ![o] = b], db' = Row(b), now' = now,
           b.state = "OPEN" => b.lastFailureTime = now, Quiet(o, b)
    PROVE  PeriodInv'
<1>1. SmallInv'
    BY SmallAfter DEF PeriodInv
<1>2. CASE o = registered' /\ b.state = "OPEN"
  <2>1. quietUntil' = now + ShortestCooldown
      BY <1>2 DEF Quiet
  <2>2. now + ShortestCooldown \in Nat
      BY BreakerAssumption DEF IInv, RequestsInv
  <2>3. Blocks(b, quietUntil') /\ Blocks(Row(b), quietUntil')
      BY <1>2, <2>1, <2>2 DEF Blocks, Row
  <2>4. breaker'[o] = b
      BY DEF IInv, BreakersInv
  <2>5. QuietInv'
      BY <1>2, <2>3, <2>4 DEF QuietInv, Blocks
  <2> QED
      BY <1>1, <2>5 DEF PeriodInv
<1>3. CASE ~(o = registered' /\ b.state = "OPEN")
    BY <1>1, <1>3, NothingPromised DEF Quiet
<1> QED
    BY <1>2, <1>3

\* A step that leaves the breakers and the row alone, and promises no more.
LEMMA UntouchedPeriod ==
    ASSUME IInv, PeriodInv, UNCHANGED <<breaker, db, quietUntil>>,
           registered' = registered \/ registered' = NoObj,
           now' \in Nat, now' >= now
    PROVE  PeriodInv'
<1>1. SmallInv'
    BY DEF PeriodInv, SmallInv, Small
<1>2. now' < quietUntil' => now < quietUntil
    BY DEF IInv, RequestsInv
<1>3. QuietInv'
    BY <1>2 DEF PeriodInv, QuietInv, Blocks
<1> QED
    BY <1>1, <1>3 DEF PeriodInv

\* The gate of a request, and a query.
LEMMA LookupStepPeriod ==
    ASSUME IInv, PeriodInv, NEW o \in Obj,
           \/ \E r \in Req, opt \in Options : CheckGate(r, o, opt) \/ CheckGateForced(r, o, opt)
           \/ Query(o)
    PROVE  PeriodInv'
<1>1. PICK b : /\ b = LookedUp \/ \E opt \in Passed : b = Configured(opt)
               /\ breaker' = [breaker EXCEPT ![o] = Refreshed(b)]
               /\ db' = db \/ db' = Row(Refreshed(b))
    BY DEF CheckGate, CheckGateForced, Query, Touch, Save, Passed
<1>2. Entry(o) /\ registered' = o /\ UNCHANGED <<now, quietUntil>>
    BY DEF CheckGate, CheckGateForced, Query
<1>3. Good(b)
    BY <1>1, LookedUpGood, ConfiguredGood DEF IInv
<1>4. Small(b) /\ (now < quietUntil => Blocks(b, quietUntil))
    BY <1>1, LookupBlocks, BreakerAssumption DEF Passed
<1> QED
    BY <1>1, <1>2, <1>3, <1>4, LookupPeriod

\* A call let through: not while the breaker blocks.
LEMMA AdmittedPeriod ==
    ASSUME IInv, PeriodInv, NEW r \in Req, ExecuteAdmitted(r)
    PROVE  /\ PeriodInv'
           /\ request[r].obj = registered => now >= quietUntil
<1>1. PICK o \in Obj, a \in Breaker, b \in Breaker :
           /\ o = request[r].obj /\ a = breaker[o] /\ b = Refreshed(a)
           /\ Good(a) /\ Good(b) /\ Small(a) /\ Small(b)
  <2>1. request[r].phase # "idle"
      BY DEF ExecuteAdmitted
  <2>2. request[r].obj \in Obj /\ Good(breaker[request[r].obj])
      BY <2>1, HeldGood
  <2>3. Small(breaker[request[r].obj])
      BY <2>2 DEF PeriodInv, SmallInv
  <2> QED
      BY <2>2, <2>3, RefreshedGood, MethodsSmall DEF Good
<1>2. /\ CanExecute(b) /\ registered' = registered /\ now' = now
      /\ breaker' = [breaker EXCEPT ![o] = LetThrough(b)]
      /\ IF CooldownOver(a) THEN db' = Row(LetThrough(b)) ELSE db' = db
      /\ quietUntil' = IF CooldownOver(a) /\ o # registered THEN 0 ELSE quietUntil
    BY <1>1 DEF ExecuteAdmitted, Touch, Save
<1>3. now \in Nat /\ quietUntil \in Nat
    BY DEF IInv, RequestsInv
<1>4. o = registered => now >= quietUntil
  <2> SUFFICES ASSUME o = registered, now < quietUntil PROVE FALSE
      BY <1>3
  <2>1. registered # NoObj
      BY BreakerAssumption
  <2>2. Blocks(a, quietUntil)
      BY <1>1, <2>1 DEF PeriodInv, QuietInv
  <2> QED
      BY <1>1, <1>2, <1>3, <2>2, StillBlocked
<1>5. SmallInv'
    BY <1>1, <1>2, MethodsSmall, SmallAfter DEF PeriodInv
<1>6. CASE o = registered
  <2>1. ~(now' < quietUntil')
      BY <1>2, <1>3, <1>4, <1>6
  <2> QED
      BY <1>1, <1>4, <1>5, <2>1 DEF PeriodInv, QuietInv
<1>7. CASE o # registered /\ CooldownOver(a)
    BY <1>1, <1>2, <1>5, <1>7, NothingPromised
<1>8. CASE o # registered /\ ~CooldownOver(a)
  <2>1. db' = db /\ quietUntil' = quietUntil
      BY <1>2, <1>8
  <2>2. registered # NoObj => breaker'[registered] = breaker[registered]
      BY <1>2, <1>8 DEF IInv, BreakersInv
  <2>3. QuietInv'
      BY <1>2, <2>1, <2>2 DEF PeriodInv, QuietInv, Blocks
  <2> QED
      BY <1>1, <1>5, <1>8, <2>3 DEF PeriodInv
<1> QED
    BY <1>1, <1>4, <1>6, <1>7, <1>8

\* An outcome recorded by a request on its object, registered or dropped.
LEMMA RecordPeriod ==
    ASSUME IInv, PeriodInv, NEW r \in Req,
           \/ \E result \in {"ok", "bad"} : CallResolves(r, result)
           \/ \E kind \in Kinds \cup {NullKind} : CallThrows(r, kind)
           \/ ServeResult(r)
           \/ TripForResult(r)
    PROVE  PeriodInv'
<1>1. request[r].phase # "idle"
    BY DEF CallResolves, CallThrows, ServeResult, TripForResult, Failed
<1>2. PICK o \in Obj, a \in Breaker : o = request[r].obj /\ a = breaker[o] /\ Good(a) /\ Small(a)
    BY <1>1, HeldGood DEF Good, PeriodInv, SmallInv
<1>3. PICK b : /\ \/ b = OnSuccess(a)
                  \/ \E kind \in Kinds \cup {NullKind} : b = OnFailure(a, kind)
               /\ Record(r, b)
    BY <1>2 DEF CallResolves, CallThrows, ServeResult, TripForResult
<1>4. /\ b.failureCount <= MaxFailures
      /\ breaker' = [breaker EXCEPT ![o] = b] /\ db' = Row(b) /\ now' = now
      /\ Quiet(o, b)
    BY <1>2, <1>3 DEF Record, Save
<1>5. Small(b)
    BY <1>2, <1>3, <1>4, MethodsSmall, FailureSmall
<1>6. b.state = "OPEN" => b.lastFailureTime = now
    BY <1>2, <1>3, NotHalfOpen, FailureSmall DEF Good
<1> QED
    BY <1>4, <1>5, <1>6, OutcomePeriod

\* recordProviderSuccess.
LEMMA ProviderSuccessPeriod ==
    ASSUME IInv, PeriodInv, NEW r \in Req, NEW o \in Obj, RecordProviderSuccess(r, o)
    PROVE  PeriodInv'
<1>1. PICK b : b = Refreshed(LookedUp)
    OBVIOUS
<1>2. /\ Good(LookedUp) /\ Small(LookedUp)
      /\ now < quietUntil => Blocks(LookedUp, quietUntil)
    BY LookedUpGood, LookupBlocks, BreakerAssumption DEF Passed, IInv
<1>3. Good(b) /\ Small(b) /\ Small(OnSuccess(b)) /\ OnSuccess(b).state # "OPEN"
  <2>1. Good(b) /\ Small(b)
      BY <1>1, <1>2, RefreshedGood, MethodsSmall
  <2> QED
      BY <2>1, MethodsSmall, NotHalfOpen DEF Good
<1>4. CASE b.state = "OPEN"
  <2>1. /\ breaker' = [breaker EXCEPT ![o] = Refreshed(LookedUp)] /\ db' = db
        /\ registered' = o /\ UNCHANGED <<now, quietUntil>>
      BY <1>1, <1>4 DEF RecordProviderSuccess, Touch
  <2> QED
      BY <1>2, <2>1, LookupPeriod
<1>5. CASE b.state # "OPEN"
  <2>1. /\ breaker' = [breaker EXCEPT ![o] = OnSuccess(b)] /\ db' = Row(OnSuccess(b))
        /\ now' = now /\ Quiet(o, OnSuccess(b))
      BY <1>1, <1>5 DEF RecordProviderSuccess, Touch, Save
  <2> QED
      BY <1>3, <2>1, OutcomePeriod
<1> QED
    BY <1>4, <1>5

\* recordProviderFailure.
LEMMA ProviderFailurePeriod ==
    ASSUME IInv, PeriodInv, NEW r \in Req, NEW o \in Obj, NEW opt \in Options,
           RecordProviderFailure(r, o, opt)
    PROVE  PeriodInv'
<1>1. PICK c, b, f : c = Configured(opt) /\ b = Refreshed(c) /\ f = OnFailure(b, NullKind)
    OBVIOUS
<1>2. /\ Good(c) /\ Small(c) /\ c.options \in ConfiguredOptions
      /\ now < quietUntil => Blocks(c, quietUntil)
  <2>1. opt \in Passed
      BY DEF Passed
  <2> QED
      BY <1>1, <2>1, ConfiguredGood, LookupBlocks DEF IInv
<1>3. Good(b) /\ Small(b) /\ b.options \in ConfiguredOptions
    BY <1>1, <1>2, RefreshedGood, MethodsSmall
<1>4. CASE ~CanExecute(b)
  <2>1. /\ breaker' = [breaker EXCEPT ![o] = Refreshed(c)] /\ db' = Row(Refreshed(c))
        /\ registered' = o /\ UNCHANGED <<now, quietUntil>>
      BY <1>1, <1>4 DEF RecordProviderFailure, Touch, Save
  <2> QED
      BY <1>2, <2>1, LookupPeriod
<1>5. CASE CanExecute(b)
  <2>1. PICK d : d = Refreshed(f)
      OBVIOUS
  <2>2. /\ breaker' = [breaker EXCEPT ![o] = d] /\ db' = Row(d) /\ now' = now
        /\ Quiet(o, d) /\ d.failureCount <= MaxFailures
      BY <1>1, <1>5, <2>1 DEF RecordProviderFailure, Touch, Save
  <2>3. Good(f) /\ Small(f) /\ f.lastFailureTime = now
    <3>1. Good(f)
        BY <1>1, <1>3, OnFailureGood DEF IInv, RequestsInv
    <3> QED
        BY <1>1, <1>3, <2>1, <2>2, <3>1, FailureSmall
  <2>4. Small(d)
      BY <2>1, <2>3, MethodsSmall
  <2>5. d.state = "OPEN" => d.lastFailureTime = now
    <3>1. CASE CooldownOver(f)
        BY <2>1, <2>3, <3>1 DEF Refreshed, Good, Breaker
    <3>2. CASE ~CooldownOver(f)
        BY <2>1, <2>3, <3>2 DEF Refreshed
    <3> QED
        BY <3>1, <3>2
  <2> QED
      BY <2>2, <2>4, <2>5, OutcomePeriod
<1> QED
    BY <1>4, <1>5

\* The resets promise nothing.
LEMMA ResetPeriod ==
    ASSUME IInv, PeriodInv, ResetAll \/ \E o \in Obj : ClearProviderFailure(o)
    PROVE  PeriodInv'
<1>1. SmallInv'
  <2>1. CASE ResetAll /\ registered = NoObj
    <3>1. breaker' = breaker /\ db' = NoRow
        BY <2>1 DEF ResetAll
    <3> QED
        BY <3>1, BreakerAssumption DEF PeriodInv, SmallInv, Small, NoRow
  <2>2. CASE ResetAll /\ registered # NoObj
    <3>1. registered \in Obj /\ Good(breaker[registered]) /\ Small(breaker[registered])
        BY <2>2 DEF IInv, BreakersInv, Good, PeriodInv, SmallInv
    <3>2. /\ breaker' = [breaker EXCEPT ![registered] = ResetBreaker(breaker[registered])]
          /\ db' = NoRow
        BY <2>2 DEF ResetAll
    <3>3. Small(ResetBreaker(breaker[registered]))
        BY <3>1, MethodsSmall
    <3> QED
        BY <3>1, <3>2, <3>3, SmallAfter DEF PeriodInv
  <2>3. ASSUME NEW o \in Obj, ClearProviderFailure(o)
        PROVE  SmallInv'
    <3>1. Good(LookedUp) /\ Small(LookedUp)
        BY <2>3, LookedUpGood, LookupBlocks, BreakerAssumption DEF Passed, IInv
    <3>2. /\ breaker' = [breaker EXCEPT ![o] = ResetBreaker(LookedUp)]
          /\ db' = Row(ResetBreaker(LookedUp))
        BY <2>3 DEF ClearProviderFailure, Touch, Save
    <3> QED
        BY <3>1, <3>2, MethodsSmall, SmallAfter DEF PeriodInv
  <2> QED
      BY <2>1, <2>2, <2>3
<1>2. quietUntil' = 0 /\ now' = now
    BY DEF ResetAll, ClearProviderFailure
<1> QED
    BY <1>1, <1>2, NothingPromised

\* A pass of the sweep or of the eviction drops no breaker that blocks.
LEMMA CollectPeriod ==
    ASSUME IInv, PeriodInv, NEW mayDrop, Collect(mayDrop)
    PROVE  PeriodInv'
<1>1. PICK o \in Obj, a \in Breaker :
           /\ o = registered /\ a = breaker[o] /\ Good(a) /\ Small(a)
           /\ now < quietUntil => Blocks(a, quietUntil)
    BY DEF Collect, IInv, BreakersInv, Good, PeriodInv, SmallInv, QuietInv
<1>2. UNCHANGED <<now, quietUntil>> /\ now \in Nat /\ quietUntil \in Nat
    BY DEF Collect, IInv, RequestsInv
<1>3. CASE Cold(Refreshed(a)) /\ mayDrop
  <2>1. breaker' = breaker /\ db' = NoRow
      BY <1>1, <1>3 DEF Collect
  <2>2. SmallInv'
      BY <2>1, BreakerAssumption DEF PeriodInv, SmallInv, Small, NoRow
  <2>3. ~(now < quietUntil)
      BY <1>1, <1>2, <1>3, StillBlocked DEF Cold, Blocks
  <2> QED
      BY <1>2, <2>2, <2>3 DEF PeriodInv, QuietInv
<1>4. CASE ~(Cold(Refreshed(a)) /\ mayDrop)
  <2>1. /\ breaker' = [breaker EXCEPT ![o] = Refreshed(a)] /\ registered' = o
        /\ db' = db \/ db' = Row(Refreshed(a))
      BY <1>1, <1>4 DEF Collect, Touch, Save
  <2> QED
      BY <1>1, <1>2, <2>1, LookupPeriod
<1> QED
    BY <1>3, <1>4

\* A restart keeps the row, and with it the block.
LEMMA RestartPeriod ==
    ASSUME IInv, PeriodInv, Restart
    PROVE  PeriodInv'
<1>1. /\ breaker' = [o \in Obj |-> Blank] /\ registered' = NoObj
      /\ UNCHANGED <<db, now, quietUntil>>
    BY DEF Restart
<1>2. Small(Blank)
    BY BreakerAssumption DEF Small, Blank
<1>3. SmallInv'
    BY <1>1, <1>2 DEF PeriodInv, SmallInv, Small
<1>4. QuietInv'
    BY <1>1 DEF PeriodInv, QuietInv, Blocks
<1> QED
    BY <1>3, <1>4 DEF PeriodInv

\* Every step keeps the promise.
LEMMA PeriodPreserved == IInv /\ PeriodInv /\ [Next]_vars => PeriodInv'
<1> SUFFICES ASSUME IInv, PeriodInv, [Next]_vars PROVE PeriodInv'
    OBVIOUS
<1>1. ASSUME NEW r \in Req,
             \/ \E o \in Obj, opt \in Options :
                   \/ CheckGate(r, o, opt) \/ CheckGateForced(r, o, opt)
                   \/ RecordProviderFailure(r, o, opt)
             \/ \E o \in Obj : RecordProviderSuccess(r, o)
             \/ ExecuteAdmitted(r)
             \/ \E result \in {"ok", "bad"} : CallResolves(r, result)
             \/ \E kind \in Kinds \cup {NullKind} : CallThrows(r, kind)
             \/ ServeResult(r) \/ TripForResult(r)
      PROVE  PeriodInv'
    BY <1>1, LookupStepPeriod, ProviderFailurePeriod, ProviderSuccessPeriod, AdmittedPeriod,
       RecordPeriod
<1>2. ASSUME NEW r \in Req,
             \/ ExecuteRefused(r) \/ CallThrowsIgnored(r) \/ BypassedCallEnds(r)
             \/ TryNextAccount(r) \/ ReturnResult(r)
      PROVE  PeriodInv'
  <2>1. NoRecord
      BY <1>2 DEF ExecuteRefused, CallThrowsIgnored, BypassedCallEnds, TryNextAccount,
                  ReturnResult
  <2> QED
      BY <2>1, UntouchedPeriod DEF NoRecord, IInv, RequestsInv
<1>3. ASSUME NEW o \in Obj, Query(o) \/ ClearProviderFailure(o)
      PROVE  PeriodInv'
    BY <1>3, LookupStepPeriod, ResetPeriod
<1>4. CASE ResetAll \/ Sweep \/ Evict \/ Restart
    BY <1>4, ResetPeriod, CollectPeriod, RestartPeriod DEF Sweep, Evict
<1>5. CASE Tick \/ UNCHANGED vars
  <2>1. /\ UNCHANGED <<breaker, db, quietUntil, registered>>
        /\ now' = now \/ now' = now + 1
      BY <1>5 DEF Tick, vars
  <2>2. now' \in Nat /\ now' >= now
      BY <2>1 DEF IInv, RequestsInv
  <2> QED
      BY <2>1, <2>2, UntouchedPeriod
<1> QED
    BY <1>1, <1>2, <1>3, <1>4, <1>5 DEF Next

\* Only execute lets a call through.
LEMMA OnlyExecuteCalls ==
    ASSUME IInv, Next, NEW r \in Req,
           request[r].phase = "ready", request'[r].phase = "calling"
    PROVE  ExecuteAdmitted(r)
<1>1. request \in [Req -> [phase : Phases, obj : Obj \cup {NoObj}]]
    BY DEF IInv, RequestsInv
<1>2. ASSUME NEW x \in Req, NEW p, Move(x, p), p.phase # "calling" \/ x # r
      PROVE  FALSE
    BY <1>1, <1>2 DEF Move
<1>3. ASSUME NEW x \in Req, ExecuteAdmitted(x)
      PROVE  ExecuteAdmitted(r)
    BY <1>2, <1>3 DEF ExecuteAdmitted
<1>4. request' # request
    OBVIOUS
<1>5. \A o : /\ At("ready", o).phase # "calling" /\ At("bad", o).phase # "calling"
             /\ At("bypassing", o).phase # "calling" /\ At("ok", o).phase # "calling"
             /\ At("badForced", o).phase # "calling" /\ At("comboOk", o).phase # "calling"
             /\ Idle.phase # "calling"
    BY DEF At, Idle
<1>6. ASSUME NEW x \in Req,
             \/ \E o \in Obj, opt \in Options :
                   \/ CheckGate(x, o, opt) \/ CheckGateForced(x, o, opt)
                   \/ RecordProviderFailure(x, o, opt)
             \/ \E o \in Obj : RecordProviderSuccess(x, o)
      PROVE  FALSE
    BY <1>2, <1>4, <1>5, <1>6
    DEF CheckGate, CheckGateForced, RecordProviderFailure, RecordProviderSuccess
<1>7. ASSUME NEW x \in Req,
             \/ \E result \in {"ok", "bad"} : CallResolves(x, result)
             \/ \E kind \in Kinds \cup {NullKind} : CallThrows(x, kind)
             \/ ServeResult(x) \/ TripForResult(x)
      PROVE  FALSE
    BY <1>2, <1>5, <1>7 DEF CallResolves, CallThrows, ServeResult, TripForResult
<1>8. ASSUME NEW x \in Req,
             \/ ExecuteRefused(x) \/ CallThrowsIgnored(x) \/ BypassedCallEnds(x)
             \/ TryNextAccount(x) \/ ReturnResult(x)
      PROVE  FALSE
    BY <1>2, <1>5, <1>8
    DEF ExecuteRefused, CallThrowsIgnored, BypassedCallEnds, TryNextAccount, ReturnResult
<1>9. ASSUME \/ \E o \in Obj : Query(o) \/ ClearProviderFailure(o)
             \/ ResetAll \/ Sweep \/ Evict \/ Tick
      PROVE  FALSE
    BY <1>4, <1>9 DEF Query, ClearProviderFailure, ResetAll, Sweep, Evict, Collect, Tick
<1>10. ~Restart
    BY DEF Restart, Idle
<1> QED
    BY <1>3, <1>6, <1>7, <1>8, <1>9, <1>10 DEF Next

\* After a failure that leaves the registered breaker OPEN, execute lets no call
\* through before the shortest cooldown is over, whatever queries refresh it,
\* the sweep drops or a restart restores.
THEOREM OpenPeriodKept == Spec => OpenPeriodHonoured
<1>1. Init => PeriodInv
    BY BreakerAssumption DEF Init, PeriodInv, SmallInv, QuietInv, Small, Blank, NoRow
<1>2. IInv /\ PeriodInv /\ [Next]_vars =>
        [\A r \in Req :
            /\ request[r].phase = "ready" /\ request'[r].phase = "calling"
            /\ request[r].obj = registered
            => now >= quietUntil]_vars
    BY OnlyExecuteCalls, AdmittedPeriod
<1> QED
    BY <1>1, <1>2, PeriodPreserved, Invariance, PTL DEF Spec, OpenPeriodHonoured
=============================================================================
