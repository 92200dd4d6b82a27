---------------------------- MODULE TokenRefresh ----------------------------
(***************************************************************************)
(* Refreshing rotating OAuth tokens: open-sse/services/tokenRefresh.ts with *)
(* its rotation map, compare-and-swap guard and per-provider breaker, the   *)
(* lane of refreshSerializer.ts, and the callers in chatCore.ts, base.ts,   *)
(* sse/services/tokenRefresh.ts and tokenHealthCheck.ts.                    *)
(*                                                                          *)
(* All connections are of one rotating provider whose executor hands the    *)
(* sentinel of an unrecoverable error on (executors/default.ts).  A refresh *)
(* token is its generation: 1 is the first, each refresh consumes one and   *)
(* issues the next, 0 is no token.  The event loop switches only at the     *)
(* lane, the POST, the settle gap, the timeout and the backoff; everything  *)
(* between two of those is one step.                                        *)
(***************************************************************************)
EXTENDS Naturals, Sequences, FiniteSets, Functions

CONSTANTS Conns,          \* connections, all of one rotation group
          Callers,        \* requests and sweeps that may hold credentials
          KindOf,         \* what each caller is
          ConnOf,         \* whose credentials each caller uses
          FirstLife,      \* how long each row's access token lives at the start
          MaxGen,         \* bound: the last token generation of any connection
          LastGen,        \* bound: the last generation issued to each connection
          MaxAttempts,    \* maxRetries of refreshWithRetry
          BreakerAfter    \* CIRCUIT_BREAKER_THRESHOLD

Kinds == {"reactive", "proactive", "preflight", "sweep"}

(* How long the access token of a row still lives: more than the 5 minutes  *)
(* of TOKEN_EXPIRY_BUFFER, more than the minute getAccessToken asks for, or *)
(* less.                                                                    *)
Lives == {"ample", "short", "over"}

ASSUME ConstantsAssumption ==
  /\ IsFiniteSet(Callers)
  /\ KindOf \in [Callers -> Kinds]
  /\ ConnOf \in [Callers -> Conns]
  /\ FirstLife \in [Conns -> Lives]
  /\ MaxGen \in Nat \ {0}
  /\ LastGen \in [Conns -> 1 .. MaxGen]
  /\ MaxAttempts \in Nat \ {0}
  /\ BreakerAfter \in Nat \ {0}

VARIABLES db,        \* the row of each connection
          provider,  \* the provider: newest token issued, is the family revoked
          rotation,  \* tokenRotationMap: what a consumed token was rotated to
          lane,      \* groupTail: connections whose refresh holds or awaits the lane
          refresh,   \* connectionRefreshMutex: the refresh in flight
          caller,    \* what each caller holds and where it stands
          breaker,   \* _circuitBreaker of the provider
          received   \* history: the newest token this process was ever given

vars == <<db, provider, rotation, lane, refresh, caller, breaker, received>>

Gens    == 1 .. MaxGen
Tokens(g) == [kind |-> "tokens", gen |-> g]
Null    == [kind |-> "null", gen |-> 0]
Error   == [kind |-> "error", gen |-> 0]        \* the unrecoverable sentinel
Results == {Null, Error} \cup {Tokens(g) : g \in Gens}
Idle    == [pc |-> "idle", token |-> 0, attempted |-> 0, attempt |-> 0,
            persisted |-> FALSE]
NoEntry == [pc |-> "none", owner |-> "none", presented |-> 0,
            expected |-> 0, result |-> Null]

Init ==
  /\ db = [c \in Conns |-> [token |-> 1, life |-> FirstLife[c], active |-> TRUE]]
  /\ provider = [c \in Conns |-> [issued |-> 1, revoked |-> FALSE]]
  /\ rotation = [c \in Conns |-> [g \in Gens |-> 0]]
  /\ lane = <<>>
  /\ refresh = [c \in Conns |-> NoEntry]
  /\ caller = [k \in Callers |-> Idle]
  /\ breaker = [failures |-> 0, blocked |-> FALSE]
  /\ received = [c \in Conns |-> 1]

(* The row after the tokens of generation g were written to it.             *)
Written(row, g) == [row EXCEPT !.token = g, !.life = "ample"]

(* wasRefreshTokenRotated: the row holds another token than `attempted`.    *)
WasRefreshTokenRotated(attempted, latest) ==
  attempted # 0 /\ latest # 0 /\ latest # attempted

(* casGuardShouldSkipPersist; a caller without a guard expects token 0.     *)
CasGuardShouldSkipPersist(expected, row) ==
  WasRefreshTokenRotated(expected, row.token)

(* onPersist inside the mutex: the row, and whether the callback ran.       *)
Persists(expected, row, r) ==
  r.kind = "tokens" /\ ~CasGuardShouldSkipPersist(expected, row)

(* The guard is built by the reactive path only.                            *)
Expected(k, attempted) == IF KindOf[k] = "reactive" THEN attempted ELSE 0

(* Which callers write an answer their own callback did not persist.        *)
FallsBack(k) == KindOf[k] # "preflight"

(* An unrecoverable error and the row as caller k finds it.                 *)
Deactivates(k, attempted, row) ==
  CASE KindOf[k] = "reactive" -> ~WasRefreshTokenRotated(attempted, row.token)
    [] KindOf[k] = "sweep"    -> row.token = attempted /\ row.life # "ample"
    [] OTHER                  -> FALSE

Deactivated(row, ks) ==
  IF ks = {} THEN row
  ELSE [row EXCEPT !.active = FALSE,
                   !.token = IF \E k \in ks : KindOf[k] = "sweep" THEN 0 ELSE @]

(* The row once the refresh of owner `o` answered r and every caller in ks  *)
(* went on with it.                                                         *)
RowAfter(row, o, expected, ks, r) ==
  LET persisted == Persists(expected, row, r)
      inside    == IF persisted THEN Written(row, r.gen) ELSE row
      ran(k)    == caller[k].persisted \/ (k = o /\ persisted)
  IN  CASE r.kind = "tokens" -> IF \E k \in ks : FallsBack(k) /\ ~ran(k)
                                THEN Written(inside, r.gen) ELSE inside
        [] r.kind = "error"  -> Deactivated(row, {k \in ks :
                                    Deactivates(k, caller[k].attempted, row)})
        [] OTHER             -> row

(* A reactive caller with attempts left sleeps and tries again; every other *)
(* caller is done with a null.                                              *)
Retries(k) == KindOf[k] = "reactive" /\ caller[k].attempt + 1 < MaxAttempts

AfterAnswer(k, r) ==
  IF r = Null /\ Retries(k)
  THEN [caller[k] EXCEPT !.pc = "backoff", !.attempt = @ + 1]
  ELSE Idle

(* recordSuccess and recordFailure, for the reactive callers among ks; the  *)
(* count stops at the threshold.                                            *)
RecordSuccess == [failures |-> 0, blocked |-> FALSE]
RecordFailure(n) ==
  LET total == IF breaker.failures + n < BreakerAfter
               THEN breaker.failures + n ELSE BreakerAfter
  IN  [failures |-> total,
       blocked  |-> breaker.blocked \/ (n > 0 /\ total = BreakerAfter)]

RecordOutcome(ks, r) ==
  LET reactive == {k \in ks : KindOf[k] = "reactive"}
  IN  CASE r.kind = "tokens" /\ reactive # {} -> RecordSuccess
        [] r = Null -> RecordFailure(Cardinality({k \in reactive : ~Retries(k)}))
        [] OTHER    -> breaker

(* isProviderBlocked deletes an entry whose cooldown is over.               *)
IsProviderBlocked == breaker.blocked
Checked(b) == IF ~b.blocked /\ b.failures = BreakerAfter THEN RecordSuccess ELSE b

Waiting(c) == {k \in Callers : caller[k].pc = "waiting" /\ ConnOf[k] = c}
-----------------------------------------------------------------------------
(* A caller loads the row of an active connection and starts its work.      *)
Load(k) ==
  LET row == db[ConnOf[k]]
  IN  /\ caller[k].pc = "idle" /\ refresh[ConnOf[k]].owner # k
      /\ row.active /\ row.token # 0
      /\ caller' = [caller EXCEPT ![k] = [Idle EXCEPT !.pc = "loaded",
                        !.token = row.token, !.attempted = row.token]]
      /\ UNCHANGED <<db, provider, rotation, lane, refresh, breaker, received>>

(* The credentials were good: no refresh is needed.                         *)
Finish(k) ==
  /\ caller[k].pc = "loaded"
  /\ caller' = [caller EXCEPT ![k] = Idle]
  /\ UNCHANGED <<db, provider, rotation, lane, refresh, breaker, received>>

(* refreshWithRetry checks the breaker once, before the first attempt.      *)
GivesUpBlocked(k) ==
  /\ caller[k].pc = "loaded" /\ KindOf[k] = "reactive" /\ IsProviderBlocked
  /\ caller' = [caller EXCEPT ![k] = Idle]
  /\ UNCHANGED <<db, provider, rotation, lane, refresh, breaker, received>>

(* The caller asks for a refresh, for the first time or after a backoff.    *)
Asks(k) ==
  \/ caller[k].pc = "backoff"
  \/ caller[k].pc = "loaded" /\ ~(KindOf[k] = "reactive" /\ IsProviderBlocked)

CheckedBy(k) ==
  IF KindOf[k] = "reactive" /\ caller[k].pc = "loaded" THEN Checked(breaker) ELSE breaker

(* Layer 1: a refresh of the connection is in flight and is shared.         *)
ShareRefresh(k) ==
  /\ Asks(k) /\ refresh[ConnOf[k]].pc # "none"
  /\ caller' = [caller EXCEPT ![k].pc = "waiting"]
  /\ breaker' = CheckedBy(k)
  /\ UNCHANGED <<db, provider, rotation, lane, refresh, received>>

(* What a caller may be answered without a POST: the rotation map, or the   *)
(* row when it holds another token whose access token lives a minute more.  *)
NewerInRow(k) ==
  LET row == db[ConnOf[k]]
  IN  row.token # 0 /\ row.token # caller[k].token

LookupRotation(k) == rotation[ConnOf[k]][caller[k].token]

Cached(k) ==
  IF LookupRotation(k) # 0 THEN LookupRotation(k)
  ELSE IF NewerInRow(k) /\ db[ConnOf[k]].life # "over" THEN db[ConnOf[k]].token
  ELSE 0

(* The map's answer is written like a provider's, with a new lifetime; the  *)
(* row's carries its own expiresAt, so that writing it changes nothing.     *)
AnswerFromCache(k) ==
  LET c == ConnOf[k]
      r == Tokens(Cached(k))
  IN  /\ Asks(k) /\ refresh[c].pc = "none"
      /\ Cached(k) # 0
      /\ db' = IF LookupRotation(k) = 0 THEN db
               ELSE [db EXCEPT ![c] =
                       RowAfter(@, k, Expected(k, caller[k].attempted), {k}, r)]
      /\ caller' = [caller EXCEPT ![k] = Idle]
      /\ breaker' = IF KindOf[k] = "reactive" THEN RecordSuccess ELSE breaker
      /\ UNCHANGED <<provider, rotation, lane, refresh, received>>

Bug_PresentedFromMemory(k) == caller[k].token

(* The newest token known: the row's when it differs, else the caller's.    *)
Presented(k) == IF NewerInRow(k) THEN db[ConnOf[k]].token ELSE caller[k].token

(* The refresh takes the mutex and queues for the lane of its group.        *)
BeginRefresh(k) ==
  LET c == ConnOf[k]
  IN  /\ Asks(k) /\ refresh[c].pc = "none"
      /\ Cached(k) = 0
      /\ refresh' = [refresh EXCEPT ![c] =
                       [pc |-> "lane", owner |-> k, presented |-> Presented(k),
                        expected |-> Expected(k, caller[k].attempted), result |-> Null]]
      /\ lane' = Append(lane, c)
      /\ caller' = [caller EXCEPT ![k].pc = "waiting", ![k].token = Presented(k)]
      /\ breaker' = CheckedBy(k)
      /\ UNCHANGED <<db, provider, rotation, received>>

Bug_PostWhileAwaited(c) ==
  /\ refresh[c].pc = "lane" /\ Head(lane) = c
  /\ caller[refresh[c].owner].pc = "waiting"
  /\ refresh' = [refresh EXCEPT ![c].pc = "post"]
  /\ UNCHANGED <<db, provider, rotation, lane, caller, breaker, received>>

(* The lane is this refresh's: the POST leaves.                             *)
Post(c) ==
  /\ refresh[c].pc = "lane" /\ Head(lane) = c
  /\ refresh' = [refresh EXCEPT ![c].pc = "post"]
  /\ UNCHANGED <<db, provider, rotation, lane, caller, breaker, received>>

(* recordRotation files the new tokens under the one that was presented.    *)
Bug_RecordUnderAttempted(c, r) ==
  IF r.kind = "tokens"
  THEN [rotation EXCEPT ![c][caller[refresh[c].owner].attempted] = r.gen] ELSE rotation

RecordRotation(c, r) ==
  IF r.kind = "tokens"
  THEN [rotation EXCEPT ![c][refresh[c].presented] = r.gen] ELSE rotation

(* The refresh of c settles: the rotation is recorded, the result persisted *)
(* inside the mutex, the mutex and the lane released, and every caller that *)
(* still waits goes on.  An owner that gave up waiting still has its        *)
(* callback run.                                                            *)
Settle(c, r) ==
  LET e  == refresh[c]
      ks == Waiting(c)
      ran(k) == k = e.owner /\ caller[k].pc # "idle" /\ Persists(e.expected, db[c], r)
  IN  /\ rotation' = RecordRotation(c, r)
      /\ db' = [db EXCEPT ![c] = RowAfter(@, e.owner, e.expected, ks, r)]
      /\ caller' = [k \in Callers |->
                      IF k \in ks THEN AfterAnswer(k, r)
                      ELSE IF ran(k) THEN [caller[k] EXCEPT !.persisted = TRUE, !.token = r.gen]
                      ELSE caller[k]]
      /\ breaker' = RecordOutcome(ks, r)
      /\ refresh' = [refresh EXCEPT ![c] = NoEntry]
      /\ lane' = Tail(lane)

(* The lane is kept for the settle gap when another refresh queues behind.  *)
Answered(c, r) ==
  IF Len(lane) > 1
  THEN /\ refresh' = [refresh EXCEPT ![c].pc = "spacing", ![c].result = r]
       /\ UNCHANGED <<db, rotation, lane, caller, breaker>>
  ELSE Settle(c, r)

(* The provider rotates a live token; its answer may be lost on the way.    *)
PostRotates(c) ==
  LET next == provider[c].issued + 1
  IN  /\ refresh[c].pc = "post" /\ refresh[c].presented = provider[c].issued
      /\ ~provider[c].revoked /\ next <= LastGen[c]
      /\ provider' = [provider EXCEPT ![c].issued = next]
      /\ \/ Answered(c, Tokens(next)) /\ received' = [received EXCEPT ![c] = next]
         \/ Answered(c, Null) /\ UNCHANGED received

(* A consumed token, or one of a revoked family, is refused; the reuse may  *)
(* cost the family, and so may its user.                                    *)
PostRefused(c) ==
  /\ refresh[c].pc = "post"
  /\ \E revoked \in BOOLEAN :
       /\ provider[c].revoked => revoked
       /\ refresh[c].presented = provider[c].issued => revoked
       /\ provider' = [provider EXCEPT ![c].revoked = revoked]
  /\ Answered(c, Error)
  /\ UNCHANGED received

(* The request fails on the way or the answer is no verdict.                *)
PostFails(c) ==
  /\ refresh[c].pc = "post"
  /\ Answered(c, Null)
  /\ UNCHANGED <<provider, received>>

SpacingOver(c) ==
  /\ refresh[c].pc = "spacing"
  /\ Settle(c, refresh[c].result)
  /\ UNCHANGED <<provider, received>>

(* withTimeout: 30 s are over; the refresh goes on without its caller.      *)
Timeout(k) ==
  /\ caller[k].pc = "waiting" /\ KindOf[k] = "reactive"
  /\ caller' = [caller EXCEPT ![k] = AfterAnswer(k, Null)]
  /\ breaker' = RecordOutcome({k}, Null)
  /\ UNCHANGED <<db, provider, rotation, lane, refresh, received>>

(* Time: an access token ages, a map entry or the breaker runs out.         *)
Expire(c) ==
  /\ db[c].life # "over"
  /\ db' = [db EXCEPT ![c].life = IF @ = "ample" THEN "short" ELSE "over"]
  /\ UNCHANGED <<provider, rotation, lane, refresh, caller, breaker, received>>

CleanupRotationMap(c) ==
  /\ \E g \in Gens : rotation[c][g] # 0 /\ rotation' = [rotation EXCEPT ![c][g] = 0]
  /\ UNCHANGED <<db, provider, lane, refresh, caller, breaker, received>>

CooldownOver ==
  /\ breaker.blocked
  /\ breaker' = [breaker EXCEPT !.blocked = FALSE]
  /\ UNCHANGED <<db, provider, rotation, lane, refresh, caller, received>>

Ask(k) == GivesUpBlocked(k) \/ ShareRefresh(k) \/ AnswerFromCache(k) \/ BeginRefresh(k)
PostEnds(c) == PostRotates(c) \/ PostRefused(c) \/ PostFails(c)

Next ==
  \/ \E k \in Callers : Load(k) \/ Finish(k) \/ Ask(k) \/ Timeout(k)
  \/ \E c \in Conns : \/ Post(c) \/ PostEnds(c) \/ SpacingOver(c)
                       \/ Expire(c) \/ CleanupRotationMap(c)
  \/ CooldownOver

Spec == Init /\ [][Next]_vars

(* A started request goes on, timers fire, and a POST ends (the client has  *)
(* its own limits on headers and body).                                     *)
Fairness ==
  /\ \A k \in Callers : WF_vars(Finish(k) \/ Ask(k))
  /\ \A c \in Conns : WF_vars(Post(c)) /\ WF_vars(PostEnds(c)) /\ WF_vars(SpacingOver(c))

FairSpec == Spec /\ Fairness
-----------------------------------------------------------------------------
(* Every variable has its type; the lane is held by exactly the refreshes   *)
(* in the mutex, its head alone may be at the provider, and a consumed      *)
(* token is mapped to its direct successor, so a stale caller is redirected *)
(* one rotation at a time (recordRotation files under the presented token). *)
TypeOK ==
  /\ db \in [Conns -> [token : 0 .. MaxGen, life : Lives, active : BOOLEAN]]
  /\ provider \in [Conns -> [issued : Gens, revoked : BOOLEAN]]
  /\ rotation \in [Conns -> [Gens -> 0 .. MaxGen]]
  /\ \A c \in Conns, g \in Gens : rotation[c][g] \in {0, g + 1}
  /\ refresh \in [Conns -> [pc : {"none", "lane", "post", "spacing"},
                             owner : Callers \cup {"none"}, presented : 0 .. MaxGen,
                             expected : 0 .. MaxGen, result : Results]]
  /\ IsInjective(lane)
  /\ Range(lane) = {c \in Conns : refresh[c].pc # "none"}
  /\ \A c \in Conns : refresh[c].pc \in {"post", "spacing"} => Head(lane) = c
  /\ caller \in [Callers -> [pc : {"idle", "loaded", "waiting", "backoff"},
                              token : 0 .. MaxGen, attempted : 0 .. MaxGen,
                              attempt : 0 .. MaxAttempts - 1, persisted : BOOLEAN]]
  /\ \A k \in Callers : caller[k].pc = "waiting" => refresh[ConnOf[k]].pc # "none"
  /\ breaker \in [failures : 0 .. BreakerAfter, blocked : BOOLEAN]
  /\ received \in [Conns -> Gens]

(* While a refresh of a connection is in flight nobody else writes its row: *)
(* the row still holds the token the refresh presented (or was cleared      *)
(* before).  Stale credentials are caught by the mutex, the rotation map or *)
(* the row.  Otherwise a token already consumed would go to the provider,   *)
(* which takes it for a stolen one and revokes the family.  (The writes of  *)
(* the callers that share an answer are part of the step that ends the      *)
(* refresh: between the answer and those writes the event loop runs no      *)
(* timer and no I/O.)                                                       *)
RefreshOwnsRow ==
  \A c \in Conns : refresh[c].pc # "none" => db[c].token \in {0, refresh[c].presented}

(* Every caller that loaded credentials is eventually done with them,       *)
(* whatever the provider answers to the refreshes queued before its own.    *)
EveryCallerEnds ==
  \A k \in Callers : caller[k].pc # "idle" ~> caller[k].pc = "idle"

(* Once a refresh is over the row holds the newest token the process was    *)
(* given, or was cleared as dead: "This makes [network refresh + DB write + *)
(* outer-state mutation] one atomic step" (chatCore.ts).                    *)
RowHoldsNewest ==
  \A c \in Conns : refresh[c].pc = "none" => db[c].token \in {0, received[c]}
=============================================================================
