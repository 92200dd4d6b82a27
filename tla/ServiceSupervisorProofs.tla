---------------------- MODULE ServiceSupervisorProofs ----------------------
(***************************************************************************)
(* Proofs about ServiceSupervisor, for any number of operations and child  *)
(* processes.                                                              *)
(*                                                                         *)
(* StateMatchesChild is not inductive: an operation that ends writes       *)
(* "running" or "stopped" on the strength of what it did several awaits    *)
(* before, while exit events and health answers came in between.  IInv     *)
(* says what is still true at each of those awaits, and that only the      *)
(* operation at the head of the lock is past its first.                    *)
(***************************************************************************)
EXTENDS ServiceSupervisor, QueueFacts

AtRest == {"idle", "queued"}

Starting == {"probing", "resolving", "killing", "waiting"}

\* The lock and the operations: one operation at a time is under way.
LockOK ==
    /\ op \in [Op -> Operation]
    /\ lock \in Seq(Op)
    /\ Distinct(lock)
    /\ Elements(lock) = {o \in Op : op[o].pc # "idle"}
    /\ \A o \in Op : op[o].pc \notin AtRest => HasLock(o)

StatusOK ==
    /\ state \in States
    /\ row \in States
    /\ adopted \in BOOLEAN
    /\ spawnFailed \in BOOLEAN
    /\ child \in Proc \cup {NoChild, FailedChild}
    /\ proc \in [Proc -> {"unused", "alive", "dead"}]
    /\ killed \subseteq Proc
    /\ checker \in Checker
    /\ probes \in 0..MaxProbes

ChildInHand == child \in Proc /\ proc[child] # "unused"

\* What an operation finds when one of its awaits is over.
PhaseOK ==
    \A o \in Op :
       /\ op[o].pc \in Starting => state \in {"starting", "error"} /\ ~adopted
       /\ op[o].pc = "waiting" /\ state = "starting" => ChildInHand /\ checker.active
       /\ op[o].pc = "stopping" => state = "stopping"

RestOK ==
    (\A o \in Op : op[o].pc \in AtRest) => state \in {"stopped", "running", "error"}

\* The states that promise something about child, row and checker.
StateOK ==
    /\ state = "running" => row = "running" /\ (adopted \/ ChildInHand) /\ checker.active
    /\ state = "stopped" => child = NoChild /\ ~adopted
    /\ state \in {"stopping", "stopped"} => ~checker.active

IInv == LockOK /\ StatusOK /\ PhaseOK /\ RestOK /\ StateOK

-----------------------------------------------------------------------------
(* The lock.                                                               *)

\* Only the operation at the head of the lock is past its first await.
LEMMA OthersRest ==
  ASSUME LockOK, NEW o \in Op, HasLock(o)
  PROVE  \A p \in Op : p # o => op[p].pc \in AtRest
  BY DEF LockOK, HasLock

\* The head of the lock moves on to its next await.
LEMMA GoLock ==
  ASSUME LockOK, NEW o \in Op, HasLock(o), NEW pc, Go(o, pc),
         pc \in Starting \cup {"stopping"}
  PROVE  /\ LockOK'
         /\ op'[o].pc = pc
         /\ \A p \in Op : p # o => op'[p].pc \in AtRest
<1>1. op' = [op EXCEPT ![o].pc = pc] /\ lock' = lock
  BY DEF Go
<1>2. op \in [Op -> Operation]
  BY DEF LockOK
<1>3. op' \in [Op -> Operation]
  BY <1>1, <1>2 DEF Operation, Starting
<1>4. op'[o].pc = pc /\ \A p \in Op : p # o => op'[p] = op[p]
  BY <1>1, <1>2 DEF Operation
<1>5. o \in Elements(lock)
  BY TailFacts DEF LockOK, HasLock
<1>6. op[o].pc # "idle" /\ pc # "idle"
  BY <1>5 DEF LockOK, Starting
<1>7. {p \in Op : op'[p].pc # "idle"} = {p \in Op : op[p].pc # "idle"}
  BY <1>4, <1>6
<1>8. \A p \in Op : op'[p].pc \notin AtRest => HasLock(p)'
  BY <1>1, <1>4 DEF LockOK, HasLock
<1>9. LockOK'
  BY <1>1, <1>3, <1>7, <1>8 DEF LockOK
<1>. QED
  BY <1>4, <1>9, OthersRest

\* The head of the lock is done and the next operation has its turn.
LEMMA SettleLock ==
  ASSUME LockOK, NEW o \in Op, HasLock(o), NEW r \in {"resolved", "rejected"}, Settle(o, r)
  PROVE  /\ LockOK'
         /\ \A p \in Op : op'[p].pc \in AtRest
<1>1. op' = [op EXCEPT ![o].pc = "idle", ![o].result = r] /\ lock' = Tail(lock)
  BY DEF Settle
<1>2. op \in [Op -> Operation]
  BY DEF LockOK
<1>3. op' \in [Op -> Operation]
  BY <1>1, <1>2 DEF Operation
<1>4. op'[o].pc = "idle" /\ \A p \in Op : p # o => op'[p] = op[p]
  BY <1>1, <1>2 DEF Operation
<1>5. \A p \in Op : op'[p].pc \in AtRest
  BY <1>4, OthersRest DEF AtRest
<1>6. /\ Tail(lock) \in Seq(Op) /\ Distinct(Tail(lock))
      /\ Elements(Tail(lock)) = Elements(lock) \ {o}
  BY TailFacts DEF LockOK, HasLock
<1>7. {p \in Op : op'[p].pc # "idle"} = {p \in Op : op[p].pc # "idle"} \ {o}
  BY <1>4
<1>. QED
  BY <1>1, <1>3, <1>5, <1>6, <1>7 DEF LockOK

\* A stop is done, or a restart asks for the lock again at its end.
LEMMA SettleStopLock ==
  ASSUME LockOK, NEW o \in Op, HasLock(o), SettleStop(o)
  PROVE  /\ LockOK'
         /\ \A p \in Op : op'[p].pc \in AtRest
<1>1. CASE op[o].goal # "restart"
  BY <1>1, SettleLock DEF SettleStop
<1>2. CASE op[o].goal = "restart"
  <2>1. /\ op' = [op EXCEPT ![o].pc = "queued", ![o].goal = "start"]
        /\ lock' = Append(Tail(lock), o)
    BY <1>2 DEF SettleStop
  <2>2. op \in [Op -> Operation]
    BY DEF LockOK
  <2>3. op' \in [Op -> Operation]
    BY <2>1, <2>2 DEF Operation
  <2>4. op'[o].pc = "queued" /\ \A p \in Op : p # o => op'[p] = op[p]
    BY <2>1, <2>2 DEF Operation
  <2>5. \A p \in Op : op'[p].pc \in AtRest
    BY <2>4, OthersRest DEF AtRest
  <2>6. /\ Tail(lock) \in Seq(Op) /\ Distinct(Tail(lock)) /\ o \in Elements(lock)
        /\ Elements(Tail(lock)) = Elements(lock) \ {o}
    BY TailFacts DEF LockOK, HasLock
  <2>7. /\ lock' \in Seq(Op) /\ Distinct(lock')
        /\ Elements(lock') = Elements(lock)
    <3> DEFINE t == Tail(lock)
    <3>1. t \in Seq(Op) /\ Distinct(t) /\ o \notin Elements(t) /\ lock' = Append(t, o)
      BY <2>1, <2>6
    <3> HIDE DEF t
    <3>2. Distinct(Append(t, o)) /\ Append(t, o) \in Seq(Op)
      BY <3>1, AppendFacts
    <3>3. Elements(Append(t, o)) = Elements(t) \cup {o}
      BY <3>1, AppendFacts
    <3>. QED
      BY <2>6, <3>1, <3>2, <3>3 DEF t
  <2>8. {p \in Op : op'[p].pc # "idle"} = {p \in Op : op[p].pc # "idle"}
    BY <2>4, <2>6 DEF LockOK
  <2>. QED
    BY <2>3, <2>5, <2>7, <2>8 DEF LockOK
<1>. QED
  BY <1>1, <1>2

\* A new call queues behind the others.
LEMMA CallLock ==
  ASSUME LockOK, NEW o \in Op, NEW goal \in {"start", "stop", "restart"}, Call(o, goal)
  PROVE  /\ LockOK'
         /\ op'[o].pc = "queued" /\ op[o].pc = "idle"
         /\ \A p \in Op : p # o => op'[p].pc = op[p].pc
<1>1. /\ op[o].pc = "idle" /\ lock' = Append(lock, o)
      /\ op' = [op EXCEPT ![o] = [goal |-> goal, pc |-> "queued", result |-> "none"]]
  BY DEF Call
<1>2. op \in [Op -> Operation] /\ lock \in Seq(Op)
  BY DEF LockOK
<1>3. op' \in [Op -> Operation]
  BY <1>1, <1>2 DEF Operation
<1>4. op'[o].pc = "queued" /\ \A p \in Op : p # o => op'[p] = op[p]
  BY <1>1, <1>2
<1>5. o \notin Elements(lock)
  BY <1>1 DEF LockOK
<1>6. /\ lock' \in Seq(Op) /\ Distinct(lock') /\ lock' # << >>
      /\ Elements(lock') = Elements(lock) \cup {o}
      /\ lock # << >> => Head(lock') = Head(lock)
  BY <1>1, <1>2, <1>5, AppendFacts DEF LockOK
<1>7. {p \in Op : op'[p].pc # "idle"} = {p \in Op : op[p].pc # "idle"} \cup {o}
  BY <1>4
<1>8. \A p \in Op : op'[p].pc \notin AtRest => HasLock(p)'
  BY <1>4, <1>6 DEF LockOK, HasLock, AtRest
<1>9. LockOK'
  BY <1>3, <1>6, <1>7, <1>8 DEF LockOK
<1>. QED
  BY <1>1, <1>4, <1>9
-----------------------------------------------------------------------------
(* Steps.                                                                  *)

\* After a step that leaves no operation at work.
LEMMA RestIInv ==
  ASSUME LockOK', StatusOK', StateOK', \A p \in Op : op'[p].pc \in AtRest,
         state' \in {"stopped", "running", "error"}
  PROVE  IInv'
<1>1. \A p \in Op : op'[p].pc \notin Starting /\ op'[p].pc # "stopping"
  BY DEF AtRest, Starting
<1>2. PhaseOK'
  BY <1>1 DEF PhaseOK, Starting
<1>. QED
  BY <1>2 DEF IInv, RestOK

\* After a step that leaves o at work.
LEMMA WorkIInv ==
  ASSUME LockOK', StatusOK', StateOK', NEW o \in Op,
         \A p \in Op : p # o => op'[p].pc \in AtRest,
         \/ /\ op'[o].pc \in Starting
            /\ state' \in {"starting", "error"} /\ ~adopted'
            /\ op'[o].pc = "waiting" /\ state' = "starting" => ChildInHand' /\ checker'.active
         \/ op'[o].pc = "stopping" /\ state' = "stopping"
  PROVE  IInv'
<1>1. \A p \in Op : p # o => op'[p].pc \notin Starting /\ op'[p].pc # "stopping"
  BY DEF AtRest, Starting
<1>2. PhaseOK'
  BY <1>1 DEF PhaseOK, Starting
<1>3. op'[o].pc \notin AtRest
  BY DEF AtRest, Starting
<1>. QED
  BY <1>2, <1>3 DEF IInv, RestOK

\* The health checker's own start and stop.
LEMMA CheckerFacts ==
  ASSUME NEW c \in Checker
  PROVE  /\ Started(c) \in Checker /\ Started(c).active
         /\ Stopped(c) \in Checker /\ ~Stopped(c).active
<1>1. 0 \in 0..FailureThreshold
  BY SupervisorAssumption
<1>2. Started(c) \in Checker /\ Started(c).active
  BY <1>1 DEF Started, Checker
<1>3. Stopped(c) \in Checker
  BY DEF Stopped, Checker
<1>4. ~Stopped(c).active
  BY DEF Stopped, Checker
<1>. QED
  BY <1>2, <1>3, <1>4

\* start.
LEMMA StartStep ==
  ASSUME IInv, NEW o \in Op,
         \/ StartNothing(o) \/ StartBegins(o) \/ ProbeFindsPortHeld(o)
         \/ ProbeFindsService(o) \/ Adopt(o) \/ KillAdopted(o)
         \/ SpawnThrows(o) \/ SpawnErrors(o) \/ (\E p \in Proc : Spawn(o, p))
         \/ StartEnds(o)
  PROVE  IInv'
<1> USE DEF At, status, processes, health, SetStatus
<1>a. LockOK /\ StatusOK /\ PhaseOK /\ RestOK /\ StateOK
  BY DEF IInv
<1>b. HasLock(o)
  BY DEF StartNothing, StartBegins, ProbeFindsPortHeld, ProbeFindsService, Adopt,
         KillAdopted, SpawnThrows, SpawnErrors, Spawn, StartEnds, MaySpawn
<1>c. \A p \in Op : p # o => op[p].pc \in AtRest
  BY <1>a, <1>b, OthersRest
<1>1. CASE StartNothing(o)
  <2>1. LockOK' /\ \A p \in Op : op'[p].pc \in AtRest
    BY <1>1, <1>a, <1>b, SettleLock DEF StartNothing
  <2>2. state \in {"stopped", "running", "error"}
    BY <1>1, <1>a, <1>c DEF RestOK, StartNothing, AtRest
  <2>3. UNCHANGED <<state, row, adopted, spawnFailed, child, proc, killed, checker, probes>>
    BY <1>1 DEF StartNothing
  <2>4. StatusOK' /\ StateOK'
    BY <1>a, <2>3 DEF StatusOK, StateOK, ChildInHand
  <2>. QED
    BY <2>1, <2>2, <2>3, <2>4, RestIInv
<1>2. CASE StartBegins(o)
  <2>1. /\ LockOK' /\ op'[o].pc = "probing"
        /\ \A p \in Op : p # o => op'[p].pc \in AtRest
    BY <1>2, <1>a, <1>b, GoLock DEF StartBegins, Starting
  <2>2. /\ state' = "starting" /\ ~adopted' /\ adopted' \in BOOLEAN
        /\ UNCHANGED <<row, spawnFailed, child, proc, killed, checker, probes>>
    BY <1>2 DEF StartBegins
  <2>3. StatusOK' /\ StateOK'
    BY <1>a, <2>2 DEF StatusOK, StateOK, States
  <2>. QED
    BY <2>1, <2>2, <2>3, WorkIInv DEF Starting
<1>3. CASE ProbeFindsPortHeld(o)
  <2>1. LockOK' /\ \A p \in Op : op'[p].pc \in AtRest
    BY <1>3, <1>a, <1>b, SettleLock DEF ProbeFindsPortHeld
  <2>2. /\ state' = "error" /\ row' = "error"
        /\ UNCHANGED <<adopted, spawnFailed, child, proc, killed, checker, probes>>
    BY <1>3 DEF ProbeFindsPortHeld
  <2>3. StatusOK' /\ StateOK'
    BY <1>a, <2>2 DEF StatusOK, StateOK, States
  <2>. QED
    BY <2>1, <2>2, <2>3, RestIInv
<1>4. CASE ProbeFindsService(o) \/ KillAdopted(o)
  <2>1. PICK pc \in {"resolving", "killing"} : Go(o, pc)
    BY <1>4 DEF ProbeFindsService, KillAdopted
  <2>2. /\ LockOK' /\ op'[o].pc = pc
        /\ \A p \in Op : p # o => op'[p].pc \in AtRest
    BY <2>1, <1>a, <1>b, GoLock DEF Starting
  <2>3. /\ UNCHANGED <<state, row, adopted, spawnFailed, child, proc, killed, checker, probes>>
        /\ op[o].pc \in {"probing", "resolving"}
    BY <1>4 DEF ProbeFindsService, KillAdopted
  <2>4. state \in {"starting", "error"} /\ ~adopted
    BY <1>a, <2>3 DEF PhaseOK, Starting
  <2>5. StatusOK' /\ StateOK'
    BY <1>a, <2>3 DEF StatusOK, StateOK, ChildInHand
  <2>. QED
    BY <2>1, <2>2, <2>3, <2>4, <2>5, WorkIInv DEF Starting
<1>5. CASE Adopt(o)
  <2>1. LockOK' /\ \A p \in Op : op'[p].pc \in AtRest
    BY <1>5, <1>a, <1>b, SettleLock DEF Adopt
  <2>2. /\ state' = "running" /\ row' = "running" /\ adopted' = TRUE
        /\ checker' = Started(checker)
        /\ UNCHANGED <<spawnFailed, child, proc, killed, probes>>
    BY <1>5 DEF Adopt
  <2>3. checker' \in Checker /\ checker'.active
    BY <1>a, <2>2, CheckerFacts DEF StatusOK
  <2>4. StatusOK' /\ StateOK'
    BY <1>a, <2>2, <2>3 DEF StatusOK, StateOK, States
  <2>. QED
    BY <2>1, <2>2, <2>4, RestIInv
<1>6. CASE SpawnThrows(o)
  <2>1. LockOK' /\ \A p \in Op : op'[p].pc \in AtRest
    BY <1>6, <1>a, <1>b, SettleLock DEF SpawnThrows
  <2>2. /\ state' = "error" /\ row' = "error" /\ spawnFailed' = TRUE
        /\ checker' = Stopped(checker)
        /\ UNCHANGED <<adopted, child, proc, killed, probes>>
    BY <1>6 DEF SpawnThrows
  <2>3. checker' \in Checker
    BY <1>a, <2>2, CheckerFacts DEF StatusOK
  <2>4. StatusOK' /\ StateOK'
    BY <1>a, <2>2, <2>3 DEF StatusOK, StateOK, States
  <2>. QED
    BY <2>1, <2>2, <2>4, RestIInv
<1>7. CASE SpawnErrors(o)
  <2>1. /\ LockOK' /\ op'[o].pc = "waiting"
        /\ \A p \in Op : p # o => op'[p].pc \in AtRest
    BY <1>7, <1>a, <1>b, GoLock DEF SpawnErrors, Starting
  <2>2. /\ state' = "error" /\ row' = "error" /\ spawnFailed' = TRUE
        /\ checker' = Stopped(Started(checker)) /\ child' = FailedChild
        /\ UNCHANGED <<adopted, proc, killed, probes>>
        /\ op[o].pc \in {"probing", "killing"}
    BY <1>7 DEF SpawnErrors, MaySpawn
  <2>3. checker' \in Checker
    BY <1>a, <2>2, CheckerFacts DEF StatusOK
  <2>4. StatusOK' /\ StateOK'
    BY <1>a, <2>2, <2>3 DEF StatusOK, StateOK, States
  <2>5. ~adopted'
    BY <1>a, <2>2 DEF PhaseOK, Starting
  <2>. QED
    BY <2>1, <2>2, <2>4, <2>5, WorkIInv DEF Starting
<1>8. CASE \E p \in Proc : Spawn(o, p)
  <2>1. PICK p \in Proc : Spawn(o, p)
    BY <1>8
  <2>2. /\ LockOK' /\ op'[o].pc = "waiting"
        /\ \A q \in Op : q # o => op'[q].pc \in AtRest
    BY <2>1, <1>a, <1>b, GoLock DEF Spawn, Starting
  <2>3. /\ row' = "starting" /\ checker' = Started(checker) /\ child' = p
        /\ proc' = [proc EXCEPT ![p] = "alive"] /\ killed' = killed \ {p}
        /\ UNCHANGED <<state, adopted, spawnFailed, probes>>
        /\ op[o].pc \in {"probing", "killing"}
    BY <2>1 DEF Spawn, MaySpawn
  <2>4. state \in {"starting", "error"} /\ ~adopted
    BY <1>a, <2>3 DEF PhaseOK, Starting
  <2>5. checker' \in Checker /\ checker'.active
    BY <1>a, <2>3, CheckerFacts DEF StatusOK
  <2>6. StatusOK' /\ StateOK' /\ ChildInHand'
    BY <1>a, <2>3, <2>4, <2>5 DEF StatusOK, StateOK, States, ChildInHand
  <2>. QED
    BY <2>2, <2>3, <2>4, <2>5, <2>6, WorkIInv DEF Starting
<1>9. CASE StartEnds(o)
  <2>1. op[o].pc = "waiting"
    BY <1>9 DEF StartEnds
  <2>2. /\ state \in {"starting", "error"} /\ ~adopted
        /\ (state = "starting" => ChildInHand /\ checker.active)
    BY <1>a, <2>1 DEF PhaseOK, Starting
  <2>3. \E r \in {"resolved", "rejected"} : Settle(o, r)
    BY <1>9 DEF StartEnds
  <2>4. LockOK' /\ \A p \in Op : op'[p].pc \in AtRest
    BY <2>3, <1>a, <1>b, SettleLock
  <2>5. /\ UNCHANGED <<adopted, spawnFailed, child, proc, killed, checker, probes>>
        /\ \/ state' = "error" /\ row' = row
           \/ state = "starting" /\ state' = "running" /\ row' = "running"
    BY <1>9, <2>2 DEF StartEnds
  <2>6. StatusOK' /\ StateOK'
    BY <1>a, <2>2, <2>5 DEF StatusOK, StateOK, States, ChildInHand
  <2>. QED
    BY <2>4, <2>5, <2>6, RestIInv
<1>. QED
  BY <1>1, <1>2, <1>3, <1>4, <1>5, <1>6, <1>7, <1>8, <1>9

\* stop, and the first half of restart.
LEMMA StopStep ==
  ASSUME IInv, NEW o \in Op,
         StopNothing(o) \/ StopWithoutKill(o) \/ StopBegins(o) \/ StopWaitEnds(o)
  PROVE  IInv'
<1> USE DEF At, status, processes, health, SetStatus
<1>a. LockOK /\ StatusOK /\ PhaseOK /\ RestOK /\ StateOK
  BY DEF IInv
<1>b. HasLock(o)
  BY DEF StopNothing, StopWithoutKill, StopBegins, StopWaitEnds, Stopping
<1>c. \A p \in Op : p # o => op[p].pc \in AtRest
  BY <1>a, <1>b, OthersRest
<1>1. CASE StopNothing(o)
  <2>1. LockOK' /\ \A p \in Op : op'[p].pc \in AtRest
    BY <1>1, <1>a, <1>b, SettleStopLock DEF StopNothing
  <2>2. state \in {"stopped", "running", "error"}
    BY <1>1, <1>a, <1>c DEF RestOK, StopNothing, AtRest
  <2>3. UNCHANGED <<state, row, adopted, spawnFailed, child, proc, killed, checker, probes>>
    BY <1>1 DEF StopNothing
  <2>4. StatusOK' /\ StateOK'
    BY <1>a, <2>3 DEF StatusOK, StateOK, ChildInHand
  <2>. QED
    BY <2>1, <2>2, <2>3, <2>4, RestIInv
<1>2. CASE StopWithoutKill(o)
  <2>1. LockOK' /\ \A p \in Op : op'[p].pc \in AtRest
    BY <1>2, <1>a, <1>b, SettleStopLock DEF StopWithoutKill, StopEnds
  <2>2. /\ state' = "stopped" /\ row' = "stopped" /\ adopted' = FALSE /\ child' = NoChild
        /\ checker' = Stopped(checker) /\ UNCHANGED <<spawnFailed, proc, killed, probes>>
    BY <1>2 DEF StopWithoutKill, StopEnds
  <2>3. checker' \in Checker /\ ~checker'.active
    BY <1>a, <2>2, CheckerFacts DEF StatusOK
  <2>4. StatusOK' /\ StateOK'
    BY <1>a, <2>2, <2>3 DEF StatusOK, StateOK, States
  <2>. QED
    BY <2>1, <2>2, <2>4, RestIInv
<1>3. CASE StopBegins(o)
  <2>1. /\ LockOK' /\ op'[o].pc = "stopping"
        /\ \A p \in Op : p # o => op'[p].pc \in AtRest
    BY <1>3, <1>a, <1>b, GoLock DEF StopBegins
  <2>2. /\ state' = "stopping" /\ checker' = Stopped(checker) /\ killed' \subseteq killed \cup Proc
        /\ UNCHANGED <<row, adopted, spawnFailed, child, proc, probes>>
    BY <1>3 DEF StopBegins
  <2>3. checker' \in Checker /\ ~checker'.active
    BY <1>a, <2>2, CheckerFacts DEF StatusOK
  <2>4. StatusOK' /\ StateOK'
    BY <1>a, <2>2, <2>3 DEF StatusOK, StateOK, States
  <2>. QED
    BY <2>1, <2>2, <2>4, WorkIInv
<1>4. CASE StopWaitEnds(o)
  <2>1. LockOK' /\ \A p \in Op : op'[p].pc \in AtRest
    BY <1>4, <1>a, <1>b, SettleStopLock DEF StopWaitEnds, StopEnds
  <2>2. /\ state' = "stopped" /\ row' = "stopped" /\ adopted' = FALSE /\ child' = NoChild
        /\ UNCHANGED <<spawnFailed, proc, killed, checker, probes>>
    BY <1>4 DEF StopWaitEnds, StopEnds
  <2>3. ~checker.active
    BY <1>4, <1>a DEF StopWaitEnds, PhaseOK, StateOK
  <2>4. StatusOK' /\ StateOK'
    BY <1>a, <2>2, <2>3 DEF StatusOK, StateOK, States
  <2>. QED
    BY <2>1, <2>2, <2>4, RestIInv
<1>. QED
  BY <1>1, <1>2, <1>3, <1>4
\* A call, the end of a child and the health checker's polls: no operation
\* moves, but the ground may move under the one at work.
LEMMA EventStep ==
  ASSUME IInv,
         \/ \E o \in Op, goal \in {"start", "stop", "restart"} : Call(o, goal)
         \/ \E p \in Proc : Dies(p) \/ HandleExit(p)
         \/ PollBegins \/ PollSucceeds \/ PollFails
  PROVE  IInv'
<1> USE DEF status, processes, health, SetStatus
<1>a. LockOK /\ StatusOK /\ PhaseOK /\ RestOK /\ StateOK
  BY DEF IInv
<1>1. CASE \E o \in Op, goal \in {"start", "stop", "restart"} : Call(o, goal)
  <2>1. PICK o \in Op, goal \in {"start", "stop", "restart"} : Call(o, goal)
    BY <1>1
  <2>2. /\ LockOK' /\ op'[o].pc = "queued" /\ op[o].pc = "idle"
        /\ \A p \in Op : p # o => op'[p].pc = op[p].pc
    BY <1>a, <2>1, CallLock
  <2>3. UNCHANGED <<state, row, adopted, spawnFailed, child, proc, killed, checker, probes>>
    BY <2>1 DEF Call
  <2>4. StatusOK' /\ StateOK'
    BY <1>a, <2>3 DEF StatusOK, StateOK, ChildInHand
  <2>5. PhaseOK' /\ RestOK'
    BY <1>a, <2>2, <2>3 DEF PhaseOK, RestOK, ChildInHand, AtRest, Starting
  <2>. QED
    BY <2>2, <2>4, <2>5 DEF IInv
<1>2. ASSUME UNCHANGED <<lock, op>>, StatusOK', StateOK',
             state' = state \/ (state' = "error" /\ state \in {"starting", "running", "error"}),
             adopted' = adopted,
             state' = "starting" /\ ChildInHand => ChildInHand',
             state' = "starting" /\ checker.active => checker'.active
      PROVE  IInv'
  <2>1. LockOK'
    BY <1>a, <1>2 DEF LockOK, HasLock
  <2>2. PhaseOK'
    BY <1>a, <1>2 DEF PhaseOK
  <2>3. RestOK'
    BY <1>a, <1>2 DEF RestOK
  <2>. QED
    BY <1>2, <2>1, <2>2, <2>3 DEF IInv
<1>3. CASE \E p \in Proc : Dies(p)
  <2>1. PICK p \in Proc : Dies(p)
    BY <1>3
  <2>2. /\ proc' = [proc EXCEPT ![p] = "dead"]
        /\ UNCHANGED <<lock, op, state, row, adopted, spawnFailed, child, killed, checker, probes>>
    BY <2>1 DEF Dies
  <2>3. ChildInHand => ChildInHand'
    BY <1>a, <2>2 DEF ChildInHand, StatusOK
  <2>4. StatusOK' /\ StateOK'
    BY <1>a, <2>2, <2>3 DEF StatusOK, StateOK
  <2>. QED
    BY <1>2, <2>2, <2>3, <2>4
<1>4. CASE \E p \in Proc : HandleExit(p)
  <2>1. PICK p \in Proc : HandleExit(p)
    BY <1>4
  <2>2. /\ proc' = [proc EXCEPT ![p] = "unused"]
        /\ checker' = Stopped(checker) /\ child' = NoChild
        /\ UNCHANGED <<lock, op, adopted, spawnFailed, killed, probes>>
        /\ \/ state \in {"stopping", "stopped"} /\ state' = state /\ row' = row
           \/ state \notin {"stopping", "stopped"} /\ state' = "error" /\ row' = "error"
    BY <2>1 DEF HandleExit
  <2>3. checker' \in Checker /\ ~checker'.active
    BY <1>a, <2>2, CheckerFacts DEF StatusOK
  <2>4. StatusOK' /\ StateOK'
    BY <1>a, <2>2, <2>3 DEF StatusOK, StateOK, States
  <2>. QED
    BY <1>2, <1>a, <2>2, <2>4 DEF StatusOK, States
<1>5. CASE PollBegins
  <2>1. /\ probes' = probes + 1 /\ probes < MaxProbes
        /\ UNCHANGED <<lock, op, state, row, adopted, spawnFailed, child, proc, killed, checker>>
    BY <1>5 DEF PollBegins
  <2>2. probes' \in 0..MaxProbes
    BY <1>a, <2>1, SupervisorAssumption DEF StatusOK
  <2>3. StatusOK' /\ StateOK' /\ (ChildInHand => ChildInHand')
    BY <1>a, <2>1, <2>2 DEF StatusOK, StateOK, ChildInHand
  <2>. QED
    BY <1>2, <2>1, <2>3
<1>6. CASE PollSucceeds
  <2>1. /\ probes' = probes - 1 /\ probes > 0
        /\ checker' = [checker EXCEPT !.failures = 0, !.health = "healthy"]
        /\ UNCHANGED <<lock, op, state, row, adopted, spawnFailed, child, proc, killed>>
    BY <1>6 DEF PollSucceeds
  <2>2. probes' \in 0..MaxProbes
    BY <1>a, <2>1, SupervisorAssumption DEF StatusOK
  <2>3. checker' \in Checker /\ checker'.active = checker.active
    <3>1. checker \in Checker /\ 0 \in 0..FailureThreshold
      BY <1>a, SupervisorAssumption DEF StatusOK
    <3>2. checker' \in Checker
      BY <2>1, <3>1 DEF Checker
    <3>3. checker'.active = checker.active
      BY <2>1, <3>1 DEF Checker
    <3>. QED
      BY <3>2, <3>3
  <2>4. StatusOK' /\ StateOK' /\ (ChildInHand => ChildInHand')
    BY <1>a, <2>1, <2>2, <2>3 DEF StatusOK, StateOK, ChildInHand
  <2>. QED
    BY <1>2, <2>1, <2>4
<1>7. CASE PollFails
  <2> DEFINE n == IF checker.failures < FailureThreshold THEN checker.failures + 1 ELSE FailureThreshold
             c == [checker EXCEPT !.failures = n,
                                  !.health = IF n = FailureThreshold THEN "unhealthy" ELSE @]
  <2>1. /\ probes' = probes - 1 /\ probes > 0
        /\ \/ /\ checker' = Stopped(c) /\ state' = "error" /\ row' = "error"
              /\ state \in {"running", "starting"}
           \/ checker' = c /\ state' = state /\ row' = row
        /\ UNCHANGED <<lock, op, adopted, spawnFailed, child, proc, killed>>
    BY <1>7 DEF PollFails
  <2>2. probes' \in 0..MaxProbes
    BY <1>a, <2>1, SupervisorAssumption DEF StatusOK
  <2>3. c \in Checker /\ c.active = checker.active
    <3>1. checker \in Checker /\ n \in 0..FailureThreshold
      BY <1>a, SupervisorAssumption DEF StatusOK, Checker
    <3> HIDE DEF n
    <3>. QED
      BY <3>1 DEF Checker
  <2> HIDE DEF c
  <2>4. /\ checker' \in Checker /\ (~checker.active => ~checker'.active)
        /\ state' # "error" => checker'.active = checker.active
    BY <2>1, <2>3, CheckerFacts
  <2>5. StatusOK' /\ StateOK' /\ (ChildInHand => ChildInHand')
    BY <1>a, <2>1, <2>2, <2>4 DEF StatusOK, StateOK, ChildInHand, States
  <2>. QED
    BY <1>2, <2>1, <2>4, <2>5
<1>. QED
  BY <1>1, <1>3, <1>4, <1>5, <1>6, <1>7

\* The invariant holds at first and every step keeps it.
LEMMA InitIInv == Init => IInv
<1> SUFFICES ASSUME Init PROVE IInv
  OBVIOUS
<1>1. LockOK
  <2>1. \A o \in Op : op[o].pc = "idle"
    BY DEF Init
  <2>2. op \in [Op -> Operation]
    BY DEF Init, Operation
  <2>3. lock \in Seq(Op) /\ Distinct(lock) /\ Elements(lock) = {}
    BY EmptyQueueFacts DEF Init
  <2>. QED
    BY <2>1, <2>2, <2>3 DEF LockOK, AtRest
<1>2. StatusOK
  <2>1. 0 \in 0..FailureThreshold /\ 0 \in 0..MaxProbes
    BY SupervisorAssumption
  <2>2. checker \in Checker
    BY <2>1 DEF Init, Checker
  <2>. QED
    BY <2>1, <2>2 DEF Init, StatusOK, States
<1>3. PhaseOK /\ RestOK /\ StateOK
  BY DEF Init, PhaseOK, RestOK, StateOK, Starting
<1>. QED
  BY <1>1, <1>2, <1>3 DEF IInv

LEMMA NextIInv == IInv /\ [Next]_vars => IInv'
<1> SUFFICES ASSUME IInv, [Next]_vars PROVE IInv'
  OBVIOUS
<1>1. ASSUME NEW o \in Op, Step(o) PROVE IInv'
  BY <1>1, StartStep, StopStep DEF Step
<1>2. CASE UNCHANGED vars
  BY <1>2 DEF vars, IInv, LockOK, HasLock, StatusOK, PhaseOK, RestOK, StateOK, ChildInHand
<1>. QED
  BY <1>1, <1>2, EventStep DEF Next

LEMMA Invariance == Spec => []IInv
  BY InitIInv, NextIInv, PTL DEF Spec

\* The supervisor's variables keep their types, and the lock lists exactly the
\* operations under way, each once: none is lost or runs beside another.
THEOREM TypeCorrect == Spec => []TypeOK
<1>1. IInv => TypeOK
  BY DEF IInv, LockOK, StatusOK, TypeOK, Distinct, Elements
<1>. QED
  BY <1>1, Invariance, PTL

\* A service reported running has a child in hand or was adopted, and its row
\* says so; a stopped one has no handle, is not polled and not adopted; between
\* operations the state is a resting one: for any number of operations and
\* children, whenever exit events and health answers arrive.
THEOREM StateIsTrue == Spec => []StateMatchesChild
<1>1. IInv => StateMatchesChild
  <2> SUFFICES ASSUME IInv PROVE StateMatchesChild
    OBVIOUS
  <2>1. LockOK /\ RestOK /\ StateOK /\ adopted \in BOOLEAN
    BY DEF IInv, StatusOK
  <2>2. lock = << >> => \A o \in Op : op[o].pc = "idle"
    BY <2>1, EmptyQueueFacts DEF LockOK
  <2>3. lock = << >> => state \in {"stopped", "running", "error"}
    BY <2>1, <2>2 DEF RestOK, AtRest
  <2>. QED
    BY <2>1, <2>3 DEF StateMatchesChild, RunningHasChild, QuietAtRest, StateOK, ChildInHand
<1>. QED
  BY <1>1, Invariance, PTL

\* A service reported running is being polled, whichever exit events of earlier
\* children and late health answers came while it was started.
THEOREM RunningServiceIsPolled == Spec => []RunningIsWatched
<1>1. IInv => RunningIsWatched
  BY DEF IInv, StateOK, RunningIsWatched
<1>. QED
  BY <1>1, Invariance, PTL
=============================================================================
