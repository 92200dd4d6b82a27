------------------------- MODULE ServiceSupervisor -------------------------
(***************************************************************************)
(* src/lib/services/ServiceSupervisor.ts, one embedded service: start,     *)
(* stop and restart under the operation lock, the health checker           *)
(* (healthCheck.ts), the probe before a spawn (portProbe.ts), and the exit *)
(* events of the children, which arrive when they like.                    *)
(*                                                                         *)
(* The port may be held by anybody, so a probe may find it free, held or   *)
(* healthy at any time.  A child may die at any time, and need not die of  *)
(* a SIGTERM.  Pids, messages and log lines are left out.                  *)
(***************************************************************************)
EXTENDS Integers, Sequences, FiniteSets

CONSTANTS
    Op,               \* operations that clients may have under way at a time
    Proc,             \* child processes
    NoChild,          \* childProcess is null
    FailedChild,      \* a ChildProcess that could not be spawned: no process
    FailureThreshold, \* FAILURE_THRESHOLD of the health checker
    MaxProbes         \* bound of the health requests in flight

ASSUME SupervisorAssumption ==
    /\ IsFiniteSet(Op)
    /\ IsFiniteSet(Proc)
    /\ NoChild \notin Proc /\ FailedChild \notin Proc /\ NoChild # FailedChild
    /\ FailureThreshold \in Nat \ {0}
    /\ MaxProbes \in Nat \ {0}

VARIABLES
    state,        \* the supervisor's state
    row,          \* version_manager.status, in the database
    adopted,      \* the running service is not a child of ours
    spawnFailed,  \* set by a failed spawn, and never reset
    child,        \* childProcess
    proc,         \* "alive", "dead" with the exit event to come, "unused"
    killed,       \* processes that were sent a signal: child.killed
    checker,      \* the health checker
    probes,       \* health requests in flight
    lock,         \* operationLock: the operations in the order they asked
    op            \* what every operation is doing

vars == <<state, row, adopted, spawnFailed, child, proc, killed, checker, probes, lock, op>>
status == <<state, row, adopted, spawnFailed>>
processes == <<child, proc, killed>>
health == <<checker, probes>>

States == {"stopped", "starting", "running", "stopping", "error"}

Checker == [active : BOOLEAN, health : {"unknown", "healthy", "unhealthy"},
            failures : 0..FailureThreshold]

\* goal: what is still to be done; pc: the await the operation is in.
Operation == [goal : {"start", "stop", "restart"},
              pc : {"idle", "queued", "probing", "resolving", "killing", "waiting", "stopping"},
              result : {"none", "resolved", "rejected"}]

\* The row may be left over from an earlier run of the process.
Init ==
    /\ state = "stopped"
    /\ row \in {"stopped", "running", "error"}
    /\ adopted = FALSE
    /\ spawnFailed = FALSE
    /\ child = NoChild
    /\ proc = [p \in Proc |-> "unused"]
    /\ killed = {}
    /\ checker = [active |-> FALSE, health |-> "unknown", failures |-> 0]
    /\ probes = 0
    /\ lock = << >>
    /\ op = [o \in Op |-> [goal |-> "start", pc |-> "idle", result |-> "none"]]

-----------------------------------------------------------------------------
(* Helpers.                                                                *)

\* HealthChecker.stop: failed probes stay counted until the next start.
Stopped(c) == [c EXCEPT !.active = FALSE, !.health = "unknown"]

\* HealthChecker.start does nothing for a checker that is active.
Started(c) ==
    IF c.active THEN c ELSE [active |-> TRUE, health |-> "unknown", failures |-> 0]

HasLock(o) == lock # << >> /\ Head(lock) = o

At(o, pc) == HasLock(o) /\ op[o].pc = pc

Go(o, pc) == op' = [op EXCEPT ![o].pc = pc] /\ UNCHANGED lock

\* setState with the row written in the same step.
SetStatus(s) == state' = s /\ row' = s

Bug_SettleHoldingLock(o, r) ==
    /\ lock' = IF r = "rejected" THEN lock ELSE Tail(lock)
    /\ op' = [op EXCEPT ![o].pc = "idle", ![o].result = r]

\* The operation is over and its lock released, also when it throws.
Settle(o, r) ==
    /\ lock' = Tail(lock)
    /\ op' = [op EXCEPT ![o].pc = "idle", ![o].result = r]

\* stop is over; a restart now asks for the lock again, to start.
SettleStop(o) ==
    IF op[o].goal = "restart"
    THEN /\ lock' = Append(Tail(lock), o)
         /\ op' = [op EXCEPT ![o].pc = "queued", ![o].goal = "start"]
    ELSE Settle(o, "resolved")

-----------------------------------------------------------------------------
(* start.                                                                  *)

Call(o, goal) ==
    /\ op[o].pc = "idle"
    /\ lock' = Append(lock, o)
    /\ op' = [op EXCEPT ![o] = [goal |-> goal, pc |-> "queued", result |-> "none"]]
    /\ UNCHANGED <<status, processes, health>>

StartNothing(o) ==
    /\ At(o, "queued")
    /\ op[o].goal = "start"
    /\ state \in {"running", "starting"}
    /\ Settle(o, "resolved")
    /\ UNCHANGED <<status, processes, health>>

StartBegins(o) ==
    /\ At(o, "queued")
    /\ op[o].goal = "start"
    /\ state \notin {"running", "starting"}
    /\ state' = "starting"
    /\ adopted' = FALSE
    /\ Go(o, "probing")
    /\ UNCHANGED <<row, spawnFailed, processes, health>>

\* The port is held and may not be adopted.
ProbeFindsPortHeld(o) ==
    /\ At(o, "probing")
    /\ SetStatus("error")
    /\ Settle(o, "resolved")
    /\ UNCHANGED <<adopted, spawnFailed, processes, health>>

\* Somebody healthy is there and may be adopted: ask for its pid.
ProbeFindsService(o) ==
    /\ At(o, "probing")
    /\ Go(o, "resolving")
    /\ UNCHANGED <<status, processes, health>>

Adopt(o) ==
    /\ At(o, "resolving")
    /\ checker' = Started(checker)
    /\ adopted' = TRUE
    /\ SetStatus("running")
    /\ Settle(o, "resolved")
    /\ UNCHANGED <<spawnFailed, processes, probes>>

\* autoRestartAdopted: signal the listener, and wait until it is gone or for
\* stopTimeoutMs.  It may be a child that an earlier stop gave up on.
KillAdopted(o) ==
    /\ At(o, "resolving")
    /\ Go(o, "killing")
    /\ UNCHANGED <<status, processes, health>>

\* The port is free, or has been freed.
MaySpawn(o) == At(o, "probing") \/ At(o, "killing")

SpawnThrows(o) ==
    /\ MaySpawn(o)
    /\ checker' = Stopped(checker)
    /\ spawnFailed' = TRUE
    /\ SetStatus("error")
    /\ Settle(o, "resolved")
    /\ UNCHANGED <<adopted, processes, probes>>

\* The 'error' event of a child that could not be spawned comes before
\* anything else can happen; the handle stays.
SpawnErrors(o) ==
    /\ MaySpawn(o)
    /\ child' = FailedChild
    /\ checker' = Stopped(Started(checker))
    /\ spawnFailed' = TRUE
    /\ SetStatus("error")
    /\ Go(o, "waiting")
    /\ UNCHANGED <<adopted, proc, killed, probes>>

\* The state is not set: it is "starting" unless something failed meanwhile.
Spawn(o, p) ==
    /\ MaySpawn(o)
    /\ proc[p] = "unused"
    /\ proc' = [proc EXCEPT ![p] = "alive"]
    /\ killed' = killed \ {p}
    /\ child' = p
    /\ row' = "starting"
    /\ checker' = Started(checker)
    /\ Go(o, "waiting")
    /\ UNCHANGED <<state, adopted, spawnFailed, probes>>

\* waitForHealthy has ended: the service is healthy, or it failed, or the time
\* is up, which is taken for a slow start.  A failure of the spawn resolves, any
\* other rejects.
StartEnds(o) ==
    /\ At(o, "waiting")
    /\ IF state = "error"
       THEN /\ \/ ~spawnFailed /\ Settle(o, "rejected")
               \/ (spawnFailed \/ checker.health = "healthy") /\ Settle(o, "resolved")
            /\ UNCHANGED <<state, row>>
       ELSE Settle(o, "resolved") /\ SetStatus("running")
    /\ UNCHANGED <<adopted, spawnFailed, processes, health>>

-----------------------------------------------------------------------------
(* stop.                                                                   *)

StopNothing(o) ==
    /\ At(o, "queued")
    /\ op[o].goal # "start"
    /\ state \in {"stopped", "stopping"}
    /\ SettleStop(o)
    /\ UNCHANGED <<status, processes, health>>

Stopping(o) ==
    /\ At(o, "queued")
    /\ op[o].goal # "start"
    /\ state \notin {"stopped", "stopping"}

\* The last part of stop, after killChild.
StopEnds(o) ==
    /\ child' = NoChild
    /\ adopted' = FALSE
    /\ SetStatus("stopped")
    /\ SettleStop(o)

\* killChild has no child to kill, or one that was sent a signal before.
StopWithoutKill(o) ==
    /\ Stopping(o)
    /\ child = NoChild \/ child \in killed
    /\ checker' = Stopped(checker)
    /\ StopEnds(o)
    /\ UNCHANGED <<spawnFailed, proc, killed, probes>>

\* SIGTERM; child.killed becomes true if there is a process to receive it.
StopBegins(o) ==
    /\ Stopping(o)
    /\ child # NoChild /\ child \notin killed
    /\ state' = "stopping"
    /\ checker' = Stopped(checker)
    /\ killed' = killed \cup {p \in Proc : p = child /\ proc[p] = "alive"}
    /\ Go(o, "stopping")
    /\ UNCHANGED <<row, adopted, spawnFailed, child, proc, probes>>

Bug_StopAwaitsExit(o) ==
    /\ At(o, "stopping")
    /\ child \notin Proc
    /\ StopEnds(o)
    /\ UNCHANGED <<spawnFailed, proc, killed, health>>

\* The child's exit event has come, or stopTimeoutMs has passed.  The SIGKILL
\* is for a child without a signal only, and so for one that has no process.
StopWaitEnds(o) ==
    /\ At(o, "stopping")
    /\ StopEnds(o)
    /\ UNCHANGED <<spawnFailed, proc, killed, health>>

-----------------------------------------------------------------------------
(* Children and the health checker.                                        *)

Dies(p) ==
    /\ proc[p] = "alive"
    /\ proc' = [proc EXCEPT ![p] = "dead"]
    /\ UNCHANGED <<status, child, killed, health, lock, op>>

Bug_HandleExitWhileStarting(p) ==
    /\ proc[p] = "dead"
    /\ proc' = [proc EXCEPT ![p] = "unused"]
    /\ checker' = Stopped(checker)
    /\ child' = NoChild
    /\ IF state \in {"stopping", "stopped", "starting"}
       THEN UNCHANGED <<state, row>>
       ELSE SetStatus("error")
    /\ UNCHANGED <<adopted, spawnFailed, killed, probes, lock, op>>

\* handleExit: the exit event of ANY child clears the handle.
HandleExit(p) ==
    /\ proc[p] = "dead"
    /\ proc' = [proc EXCEPT ![p] = "unused"]
    /\ checker' = Stopped(checker)
    /\ child' = NoChild
    /\ IF state \in {"stopping", "stopped"}
       THEN UNCHANGED <<state, row>>
       ELSE SetStatus("error")
    /\ UNCHANGED <<adopted, spawnFailed, killed, probes, lock, op>>

PollBegins ==
    /\ checker.active
    /\ probes < MaxProbes
    /\ probes' = probes + 1
    /\ UNCHANGED <<status, processes, checker, lock, op>>

\* The answer is used also when the checker was stopped, or stopped and started
\* again, after the request.
PollSucceeds ==
    /\ probes > 0
    /\ probes' = probes - 1
    /\ checker' = [checker EXCEPT !.failures = 0, !.health = "healthy"]
    /\ UNCHANGED <<status, processes, lock, op>>

\* The callback stops the checker before it looks at the state, and forgets that
\* a service is starting.
Bug_PollFailsUnwatched ==
    LET n == IF checker.failures < FailureThreshold THEN checker.failures + 1 ELSE FailureThreshold
        c == [checker EXCEPT !.failures = n,
                             !.health = IF n = FailureThreshold THEN "unhealthy" ELSE @]
        turns == c.health = "unhealthy" /\ checker.health # "unhealthy"
    IN  /\ probes > 0
        /\ probes' = probes - 1
        /\ checker' = IF turns THEN Stopped(c) ELSE c
        /\ IF turns /\ state = "running" THEN SetStatus("error") ELSE UNCHANGED <<state, row>>
        /\ UNCHANGED <<adopted, spawnFailed, processes, lock, op>>

\* The count is cut off at the threshold: it is only compared with it.
PollFails ==
    LET n == IF checker.failures < FailureThreshold THEN checker.failures + 1 ELSE FailureThreshold
        c == [checker EXCEPT !.failures = n,
                             !.health = IF n = FailureThreshold THEN "unhealthy" ELSE @]
        turns == c.health = "unhealthy" /\ checker.health # "unhealthy"
    IN  /\ probes > 0
        /\ probes' = probes - 1
        /\ IF turns /\ state \in {"running", "starting"}
           THEN checker' = Stopped(c) /\ SetStatus("error")
           ELSE checker' = c /\ UNCHANGED <<state, row>>
        /\ UNCHANGED <<adopted, spawnFailed, processes, lock, op>>

-----------------------------------------------------------------------------
Step(o) ==
    \/ StartNothing(o)
    \/ StartBegins(o)
    \/ ProbeFindsPortHeld(o)
    \/ ProbeFindsService(o)
    \/ Adopt(o)
    \/ KillAdopted(o)
    \/ SpawnThrows(o)
    \/ SpawnErrors(o)
    \/ \E p \in Proc : Spawn(o, p)
    \/ StartEnds(o)
    \/ StopNothing(o)
    \/ StopWithoutKill(o)
    \/ StopBegins(o)
    \/ StopWaitEnds(o)

Next ==
    \/ \E o \in Op, goal \in {"start", "stop", "restart"} : Call(o, goal)
    \/ \E o \in Op : Step(o)
    \/ \E p \in Proc : Dies(p) \/ HandleExit(p)
    \/ PollBegins
    \/ PollSucceeds
    \/ PollFails

Spec == Init /\ [][Next]_vars

\* Every wait of an operation has a timeout: the probes', waitForHealthy's, the
\* stop's.  Children are not assumed to die, nor probes to be answered.
FairSpec == Spec /\ \A o \in Op : WF_vars(Step(o))

-----------------------------------------------------------------------------
(* Properties.                                                             *)

\* Types; the lock holds exactly the operations that are under way, each once.
TypeOK ==
    /\ state \in States
    /\ row \in States
    /\ adopted \in BOOLEAN
    /\ spawnFailed \in BOOLEAN
    /\ child \in Proc \cup {NoChild, FailedChild}
    /\ proc \in [Proc -> {"unused", "alive", "dead"}]
    /\ killed \subseteq Proc
    /\ checker \in Checker
    /\ probes \in 0..MaxProbes
    /\ op \in [Op -> Operation]
    /\ lock \in Seq(Op)
    /\ \A i, j \in 1..Len(lock) : lock[i] = lock[j] => i = j
    /\ {lock[i] : i \in 1..Len(lock)} = {o \in Op : op[o].pc # "idle"}

\* A service that is reported running, and was not adopted, is a child in hand
\* that lives or whose exit event is still to come: no exit, no failed probe and
\* no slow start of another operation leaves "running" without one.  The row says
\* running then, too.
RunningHasChild ==
    /\ state = "running" /\ ~adopted => child \in Proc /\ proc[child] # "unused"
    /\ state = "running" => row = "running"

\* A stopped service has no handle and is not polled, whatever answers and exit
\* events arrive after the stop, and no operation leaves the state in between.
QuietAtRest ==
    /\ state = "stopped" => child = NoChild /\ ~checker.active /\ ~adopted
    /\ lock = << >> => state \in {"stopped", "running", "error"}

StateMatchesChild == RunningHasChild /\ QuietAtRest

\* A service that is reported running is polled, so that its failures will be
\* noticed: the exit event of an earlier child, which stops the checker the new
\* child has just started, and a health answer that comes after the stop it was
\* asked before leave it unwatched only together with the state "error".
RunningIsWatched == state = "running" => checker.active

\* Every start, stop and restart settles, in the order of the lock, also when the
\* child ignores SIGTERM, never gets healthy or dies.
EveryOperationSettles == \A o \in Op : (op[o].pc # "idle") ~> (op[o].pc = "idle")
=============================================================================
