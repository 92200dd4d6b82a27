--------------------------- MODULE ConcurrencyGate ---------------------------
(***************************************************************************)
(* What a concurrency gate of the gateway promises the requests that pass  *)
(* through it, without queues, timers or counters: who holds a slot, who   *)
(* waits for one, whether the account is cooling down, and how many slots  *)
(* there are.                                                              *)
(***************************************************************************)
EXTENDS Integers, FiniteSets

CONSTANTS Req,  \* callers
          Cap   \* the most slots the gate ever has

VARIABLES holding,  \* callers with a slot
          waiting,  \* callers that wait for one
          cooling,  \* TRUE while the account must not be used
          budget    \* how many callers may hold a slot

vars == <<holding, waiting, cooling, budget>>

Init ==
    /\ holding = {}
    /\ waiting = {}
    /\ cooling = FALSE
    /\ budget = Cap

\* The callers of A get a slot and those of `gone` give theirs back.  Nobody
\* gets a slot while the account cools down or when none is left.
Admit(A, gone) ==
    /\ A \cap holding = {}
    /\ holding' = (holding \ gone) \cup A
    /\ A # {} => ~cooling' /\ Cardinality(holding') <= budget

\* A caller that finds a slot need not wait.
Enter(r) ==
    /\ r \notin waiting
    /\ Admit({r}, {})
    /\ UNCHANGED <<waiting, cooling, budget>>

Wait(r) ==
    /\ r \notin holding
    /\ waiting' = waiting \cup {r}
    /\ UNCHANGED <<holding, cooling, budget>>

GiveUp(r) ==
    /\ waiting' = waiting \ {r}
    /\ UNCHANGED <<holding, cooling, budget>>

\* A slot is given back; the waiters of A may follow.
Finish(r, A) ==
    /\ r \in holding
    /\ Admit(A, {r})
    /\ waiting' = waiting \ A
    /\ UNCHANGED <<cooling, budget>>

Cool ==
    /\ cooling' = TRUE
    /\ UNCHANGED <<holding, waiting, budget>>

\* The account may be used again; waiters may be admitted at once or later.
Resume(A) ==
    /\ cooling' = FALSE
    /\ Admit(A, {})
    /\ waiting' = waiting \ A
    /\ UNCHANGED budget

\* The operator writes off the slots that are in use: everyone who waits is
\* turned away, and the callers that hold a slot are no longer counted.
WriteOff ==
    /\ waiting' = {}
    /\ cooling' = FALSE
    /\ budget' = budget + Cap
    /\ UNCHANGED holding

Next ==
    \/ \E r \in Req : Enter(r) \/ Wait(r) \/ GiveUp(r)
    \/ \E r \in Req, A \in SUBSET waiting : Finish(r, A)
    \/ Cool
    \/ \E A \in SUBSET waiting : Resume(A)
    \/ WriteOff

Spec == Init /\ [][Next]_vars
=============================================================================
