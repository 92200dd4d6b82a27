-------------------------- MODULE MCCircuitBreaker --------------------------
(* Small instances of CircuitBreaker.                                      *)
EXTENDS CircuitBreaker, TLC

\* An option that is not given.
MCNoOverride == -1

\* The profile that chat.ts configures: two failures open, and the upstream's
\* rate-limit hints are trusted.
Profile == [failureThreshold |-> 2, degradationThreshold |-> 1, resetTimeout |-> 1,
            backoffEscalationCount |-> 0, maxBackoffMultiplier |-> 2,
            cooldownByKind |-> [k \in Kinds |-> 2]]

MCOptions == {Profile}

\* A breaker created without options, by a query after a restart.
MCDefaultOptions ==
    [failureThreshold |-> 3, degradationThreshold |-> 2, resetTimeout |-> 2,
     backoffEscalationCount |-> 1, maxBackoffMultiplier |-> 2,
     cooldownByKind |-> [k \in Kinds |-> MCNoOverride]]

\* Requests and objects are told apart by nothing.
Symmetry == Permutations(Req) \cup Permutations(Obj)

\* What does not matter: an object that nothing refers to, the probes on offer
\* and the calls let in outside a HALF_OPEN period, and a promise that is over.
View ==
    <<[o \in Obj |-> IF Unused(o) THEN Blank
                     ELSE IF breaker[o].state = "HALF_OPEN" THEN breaker[o]
                     ELSE [breaker[o] EXCEPT !.halfOpenAllowed = 0]],
      registered, db, request, now, rowOwner,
      {r \in probing : breaker[request[r].obj].state = "HALF_OPEN"},
      IF now < quietUntil THEN quietUntil ELSE 0>>
=============================================================================
