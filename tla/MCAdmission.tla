----------------------------- MODULE MCAdmission -----------------------------
(***************************************************************************)
(* Admission with two tenants whose large requests fill the budget and small *)
(* ones without a tenant that may pass them, under five configurations: the *)
(* second raises a limit that has shrunk.                                  *)
(***************************************************************************)
EXTENDS Admission

MCRequests == {"a1", "a2", "b1", "d1", "d2"}
MCTenants  == {"A", "B", "_default"}
MCCostOf   == [a1 |-> 3, a2 |-> 1, b1 |-> 3, d1 |-> 1, d2 |-> 1]
MCTenantOf == [a1 |-> "A", a2 |-> "A", b1 |-> "B", d1 |-> "_default", d2 |-> "_default"]

Shared == [mode |-> "enforce", lanes |-> FALSE, minLimit |-> 1, initialLimit |-> 3,
           maxLimit |-> 3, maxCount |-> 3, maxCost |-> 8]
MCConfigs == {Shared, [Shared EXCEPT !.minLimit = 3], [Shared EXCEPT !.lanes = TRUE],
              [Shared EXCEPT !.mode = "shadow"],
              [Shared EXCEPT !.mode = "off", !.maxLimit = 2]}
MCFirst == Shared
=============================================================================
