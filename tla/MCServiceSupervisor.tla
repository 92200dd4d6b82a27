------------------------ MODULE MCServiceSupervisor ------------------------
(***************************************************************************)
(* Bounds for ServiceSupervisor: two operations at a time, two children    *)
(* (the one in hand and one that an earlier stop gave up on), one health   *)
(* request in flight.                                                      *)
(***************************************************************************)
EXTENDS ServiceSupervisor

CONSTANTS o1, o2, p1, p2

MCOp == {o1, o2}

MCProc == {p1, p2}
=============================================================================
