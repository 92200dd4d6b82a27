--------------------------- MODULE MCTokenRefresh ---------------------------
(***************************************************************************)
(* TokenRefresh with a rotation group of two connections: one whose         *)
(* credentials a request and the health sweep hold at the same time, and a  *)
(* sibling that competes for the lane.                                      *)
(***************************************************************************)
EXTENDS TokenRefresh

MCConns == {"c1", "c2"}
MCCallers == {"request", "sweep", "sibling"}
MCKindOf == [request |-> "reactive", sweep |-> "sweep", sibling |-> "proactive"]
\* The sibling's access token is expired: it has only to refresh.
MCFirstLife == [c1 |-> "ample", c2 |-> "over"]
MCLastGen == [c1 |-> 3, c2 |-> 1]
MCConnOf == [request |-> "c1", sweep |-> "c1", sibling |-> "c2"]
=============================================================================
