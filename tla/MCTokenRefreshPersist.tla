------------------------ MODULE MCTokenRefreshPersist ------------------------
(***************************************************************************)
(* TokenRefresh with one connection and two requests that meet a 401.       *)
(***************************************************************************)
EXTENDS TokenRefresh

MCConns == {"c1"}
MCCallers == {"r1", "r2"}
MCKindOf == [k \in MCCallers |-> "reactive"]
MCConnOf == [k \in MCCallers |-> "c1"]
MCFirstLife == [c \in MCConns |-> "ample"]
MCLastGen == [c \in MCConns |-> 3]
=============================================================================
