------------------------- MODULE MCAccountSemaphore -------------------------
(***************************************************************************)
(* Bounds for AccountSemaphore: three callers compete for a gate whose cap *)
(* moves between 1 and 2, with a queue of two, overlapping cooldowns of    *)
(* one and two ticks and one reset.                                        *)
(***************************************************************************)
EXTENDS AccountSemaphore

CONSTANTS r1, r2, r3

MCReq == {r1, r2, r3}
MCCaps == {1, 2}
MCCooldowns == {1, 2}
=============================================================================
