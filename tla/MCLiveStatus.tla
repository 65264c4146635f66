----------------------------- MODULE MCLiveStatus -----------------------------
(* Calls that meet each other's checks while a connector event, a player     *)
(* list refresh and a prune go on.                                           *)
EXTENDS LiveStatus, TLC

CONSTANTS c1, c2, e1
=============================================================================
