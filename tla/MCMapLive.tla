------------------------------ MODULE MCMapLive ------------------------------
(* Two clients of one game server whose map has one entity and one global   *)
(* offer, and room for a subscription object next to one that a loop still  *)
(* holds.                                                                   *)
EXTENDS MapLive

CONSTANTS s1, s2, srv1, o1, o2, e1, g1, v1

MCSockets == {s1, s2}
MCServers == {srv1}
MCObjects == {o1, o2}
MCEntities == {e1, g1}
MCGlobalOffers == {g1}
=============================================================================
