------------------------------ MODULE MCMapData ------------------------------
(* The feed: two clients of one game server whose map has one entity and    *)
(* one global offer, and room for a subscription object next to one that a  *)
(* loop still holds.                                                        *)
(* The layers: three areas, one of them renewed under the name of two kinds *)
(* and one not aligned, with coordinates in quarters of a block.            *)
EXTENDS MapData, TLC

CONSTANTS s1, s2, srv1, o1, o2, e1, g1, v1, r1, r2

MCSockets == {s1, s2}
MCServers == {srv1}
MCObjects == {o1, o2}
MCEntities == {e1, g1}
MCGlobalOffers == {g1}
MCRefreshes == {r1, r2}

MCArea(id, permission, ozlc, from, to) ==
    [id |-> id, permission |-> permission, ozlc |-> ozlc, x |-> <<from, to>>, z |-> <<0, 8>>]
MCAreas == {MCArea(1, "default", TRUE, 0, 8), MCArea(1, "mine", FALSE, 2, 15),
            MCArea(1, "other", TRUE, -3, 8), Junk}
MCListings == {[areaId |-> 1, price |-> 1, status |-> "ACTIVE"],
               [areaId |-> 1, price |-> 2, status |-> "ACTIVE"],
               [areaId |-> 1, price |-> 3, status |-> "SOLD"]}
MCRenewZones == {[areaId |-> 1, next |-> 1, colour |-> None],
                 [areaId |-> 1, next |-> 0, colour |-> "red"], Junk}
MCZones == {0, 1}
MCSettings == {<<"permission", "renew">> :> "mine" @@ <<"permission", "leasehold">> :> "mine"
                  @@ <<"colour", "leasehold">> :> "green",
               <<"colour", "default">> :> Junk @@ <<"colour", "sale">> :> "cyan"}
MCPlayerItems == {[id |-> "u1", lastseen |-> 0], [id |-> "u1", lastseen |-> 2]}
MCDates == {0, 1}
MCVersions == {<<0, 17, 9>>, <<1, 0>>, <<0, 18, 1>>}
MCMinVersion == <<0, 18, 0>>
==============================================================================
