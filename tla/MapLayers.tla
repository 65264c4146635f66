------------------------------- MODULE MapLayers -------------------------------
(***************************************************************************)
(* What the map shows of an entry of the plugin data cache                 *)
(* (service/map-layer-service.ts).  A refresh reads the plugin list and    *)
(* the routes of the installed plugins, then the layers are derived from   *)
(* the payloads: by the REST routes, and all together for the live feed.   *)
(*                                                                         *)
(* A payload is None, when its plugin is not installed or the route gave   *)
(* no data or another type, or the sequence of its items.  An item whose   *)
(* fields have the wrong types is Junk.  Names, coordinates of points and  *)
(* other fields that are only passed on are left out; of the two colours   *)
(* of an area one is kept.                                                 *)
(***************************************************************************)
EXTENDS Integers, FiniteSets, SequencesExt

CONSTANTS
    None, Junk,     \* undefined or null; an item that is not one
    Areas,          \* items of world-areas; any set of items may have Junk
    Listings,       \* items of claim-sales
    RenewZones,     \* items of renew-zones
    Zones,          \* areaId of the items of both zones routes
    Settings,       \* settings of world-areas: key -> value or None
    PlayerItems,    \* items of the plugin's playerlist
    Dates,          \* createdAt of markers and global offers
    Versions,       \* versions of the land claim plugin, sequences of numbers
    MinVersion,     \* the one that has the player history
    Chunk,          \* CHUNK_SIZE_BLOCKS
    Threshold,      \* lastseen from which on a player counts as recent
    MAX_ITEMS,      \* bound: listings, renewal zones, zones of a payload
    MAX_PAYLOADS    \* bound: payloads of one refresh

VARIABLES
    data,           \* entry.data: key -> payload
    toRead          \* keys that are still to be read

vars == <<data, toRead>>

\* routeSpecs, behind the version of the land claim plugin in the plugin list
\* and before the offers, which are fetched last.
RouteSpecs == <<"landClaim", "worldAreas", "playerlist", "marketZones", "shopZones",
                "claimSales", "renewZones", "globalMarkers", "criers", "traders",
                "offers", "globalOffers">>

Keys == ToSet(RouteSpecs)

\* filter and flatMap: the items of a payload that are in S, in their order.
Kept(payload, S) ==
    LET kept[n \in 0 .. Len(payload)] ==
            IF n = 0 THEN <<>>
            ELSE IF payload[n] \in S THEN Append(kept[n - 1], payload[n])
            ELSE kept[n - 1]
    IN  kept[Len(payload)]

\* Those that are not skipped.
Items(payload) == Kept(payload, ToSet(payload) \ {Junk})

\* areaIdsFromZonesPayload: the areas whose offers are fetched.
MutAreasWithOffers(zones) == IF zones = None \/ zones = <<>> THEN {} ELSE {zones[1]} \ {Junk}
AreasWithOffers(zones) ==
    IF zones = None THEN {} ELSE {id \in ToSet(Items(zones)) : id > 0}

-----------------------------------------------------------------------------
(* A refresh.                                                               *)

Init ==
    /\ data = [key \in Keys |-> None]
    /\ toRead = RouteSpecs

\* The payloads a route can give; offers by area only say which ones came.
Payloads(key) ==
    CASE key = "landClaim" -> Versions
      [] key = "worldAreas" ->
            {[areas |-> a, settings |-> s] : a \in BoundedSeq(Areas, 1) \cup {None},
                                             s \in Settings \cup {None}}
      [] key = "playerlist" ->
            {[players |-> p, online |-> on] : p \in BoundedSeq(PlayerItems, 1) \cup {None},
                                              on \in SUBSET {p.id : p \in PlayerItems \ {Junk}} \cup {None}}
      [] key \in {"marketZones", "shopZones"} -> BoundedSeq(Zones, MAX_ITEMS)
      [] key = "claimSales" -> BoundedSeq(Listings, MAX_ITEMS)
      [] key = "renewZones" -> BoundedSeq(RenewZones, MAX_ITEMS)
      [] key = "offers" -> SUBSET AreasWithOffers(data.marketZones)
      [] key \in {"globalMarkers", "globalOffers"} -> BoundedSeq(Dates, 1)
      [] key \in {"criers", "traders"} -> BoundedSeq({<<Junk>>, Junk}, 1)

Arrived == {key \in Keys : data[key] # None}

\* refreshPluginDataForServer asks the routes of installed plugins; the next
\* one that gives data is the n-th.  With none after it, the entry is set.
ReadRoute(n) ==
    /\ Cardinality(Arrived) < MAX_PAYLOADS
    /\ \E payload \in Payloads(toRead[n]) : data' = [data EXCEPT ![toRead[n]] = payload]
    /\ toRead' = SubSeq(toRead, n + 1, Len(toRead))

Next == \E n \in DOMAIN toRead : ReadRoute(n)
Spec == Init /\ [][Next]_vars

-----------------------------------------------------------------------------
(* The layers.                                                              *)

\* cachedAreaIds: the areas marked as markets or shops, None without zones.
CachedAreaIds(zones) ==
    IF zones = None THEN None ELSE {id \in ToSet(Items(zones)) : id > 0}

\* Epoch times that are not positive are left out.
Epoch(t) == IF t > 0 THEN t ELSE None

\* Mutant: a later listing of an area takes the place of an earlier one.
MutWithListing(sales, l) ==
    IF l # Junk /\ l.areaId > 0 /\ l.status = "ACTIVE"
    THEN [id \in DOMAIN sales \cup {l.areaId} |-> IF id = l.areaId THEN l.price ELSE sales[id]]
    ELSE sales
WithListing(sales, l) ==
    IF l # Junk /\ l.areaId > 0 /\ l.status = "ACTIVE"
    THEN [id \in DOMAIN sales \cup {l.areaId} |-> IF id \in DOMAIN sales THEN sales[id] ELSE l.price]
    ELSE sales

\* cachedClaimSales: area -> price
ClaimSales ==
    LET sales[n \in 0 .. Len(data.claimSales)] ==
            IF n = 0 THEN <<>> ELSE WithListing(sales[n - 1], data.claimSales[n])
    IN  sales[Len(data.claimSales)]

\* cachedRenewZones: area -> its next renewal and colour, the last zone's.
WithZone(zones, z) ==
    IF z # Junk /\ z.areaId > 0
    THEN [id \in DOMAIN zones \cup {z.areaId} |->
             IF id = z.areaId
             THEN [next |-> IF z.next = None THEN None ELSE Epoch(z.next), colour |-> z.colour]
             ELSE zones[id]]
    ELSE zones
CachedRenewZones ==
    LET zones[n \in 0 .. Len(data.renewZones)] ==
            IF n = 0 THEN <<>> ELSE WithZone(zones[n - 1], data.renewZones[n])
    IN  zones[Len(data.renewZones)]

\* cachedMapClaims takes none where there is no payload.
SalesOrNone == IF data.claimSales = None THEN <<>> ELSE ClaimSales
ZonesOrNone == IF data.renewZones = None THEN <<>> ELSE CachedRenewZones
IdsOrNone(zones) == IF zones = None THEN {} ELSE CachedAreaIds(zones)

\* landClaimSettingsFromValues.  Of its nine kinds of areas these suffice: a
\* special one, the leasehold, and the default, whose colour is "other".
\* Every setting has a default, here named like the kind; one that is no
\* colour gives way to it.
Kinds == <<"renew", "leasehold", "default">>
Get(settings, key, fallback) ==
    IF settings = None \/ key \notin DOMAIN settings THEN fallback
    ELSE IF settings[key] = None THEN fallback ELSE settings[key]
PermissionOf(settings, kind) == Get(settings, <<"permission", kind>>, kind)
PackedRgba(value, fallback) == IF value = Junk THEN fallback ELSE value
Colour(settings, kind) ==
    PackedRgba(Get(settings, <<"colour", kind>>, kind), kind)

AreaPermissions(settings) == {PermissionOf(settings, kind) : kind \in ToSet(Kinds)}

\* settings.colors[permission] ?? settings.other: kinds with one permission
\* leave the colour of the last of them.
PermissionColour(settings, permission) ==
    LET k == SelectLastInSeq(Kinds, LAMBDA kind : PermissionOf(settings, kind) = permission)
    IN  Colour(settings, IF k = 0 THEN "default" ELSE Kinds[k])

\* Coordinates are in quarters of a block: Math.round and Math.ceil.
Round(q) == (q + 2) \div 4
Ceil(q) == (q + 3) \div 4

\* normalizeCachedArea, one axis at a time: whole chunks, or nothing.
Extent(from, to) == Ceil(to) - Round(from)
WholeChunks(from, to) == Extent(from, to) > 0 /\ Extent(from, to) % Chunk = 0

\* An area that is shown as a claim: permissions of other plugins are not.
Shown(a, settings) ==
    /\ a.id > 0
    /\ a.ozlc \/ a.permission \in AreaPermissions(settings)
    /\ WholeChunks(a.x[1], a.x[2])
    /\ WholeChunks(a.z[1], a.z[2])

ClaimOf(a, settings) ==
    LET sales == SalesOrNone
        zones == ZonesOrNone
        forSale == a.id \in DOMAIN sales
        renewed == a.id \in DOMAIN zones
        ownColour == PermissionColour(settings, a.permission)
    IN  [areaId |-> a.id,
         minX |-> Round(a.x[1]), width |-> Extent(a.x[1], a.x[2]),
         minZ |-> Round(a.z[1]), depth |-> Extent(a.z[1], a.z[2]),
         colour |-> CASE forSale -> Colour(settings, "sale")
                      [] ~forSale /\ renewed ->
                            IF zones[a.id].colour = None THEN ownColour ELSE zones[a.id].colour
                      [] OTHER -> ownColour,
         salePrice |-> IF forSale THEN sales[a.id] ELSE None,
         renewZone |-> renewed,
         nextRenewalAt |-> IF renewed THEN zones[a.id].next ELSE None,
         marketplace |-> a.id \in IdsOrNone(data.marketZones),
         shop |-> a.id \in IdsOrNone(data.shopZones)]

\* cachedMapClaims; the user who asks does not matter.
MapClaims ==
    IF data.worldAreas = None THEN None
    ELSE IF data.worldAreas.areas = None THEN None
    ELSE LET areas == data.worldAreas.areas
             settings == data.worldAreas.settings
             shown == Kept(areas, {a \in ToSet(areas) \ {Junk} : Shown(a, settings)})
         IN  [i \in DOMAIN shown |-> ClaimOf(shown[i], settings)]

\* cachedMapPlayers: a player who is online is shown as such, whenever seen.
PlayerState(p) ==
    IF data.playerlist.online # None /\ p.id \in data.playerlist.online THEN "online"
    ELSE IF p.lastseen >= Threshold THEN "recent-offline" ELSE "long-term-offline"
MapPlayers(includeLongTerm) ==
    IF data.playerlist = None THEN None
    ELSE IF data.playerlist.players = None THEN None
    ELSE LET players == data.playerlist.players
             shown == Kept(players,
                           {p \in ToSet(players) \ {Junk} :
                               includeLongTerm \/ PlayerState(p) # "long-term-offline"})
         IN  [i \in DOMAIN shown |-> [id |-> shown[i].id, state |-> PlayerState(shown[i]),
                                      lastSeen |-> Epoch(shown[i].lastseen)]]

\* cachedGpsGlobalMarkers, and cachedMarketplaceOffers of "global": the items
\* that have a date, represented by it.
Dated(payload) ==
    IF payload = None THEN None ELSE Kept(payload, {t \in ToSet(payload) \ {Junk} : Epoch(t) # None})

\* cachedNpcMarkets: markets, represented by the sequence of their offers.
NpcMarkets(payload) ==
    IF payload = None THEN None
    ELSE [i \in DOMAIN Items(payload) |-> Items(Items(payload)[i])]

\* versionAtLeast: the numbers are compared one after the other.
VersionAtLeast(v, minimum) ==
    /\ v # None
    /\ Len(v) >= Len(minimum)
    /\ LET differs == {i \in DOMAIN minimum : v[i] # minimum[i]}
       IN  differs # {} => v[Min(differs)] > minimum[Min(differs)]

Capabilities ==
    [claims |-> MapClaims # None,
     claimSales |-> data.claimSales # None,
     renewZones |-> data.renewZones # None,
     marketplace |-> CachedAreaIds(data.marketZones) # None,
     shop |-> CachedAreaIds(data.shopZones) # None,
     players |-> MapPlayers(TRUE) # None,
     gpsGlobalMarkers |-> Dated(data.globalMarkers) # None,
     playerHistory |-> VersionAtLeast(data.landClaim, MinVersion),
     marketCriers |-> NpcMarkets(data.criers) # None,
     shopTraders |-> NpcMarkets(data.traders) # None]

OrEmpty(layer) == IF layer = None THEN <<>> ELSE layer

\* mapLiveSnapshotFromEntry
LiveSnapshot ==
    [capabilities |-> Capabilities,
     claims |-> OrEmpty(MapClaims),
     players |-> OrEmpty(MapPlayers(TRUE)),
     gpsGlobalMarkers |-> OrEmpty(Dated(data.globalMarkers)),
     marketplaceOffers |-> IF data.offers = None THEN {} ELSE data.offers,
     globalMarketplaceOffers |-> OrEmpty(Dated(data.globalOffers))]

-----------------------------------------------------------------------------
\* The listings of an area that are for sale, and its renewal zones.
ActiveListings(id) ==
    IF data.claimSales = None THEN {}
    ELSE {l \in DOMAIN data.claimSales :
             /\ data.claimSales[l] # Junk
             /\ data.claimSales[l].areaId = id /\ data.claimSales[l].status = "ACTIVE"}
ZonesOf(id) ==
    IF data.renewZones = None THEN {}
    ELSE {z \in DOMAIN data.renewZones :
             data.renewZones[z] # Junk /\ data.renewZones[z].areaId = id}

\* A claim is for sale at the price of the first active listing, and shown in
\* the colour of a sale before that of its last renewal zone, before that of
\* its permission; it covers its area but for half a block where it begins
\* (lines 399-521 and 569-589).
ClaimsAsPromised ==
    MapClaims # None => \A i \in DOMAIN MapClaims :
        \E a \in ToSet(Items(data.worldAreas.areas)) :
            LET c == MapClaims[i]
                settings == data.worldAreas.settings
                zone == data.renewZones[Max(ZonesOf(c.areaId))]
            IN  /\ c.areaId = a.id
                /\ 4 * c.minX <= a.x[1] + 2 /\ 4 * (c.minX + c.width) >= a.x[2]
                /\ 4 * c.minZ <= a.z[1] + 2 /\ 4 * (c.minZ + c.depth) >= a.z[2]
                /\ c.renewZone <=> ZonesOf(c.areaId) # {}
                /\ IF ActiveListings(c.areaId) # {}
                   THEN /\ c.salePrice = data.claimSales[Min(ActiveListings(c.areaId))].price
                        /\ c.colour = Colour(settings, "sale")
                   ELSE /\ c.salePrice = None
                        /\ c.renewZone /\ zone.colour # None => c.colour = zone.colour
                        /\ ~c.renewZone => c.colour \in {Colour(settings, k) : k \in ToSet(Kinds)}

\* The layers of an entry fit together: a claim marked as a market is one the
\* refresh asked offers for, offers come for markets only, and the live feed
\* shows nothing of a layer it says is missing (plugin-data-cache-service.ts
\* 150, 202-224; map-layer-service.ts 38-57, 116-139, 384-397).
LayersAgree ==
    /\ \A c \in ToSet(LiveSnapshot.claims) :
          c.marketplace => c.areaId \in AreasWithOffers(data.marketZones)
    /\ LiveSnapshot.marketplaceOffers # {} => LiveSnapshot.capabilities.marketplace
    /\ LiveSnapshot.marketplaceOffers \subseteq IdsOrNone(data.marketZones)
    /\ \A l \in {"claims", "players", "gpsGlobalMarkers"} :
          LiveSnapshot[l] # <<>> => LiveSnapshot.capabilities[l]
    /\ MapPlayers(TRUE) # None =>
          ToSet(MapPlayers(FALSE)) =
              {p \in ToSet(MapPlayers(TRUE)) : p.state # "long-term-offline"}
=============================================================================
