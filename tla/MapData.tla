-------------------------------- MODULE MapData --------------------------------
(***************************************************************************)
(* The live feed of the map (MapLive), the plugin data cache it reads      *)
(* (PluginDataCache) and the layers derived from an entry (MapLayers).     *)
(*                                                                         *)
(* The three specifications have no variable in common, so a behaviour of  *)
(* the whole is any interleaving of theirs, and what is claimed of one     *)
(* holds of the whole when it holds while the others stand still: part     *)
(* says which of them moves.                                               *)
(***************************************************************************)
EXTENDS MapLive, Sequences

CONSTANTS
    Refreshes,                                                  \* PluginDataCache
    Junk, Areas, Listings, RenewZones, Zones, Settings,         \* MapLayers
    PlayerItems, Dates, PluginVersions, MinVersion, Chunk, Threshold,
    MAX_ITEMS, MAX_PAYLOADS

\* Corners of areas are whole quarters; None is no set of ids.
ASSUME MapDataAssumption ==
    /\ \A a \in Areas \ {Junk} : a.x \in Int \X Int /\ a.z \in Int \X Int
    /\ \A ids \in SUBSET Zones : ids # None
    /\ MAX_ITEMS \in Nat

VARIABLES
    part,                                       \* the one that moves
    entry, record, refresh, settled,            \* PluginDataCache
    data, toRead                                \* MapLayers

Cache == INSTANCE PluginDataCache
Layers == INSTANCE MapLayers WITH Versions <- PluginVersions

cacheVars == <<entry, record, refresh, settled>>
layerVars == <<data, toRead>>
dataVars == <<vars, part, cacheVars, layerVars>>

InitData ==
    /\ part \in {"feed", "cache", "layers"}
    /\ Init
    /\ Cache!Init
    /\ Layers!Init

FeedMoves == part = "feed" /\ Next /\ UNCHANGED <<part, cacheVars, layerVars>>
CacheMoves == part = "cache" /\ Cache!Next /\ UNCHANGED <<part, vars, layerVars>>
LayersMove == part = "layers" /\ Layers!Next /\ UNCHANGED <<part, vars, cacheVars>>

NextData == FeedMoves \/ CacheMoves \/ LayersMove

\* Of the fairness of MapLive, what its properties need here: that loops go on.
FeedFairness ==
    \A o \in Objects :
        /\ WF_vars(part = "feed" /\ TimerFires(o))
        /\ SF_vars(part = "feed" /\ \E slow \in SUBSET Sockets : RefreshPublishes(o, slow))

\* The fairness of PluginDataCache.
CacheFairness ==
    /\ WF_cacheVars(part = "cache" /\ Cache!Age)
    /\ \A r \in Refreshes :
          /\ WF_cacheVars(part = "cache" /\ Cache!Proceeds(r))
          /\ WF_cacheVars(part = "cache" /\ Cache!EnsureRefreshes(r, FALSE))

SpecData == InitData /\ [][NextData]_dataVars /\ FeedFairness /\ CacheFairness

-----------------------------------------------------------------------------
\* PluginDataCache: readers get what the game server has in the end.
CacheCatchesUp == part = "cache" => Cache!CacheCatchesUp

\* MapLayers: sales, renewal zones, colours and extent of the claims shown.
ClaimsAsPromised == Layers!ClaimsAsPromised

\* MapLayers: the layers of an entry fit together.
LayersAgree == Layers!LayersAgree
=============================================================================
