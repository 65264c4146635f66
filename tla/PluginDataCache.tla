---------------------------- MODULE PluginDataCache ----------------------------
(***************************************************************************)
(* The plugin data cache (service/plugin-data-cache-service.ts) for one    *)
(* game server; the entries of two servers never meet.  Loops refresh it,  *)
(* REST requests take the entry or refresh it: nothing keeps these         *)
(* refreshes apart, and the one that ends last sets the entry.             *)
(*                                                                         *)
(* What is read from the game server is represented by whether it is what  *)
(* the server would answer now: a change there makes all of it out of      *)
(* date, and a route that gave no data never is up to date.  Of the        *)
(* server's record, mapUrl and adminUid are kept in the same way.  The     *)
(* server has a query URL, and the plugins that the map takes data from.   *)
(***************************************************************************)
CONSTANTS
    Refreshes,      \* refreshes that run at once
    None            \* undefined

VARIABLES
    entry,          \* cache.get(server.id), with its age
    record,         \* mapUrl and adminUid of the record are up to date
    refresh,        \* refresh -> what it awaits and what it has read
    settled         \* from now on every request is answered and admitted, every
                    \* write done, and the data at the game server stays as it is

vars == <<entry, record, refresh, settled>>

\* seen: mapUrl of the ServerConfig it was called with; info: the one read;
\* found: the one in the document updateServer is about to write back.
Idle == [step |-> "idle", awaits |-> {}, current |-> FALSE,
         seen |-> FALSE, info |-> FALSE, found |-> FALSE]

Init ==
    /\ entry = None
    /\ record = FALSE
    /\ refresh = [r \in Refreshes |-> Idle]
    /\ settled = FALSE

\* Mutant: an entry is served as long as no refresh replaces it.
MutUnexpired == entry # None
\* expiresAtMs > Date.now()
Unexpired == entry # None /\ entry.age # "expired"

\* getCachedPluginData deletes the entry it finds expired.
Looked == IF Unexpired THEN entry ELSE None

-----------------------------------------------------------------------------
Started(r) ==
    refresh' = [refresh EXCEPT ![r] =
        [Idle EXCEPT !.step = "lists", !.awaits = {"pluginlist", "playerlist"},
                     !.current = TRUE, !.seen = record]]

\* A map loop, or the plugin data loop, refreshes the server.
LoopRefreshes(r) ==
    /\ refresh[r] = Idle
    /\ Started(r)
    /\ UNCHANGED <<entry, record, settled>>

\* ensurePluginDataForServer of a request that finds no entry, or one older
\* than its maximum age.
EnsureRefreshes(r, limited) ==
    /\ refresh[r] = Idle
    /\ Unexpired => limited /\ entry.age = "old"
    /\ Started(r)
    /\ entry' = Looked
    /\ UNCHANGED <<record, settled>>

\* Any other reader of the cache.
Look ==
    /\ entry # None
    /\ entry' = Looked
    /\ UNCHANGED <<record, refresh, settled>>

\* What is left of an await when a list failed: without plugins there is
\* nothing to go on with, without players the stored ones stand in.
Without(list) == IF list = "pluginlist" THEN {"noPlugins"} ELSE {}

\* fetchNativePluginList and fetchOnlinePlayerList run side by side.
ListAnswers(r, list, ok) ==
    /\ refresh[r].step = "lists"
    /\ list \in refresh[r].awaits
    /\ settled => ok
    /\ refresh' = [refresh EXCEPT
          ![r].awaits = (@ \ {list}) \cup (IF ok THEN {} ELSE Without(list)),
          ![r].current = @ /\ ok]
    /\ UNCHANGED <<entry, record, settled>>

\* pluginListUnavailable: the entry before stays.
Skip(r) ==
    /\ refresh[r].awaits = {"noPlugins"}
    /\ refresh' = [refresh EXCEPT ![r] = Idle]
    /\ UNCHANGED <<entry, record, settled>>

Lists(r) ==
    /\ refresh[r].step = "lists"
    /\ refresh[r].awaits = {}
    /\ refresh' = [refresh EXCEPT ![r].step = "routes"]
    /\ UNCHANGED <<entry, record, settled>>

\* The routes of the installed plugins, among them the server's info.
Routes(r, ok) ==
    /\ refresh[r].step = "routes"
    /\ settled => ok
    /\ refresh' = [refresh EXCEPT ![r].step = "areaOffers", ![r].current = @ /\ ok,
                                  ![r].info = ok]
    /\ UNCHANGED <<entry, record, settled>>

\* The offers of every area with a market, then the global ones.
Offers(r, ok) ==
    /\ refresh[r].step \in {"areaOffers", "globalOffers"}
    /\ settled => ok
    /\ refresh' = [refresh EXCEPT
          ![r].step = IF @ = "areaOffers" THEN "globalOffers" ELSE "read",
          ![r].current = @ /\ ok]
    /\ UNCHANGED <<entry, record, settled>>

\* What is read is not looked at again once the info is dealt with.
InfoDone(r) == [refresh EXCEPT ![r].step = "infoSaved", ![r].seen = FALSE, ![r].info = FALSE]

\* server.mapUrl and adminUid are compared with the info, which was read after
\* them: they can only differ when they are out of date.
SaveInfo(r) ==
    /\ refresh[r].step = "read"
    /\ ~refresh[r].seen
    /\ record' = refresh[r].info
    /\ refresh' = InfoDone(r)
    /\ UNCHANGED <<entry, settled>>

\* They are the same, or there is no info.
KeepInfo(r) ==
    /\ refresh[r].step = "read"
    /\ refresh[r].info => refresh[r].seen
    /\ refresh' = InfoDone(r)
    /\ UNCHANGED <<entry, record, settled>>

\* updateServer for the known players reads the document ...
FindPlayers(r) ==
    /\ refresh[r].step = "infoSaved"
    /\ refresh' = [refresh EXCEPT ![r].step = "found", ![r].found = record]
    /\ UNCHANGED <<entry, record, settled>>

\* ... and writes all of it back.
SavePlayers(r) ==
    /\ refresh[r].step = "found"
    /\ record' = refresh[r].found
    /\ refresh' = [refresh EXCEPT ![r].step = "playersSaved", ![r].found = FALSE]
    /\ UNCHANGED <<entry, settled>>

\* Mutant: a refresh leaves an entry alone that is there.
MutNewEntry(r) == IF entry # None THEN entry ELSE [current |-> refresh[r].current, age |-> "new"]
\* cache.set
NewEntry(r) == [current |-> refresh[r].current, age |-> "new"]

\* The end of the refresh; with no player in the list it comes at once.
SetEntry(r) ==
    /\ refresh[r].step \in {"infoSaved", "playersSaved"}
    /\ entry' = NewEntry(r)
    /\ refresh' = [refresh EXCEPT ![r] = Idle]
    /\ UNCHANGED <<record, settled>>

\* updateServer fails: so does the refresh, and the entry before stays.
SaveFails(r) ==
    /\ refresh[r].step \in {"read", "infoSaved", "found"}
    /\ ~settled
    /\ refresh' = [refresh EXCEPT ![r] = Idle]
    /\ UNCHANGED <<entry, record, settled>>

-----------------------------------------------------------------------------
(* Time and the game server.                                                *)

Ages(age) == IF age = "new" THEN "old" ELSE "expired"

Age ==
    /\ Unexpired
    /\ entry' = [entry EXCEPT !.age = Ages(entry.age)]
    /\ UNCHANGED <<record, refresh, settled>>

GameChanges ==
    /\ ~settled
    /\ record' = FALSE
    /\ entry' = IF entry = None THEN None ELSE [entry EXCEPT !.current = FALSE]
    /\ refresh' = [r \in Refreshes |->
          IF refresh[r] = Idle THEN Idle
          ELSE [refresh[r] EXCEPT !.current = FALSE, !.seen = FALSE, !.info = FALSE,
                                  !.found = FALSE]]
    /\ UNCHANGED settled

\* The last failure and the last change are over, if they ever are.
Settles ==
    /\ ~settled
    /\ settled' = TRUE
    /\ UNCHANGED <<entry, record, refresh>>

Proceeds(r) ==
    \/ \E list \in {"pluginlist", "playerlist"}, ok \in BOOLEAN : ListAnswers(r, list, ok)
    \/ \E ok \in BOOLEAN : Routes(r, ok) \/ Offers(r, ok)
    \/ Skip(r) \/ Lists(r) \/ SaveInfo(r) \/ KeepInfo(r)
    \/ FindPlayers(r) \/ SavePlayers(r) \/ SetEntry(r) \/ SaveFails(r)

Next ==
    \/ \E r \in Refreshes :
          \/ LoopRefreshes(r)
          \/ \E limited \in BOOLEAN : EnsureRefreshes(r, limited)
          \/ Proceeds(r)
    \/ Look \/ Age \/ GameChanges \/ Settles

\* What a refresh awaits returns; entries age; somebody goes on to ask for
\* the data, without a maximum age.
Fairness ==
    /\ WF_vars(Age)
    /\ \A r \in Refreshes : WF_vars(Proceeds(r)) /\ WF_vars(EnsureRefreshes(r, FALSE))

Spec == Init /\ [][Next]_vars /\ Fairness

-----------------------------------------------------------------------------
\* Once the game server answers for good and its data stays as it is, readers
\* get it: an entry of before gives way even if an older refresh ends after a
\* newer one, and nobody has to ask for a maximum age.  The record shows the
\* server's map again and again (lines 100-107 and 127-200).
CacheCatchesUp ==
    <>settled => <>[](entry = None \/ entry.current) /\ []<>record
=============================================================================
