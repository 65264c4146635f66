------------------------------ MODULE LiveStatus ------------------------------
(***************************************************************************)
(* The live status of one game server (service/server-live-status-         *)
(* service.ts): REST calls that share a cache and the check in progress,   *)
(* the refresh of the player list, the player status of the game connector *)
(* and the catalog's prune, all writing the server's record.               *)
(*                                                                         *)
(* A write is updateServer of db/manager-store.ts: the record is read, the *)
(* fields that are defined are put over it, and all of it is saved, so     *)
(* that what another writer saved in between is lost, or a record that was *)
(* deleted comes back.                                                     *)
(***************************************************************************)
EXTENDS Integers, FiniteSets

CONSTANTS
    Calls,          \* calls of getServerLiveStatus
    Events,         \* playerStatus events of the game connector
    None,           \* nothing
    MAX_FETCHES,    \* bound: status checks
    MAX_REFRESHES,  \* bound: refreshes of the player list
    MAX_PRUNES      \* bound: prunes of the record

\* A record without a list of players is one with an empty list; a response
\* without one is not.
Status == [status : {"online", "offline"}, players : {"none", "some"}]
Players == {"unknown", "none", "some"}
Fetches == 1 .. MAX_FETCHES

\* fetchLiveStatus: an offline server has no players.
Answers == {a \in [status : {"online", "offline"}, players : Players] :
               a.status = "offline" => a.players = "none"}

ASSUME LiveAssumption ==
    /\ MAX_FETCHES \in Nat /\ MAX_REFRESHES \in Nat /\ MAX_PRUNES \in Nat
    /\ None \notin Nat \cup Status \cup Answers

VARIABLES
    record,     \* the server record, or None
    cached,     \* cache has an entry that is not expired
    inflight,   \* the check inflight holds, or None
    fetched,    \* checks started so far
    fetch,      \* check -> phase, response and record it read
    call,       \* call -> phase, record it read, check it waits for
    refresh,    \* the player list loop: phase, players, record it read
    refreshes,  \* refreshes of the player list so far
    event,      \* event -> phase, players, record it read
    clearing,   \* the prune has still to clear the entries
    prunes      \* prunes so far

checkVars == <<fetched, fetch, call>>
loopVars == <<refresh, refreshes>>
pruneVars == <<clearing, prunes>>
vars == <<record, cached, inflight, checkVars, loopVars, event, pruneVars>>

Init ==
    /\ record \in {s \in Status : s.status = "online" <=> s.players = "some"}
    /\ cached = FALSE
    /\ inflight = None
    /\ fetched = 0
    /\ fetch = [f \in Fetches |-> [phase |-> "none", response |-> None, base |-> None]]
    /\ call = [c \in Calls |-> [phase |-> "none", fetch |-> None]]
    /\ refresh = [phase |-> "idle", players |-> "none", base |-> None]
    /\ refreshes = 0
    /\ event = [e \in Events |-> [phase |-> "none", players |-> "none", base |-> None]]
    /\ clearing = FALSE
    /\ prunes = 0

\* Mutant: fields that are undefined are put over the record as well.
MutPatched(base, patch) == [f \in DOMAIN base |-> IF f \in DOMAIN patch THEN patch[f] ELSE base[f]]

\* updateServer: the fields of patch that are defined over the record read.
Patched(base, patch) ==
    [base EXCEPT !.status = IF "status" \in DOMAIN patch THEN patch.status ELSE @,
                 !.players = IF patch.players = "unknown" THEN @ ELSE patch.players]

-----------------------------------------------------------------------------
(* Calls.                                                                   *)

\* findServerById; without a record the call fails.
Find(c) ==
    /\ call[c].phase = "none"
    /\ call' = [call EXCEPT ![c].phase = IF record = None THEN "failed" ELSE "found"]
    /\ UNCHANGED <<record, cached, inflight, fetched, fetch, loopVars, event, pruneVars>>

CacheHit(c) ==
    /\ call[c].phase = "found"
    /\ cached
    /\ call' = [call EXCEPT ![c].phase = "answered"]
    /\ UNCHANGED <<record, cached, inflight, fetched, fetch, loopVars, event, pruneVars>>

\* The record that was read is recent enough.
FreshEnough(c) ==
    /\ call[c].phase = "found"
    /\ ~cached
    /\ cached' = TRUE
    /\ call' = [call EXCEPT ![c].phase = "answered"]
    /\ UNCHANGED <<record, inflight, fetched, fetch, loopVars, event, pruneVars>>

\* Mutant: a call does not join the check in progress.
MutMustFetch == TRUE
MustFetch == inflight = None

Join(c) ==
    /\ call[c].phase = "found"
    /\ ~cached
    /\ ~MustFetch
    /\ call' = [call EXCEPT ![c] = [phase |-> "waiting", fetch |-> inflight]]
    /\ UNCHANGED <<record, cached, inflight, fetched, fetch, loopVars, event, pruneVars>>

StartFetch(c) ==
    /\ call[c].phase = "found"
    /\ ~cached
    /\ MustFetch
    /\ fetched < MAX_FETCHES
    /\ fetched' = fetched + 1
    /\ fetch' = [fetch EXCEPT ![fetched + 1].phase = "query"]
    /\ inflight' = fetched + 1
    /\ call' = [call EXCEPT ![c] = [phase |-> "waiting", fetch |-> fetched + 1]]
    /\ UNCHANGED <<record, cached, loopVars, event, pruneVars>>

CacheExpires ==
    /\ cached
    /\ cached' = FALSE
    /\ UNCHANGED <<record, inflight, checkVars, loopVars, event, pruneVars>>

-----------------------------------------------------------------------------
(* A status check.                                                          *)

Running(f) == fetch[f].phase \notin {"none", "done"}

FetchAnswers(f, response) ==
    /\ fetch[f].phase = "query"
    /\ fetch' = [fetch EXCEPT ![f].phase = "persist", ![f].response = response]
    /\ UNCHANGED <<record, cached, inflight, fetched, call, loopVars, event, pruneVars>>

\* persistLiveStatus: updateServer reads the record, and is done without one.
FetchReads(f) ==
    /\ fetch[f].phase = "persist"
    /\ fetch' = IF record = None
                THEN [fetch EXCEPT ![f] = [phase |-> "sample", response |-> None, base |-> None]]
                ELSE [fetch EXCEPT ![f].phase = "save", ![f].base = record]
    /\ UNCHANGED <<record, cached, inflight, fetched, call, loopVars, event, pruneVars>>

FetchSaves(f) ==
    /\ fetch[f].phase = "save"
    /\ record' = Patched(fetch[f].base, fetch[f].response)
    /\ fetch' = [fetch EXCEPT ![f] = [phase |-> "sample", response |-> None, base |-> None]]
    /\ UNCHANGED <<cached, inflight, fetched, call, loopVars, event, pruneVars>>

\* Mutant: the result is for the check inflight holds only.
MutSettled(f, result) ==
    [c \in Calls |-> IF inflight = f /\ call[c] = [phase |-> "waiting", fetch |-> f]
                     THEN [phase |-> result, fetch |-> None] ELSE call[c]]

\* Those who wait for the check get its result, or its error.
Settled(f, result) ==
    [c \in Calls |-> IF call[c] = [phase |-> "waiting", fetch |-> f]
                     THEN [phase |-> result, fetch |-> None] ELSE call[c]]

Ended(f) == [fetch EXCEPT ![f] = [phase |-> "done", response |-> None, base |-> None]]

\* The sample is recorded, the response cached, and the entry deleted
\* whichever check it holds.
FetchEnds(f) ==
    /\ fetch[f].phase = "sample"
    /\ fetch' = Ended(f)
    /\ call' = Settled(f, "answered")
    /\ cached' = TRUE
    /\ inflight' = None
    /\ UNCHANGED <<record, fetched, loopVars, event, pruneVars>>

\* Mutant: only a check that succeeds is removed.
MutAfterFailure == inflight
AfterFailure == None

\* A query URL that is no URL, or a read or write the database refuses.
FetchFails(f) ==
    /\ Running(f)
    /\ fetch' = Ended(f)
    /\ call' = Settled(f, "failed")
    /\ inflight' = AfterFailure
    /\ UNCHANGED <<record, cached, fetched, loopVars, event, pruneVars>>

-----------------------------------------------------------------------------
(* The loop that refreshes player lists.                                    *)

\* listServers: the server is online, due, and no connector reports players.
RefreshStarts ==
    /\ refresh.phase = "idle"
    /\ refreshes < MAX_REFRESHES
    /\ record # None
    /\ record.status = "online"
    /\ refreshes' = refreshes + 1
    /\ refresh' = [refresh EXCEPT !.phase = "query"]
    /\ UNCHANGED <<record, cached, inflight, checkVars, event, pruneVars>>

RefreshAnswers(players) ==
    /\ refresh.phase = "query"
    /\ refresh' = IF players = "unknown" THEN [refresh EXCEPT !.phase = "idle"]
                  ELSE [refresh EXCEPT !.phase = "persist", !.players = players]
    /\ UNCHANGED <<record, cached, inflight, checkVars, refreshes, event, pruneVars>>

RefreshReads ==
    /\ refresh.phase = "persist"
    /\ refresh' = IF record = None THEN [refresh EXCEPT !.phase = "idle", !.players = "none"]
                  ELSE [refresh EXCEPT !.phase = "save", !.base = record]
    /\ UNCHANGED <<record, cached, inflight, checkVars, refreshes, event, pruneVars>>

RefreshSaves ==
    /\ refresh.phase = "save"
    /\ record' = Patched(refresh.base, [players |-> refresh.players])
    /\ refresh' = [phase |-> "idle", players |-> "none", base |-> None]
    /\ UNCHANGED <<cached, inflight, checkVars, refreshes, event, pruneVars>>

-----------------------------------------------------------------------------
(* Player status of the game connector.                                     *)

\* findServerById of the handler, then that of updateServer.
EventFinds(e, players) ==
    /\ event[e].phase = "none"
    /\ event' = [event EXCEPT ![e].phase = IF record = None THEN "done" ELSE "persist",
                              ![e].players = players]
    /\ UNCHANGED <<record, cached, inflight, checkVars, loopVars, pruneVars>>

EventReads(e) ==
    /\ event[e].phase = "persist"
    /\ event' = [event EXCEPT ![e].phase = "save", ![e].base = record]
    /\ UNCHANGED <<record, cached, inflight, checkVars, loopVars, pruneVars>>

\* Without a record nothing is saved; the response is cached all the same.
EventSaves(e) ==
    LET online == [status |-> "online", players |-> event[e].players] IN
    /\ event[e].phase = "save"
    /\ record' = IF event[e].base = None THEN record ELSE Patched(event[e].base, online)
    /\ cached' = TRUE
    /\ event' = [event EXCEPT ![e] = [phase |-> "done", players |-> "none", base |-> None]]
    /\ UNCHANGED <<inflight, checkVars, loopVars, pruneVars>>

-----------------------------------------------------------------------------
(* The catalog.                                                             *)

Prune ==
    /\ record # None
    /\ ~clearing
    /\ prunes < MAX_PRUNES
    /\ prunes' = prunes + 1
    /\ record' = None
    /\ clearing' = TRUE
    /\ UNCHANGED <<cached, inflight, checkVars, loopVars, event>>

\* clearServerLiveStatusCacheEntry; a check in progress goes on.
ClearEntry ==
    /\ clearing
    /\ clearing' = FALSE
    /\ cached' = FALSE
    /\ inflight' = None
    /\ UNCHANGED <<record, checkVars, loopVars, event, prunes>>

\* The endpoint is on the master list again.
Reappear ==
    /\ record = None
    /\ ~clearing
    /\ record' = [status |-> "offline", players |-> "none"]
    /\ UNCHANGED <<cached, inflight, checkVars, loopVars, event, pruneVars>>

-----------------------------------------------------------------------------
Decide(c) ==
    \/ CacheHit(c)
    \/ FreshEnough(c)
    \/ Join(c)
    \/ StartFetch(c)

FetchStep(f) ==
    \/ \E response \in Answers : FetchAnswers(f, response)
    \/ FetchReads(f)
    \/ FetchSaves(f)
    \/ FetchEnds(f)
    \/ FetchFails(f)

Next ==
    \/ \E c \in Calls : Find(c) \/ Decide(c)
    \/ \E f \in Fetches : FetchStep(f)
    \/ CacheExpires
    \/ RefreshStarts \/ RefreshReads \/ RefreshSaves
    \/ \E players \in Players : RefreshAnswers(players)
    \/ \E e \in Events :
          \/ \E players \in {"none", "some"} : EventFinds(e, players)
          \/ EventReads(e)
          \/ EventSaves(e)
    \/ Prune \/ ClearEntry \/ Reappear

\* Requests time out and the database answers.
Fairness ==
    /\ \A c \in Calls : WF_vars(Decide(c))
    /\ \A f \in Fetches : WF_vars(FetchStep(f))

Spec == Init /\ [][Next]_vars
FairSpec == Spec /\ Fairness

-----------------------------------------------------------------------------
TypeOK ==
    /\ record \in Status \cup {None}
    /\ cached \in BOOLEAN
    /\ inflight \in Fetches \cup {None}
    /\ fetched \in 0 .. MAX_FETCHES
    /\ fetch \in [Fetches -> [phase : {"none", "query", "persist", "save", "sample", "done"},
                              response : Answers \cup {None},
                              base : Status \cup {None}]]
    /\ call \in [Calls -> [phase : {"none", "found", "waiting", "answered", "failed"},
                           fetch : Fetches \cup {None}]]
    /\ refresh \in [phase : {"idle", "query", "persist", "save"},
                    players : {"none", "some"}, base : Status \cup {None}]
    /\ refreshes \in 0 .. MAX_REFRESHES
    /\ event \in [Events -> [phase : {"none", "persist", "save", "done"},
                             players : {"none", "some"}, base : Status \cup {None}]]
    /\ clearing \in BOOLEAN
    /\ prunes \in 0 .. MAX_PRUNES

\* Callers are never sent to a check that is over: a call that joins the
\* entry of inflight joins a check that will settle (lines 356-379).
InflightIsRunning == inflight # None => Running(inflight)

\* Concurrent requests are coalesced: until a prune forgets the entry of a
\* check in progress, the game server is asked by one check at a time
\* (lines 356-379 and 390-394).
OneFetchUntilPruned ==
    prunes = 0 => Cardinality({f \in Fetches : Running(f)}) <= 1

\* Every call that finds its server comes to an answer or an error, also
\* when a prune forgets the check it waits for.
CallsAnswered ==
    \A c \in Calls :
        call[c].phase = "waiting" ~> call[c].phase \in {"answered", "failed"}

\* An offline server does not retain a player list in storage (the comment at
\* line 132).
OfflineHasNoPlayers ==
    record # None /\ record.status = "offline" => record.players # "some"
=============================================================================
