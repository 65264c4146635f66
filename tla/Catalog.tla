------------------------------- MODULE Catalog -------------------------------
(***************************************************************************)
(* The server catalog (service/master-server-list-service.ts, and          *)
(* db/manager-store.ts beneath it) for one endpoint: the refresh from the  *)
(* master list, which the scheduler and the superadmin start, the prune of *)
(* endpoints not seen for 30 days, and the writers that save a record they *)
(* read before: the query data loop and updateServer.                      *)
(*                                                                         *)
(* Of a record its lastSeen is kept.  Time is counted in months, in which  *)
(* a record gets stale, and passes between operations only: none takes a   *)
(* month.                                                                  *)
(***************************************************************************)
EXTENDS Integers

CONSTANTS
    Callers,    \* those who start a refresh from the master list
    Writers,    \* calls of updateServer
    None,       \* no record, nobody
    MAX_TIME    \* bound: months

ASSUME CatalogAssumption ==
    /\ MAX_TIME \in Nat
    /\ None \notin Nat \cup Callers

VARIABLES
    now,        \* the time
    listed,     \* the endpoint is on the master list
    record,     \* lastSeen of the record, or None
    inFlight,   \* whose refresh masterServerListRefreshInFlight is, or None
    run,        \* caller -> phase of its refresh, answer of the master list
    query,      \* the query data loop: phase and record it listed
    writer      \* call of updateServer -> phase and record it read

vars == <<now, listed, record, inFlight, run, query, writer>>

Times == 0 .. MAX_TIME
Idle == [phase |-> "idle", answer |-> "none"]
NoSnapshot == [phase |-> "idle", base |-> None]

Init ==
    /\ now = 0
    /\ listed \in BOOLEAN
    /\ record \in {None, 0}
    /\ inFlight = None
    /\ run = [c \in Callers |-> Idle]
    /\ query = NoSnapshot
    /\ writer = [w \in Writers |-> NoSnapshot]

-----------------------------------------------------------------------------
(* The refresh from the master list.                                        *)

\* Mutant: a refresh starts while another one runs.
MutMayStart == TRUE
MayStart == inFlight = None

\* A call that finds another refresh is skipped.
Start(c) ==
    /\ run[c].phase = "idle"
    /\ MayStart
    /\ inFlight' = c
    /\ run' = [run EXCEPT ![c].phase = "fetch"]
    /\ UNCHANGED <<now, listed, record, query, writer>>

\* Mutant: a refresh that fails leaves the mark.
MutReleased(c, failed) == IF failed THEN inFlight ELSE None
\* A refresh takes away its own mark only.
Released(c, failed) == IF inFlight = c THEN None ELSE inFlight

End(c, failed) ==
    /\ run' = [run EXCEPT ![c] = Idle]
    /\ inFlight' = Released(c, failed)

\* Mutant: no list is a list without entries.
MutAfterFetch(response) == IF response = "listed" THEN "save" ELSE "list"
AfterFetch(response) ==
    CASE response = "listed" -> "save" [] response = "absent" -> "list" [] OTHER -> "idle"

\* The request fails or says so, or the list has the endpoint or not.
Fetch(c, response) ==
    /\ run[c].phase = "fetch"
    /\ response \in {IF listed THEN "listed" ELSE "absent", "failed"}
    /\ IF AfterFetch(response) = "idle"
       THEN End(c, FALSE)
       ELSE /\ run' = [run EXCEPT ![c] = [phase |-> AfterFetch(response),
                                          answer |-> response]]
            /\ UNCHANGED inFlight
    /\ UNCHANGED <<now, listed, record, query, writer>>

\* Mutant: the time is that of the master list, whose clock is ahead.
MutSeenAt == now + 1
SeenAt == now

\* saveMasterServer of the record found, or of a new one.
Save(c) ==
    /\ run[c].phase = "save"
    /\ record' = SeenAt
    /\ run' = [run EXCEPT ![c].phase = "list"]
    /\ UNCHANGED <<now, listed, inFlight, query, writer>>

\* Mutant: a record is stale after two months.
MutStale == record # None /\ record + 1 < now
Stale == record # None /\ record < now

\* removeStaleMasterServers: the stale records are listed ...
ListStale(c) ==
    /\ run[c].phase = "list"
    /\ IF Stale THEN run' = [run EXCEPT ![c].phase = "prune"] /\ UNCHANGED inFlight
                ELSE End(c, FALSE)
    /\ UNCHANGED <<now, listed, record, query, writer>>

\* ... and deleted by their ids, whatever they hold by then; entries and
\* sessions of the server go with them.
Delete(c) ==
    /\ run[c].phase = "prune"
    /\ record' = None
    /\ End(c, FALSE)
    /\ UNCHANGED <<now, listed, query, writer>>

\* The database refuses a read or write.
Fail(c) ==
    /\ run[c].phase \in {"save", "list", "prune"}
    /\ End(c, TRUE)
    /\ UNCHANGED <<now, listed, record, query, writer>>

-----------------------------------------------------------------------------
(* Writers of whole records.                                                *)

\* refreshAllServerQueryData lists all records and saves each much later.
QueryLists ==
    /\ query.phase = "idle"
    /\ record # None
    /\ query' = [phase |-> "fetch", base |-> record]
    /\ UNCHANGED <<now, listed, record, inFlight, run, writer>>

QuerySaves ==
    /\ query.phase = "fetch"
    /\ record' = query.base
    /\ query' = NoSnapshot
    /\ UNCHANGED <<now, listed, inFlight, run, writer>>

\* The data is recent enough, or the database fails.
QueryEnds ==
    /\ query.phase = "fetch"
    /\ query' = NoSnapshot
    /\ UNCHANGED <<now, listed, record, inFlight, run, writer>>

\* updateServer reads the record and saves it with other fields changed.
UpdateReads(w) ==
    /\ writer[w].phase = "idle"
    /\ record # None
    /\ writer' = [writer EXCEPT ![w] = [phase |-> "save", base |-> record]]
    /\ UNCHANGED <<now, listed, record, inFlight, run, query>>

UpdateSaves(w) ==
    /\ writer[w].phase = "save"
    /\ record' = writer[w].base
    /\ writer' = [writer EXCEPT ![w] = NoSnapshot]
    /\ UNCHANGED <<now, listed, inFlight, run, query>>

-----------------------------------------------------------------------------
(* The world.                                                               *)

\* The endpoint is taken off the master list or put on it.
ListChanges ==
    /\ listed' = ~listed
    /\ UNCHANGED <<now, record, inFlight, run, query, writer>>

TimePasses ==
    /\ now < MAX_TIME
    /\ \A c \in Callers : run[c] = Idle
    /\ query = NoSnapshot
    /\ \A w \in Writers : writer[w] = NoSnapshot
    /\ now' = now + 1
    /\ UNCHANGED <<listed, record, inFlight, run, query, writer>>

Next ==
    \/ \E c \in Callers :
          \/ Start(c)
          \/ \E response \in {"listed", "absent", "failed"} : Fetch(c, response)
          \/ Save(c)
          \/ ListStale(c)
          \/ Delete(c)
          \/ Fail(c)
    \/ QueryLists \/ QuerySaves \/ QueryEnds
    \/ \E w \in Writers : UpdateReads(w) \/ UpdateSaves(w)
    \/ ListChanges
    \/ TimePasses

Spec == Init /\ [][Next]_vars

-----------------------------------------------------------------------------
TypeOK ==
    /\ now \in Times
    /\ listed \in BOOLEAN
    /\ record \in Times \cup {None}
    /\ inFlight \in Callers \cup {None}
    /\ run \in [Callers -> [phase : {"idle", "fetch", "save", "list", "prune"},
                            answer : {"none", "listed", "absent", "failed"}]]
    /\ query \in [phase : {"idle", "fetch"}, base : Times \cup {None}]
    /\ writer \in [Writers -> [phase : {"idle", "save"}, base : Times \cup {None}]]

\* Refreshes that overlap would prune what another one has just seen: there
\* is one at a time, and it has the mark (lines 278-293).
OneRefresh ==
    \A c \in Callers : run[c].phase # "idle" => inFlight = c

\* A refresh ends and lets the next one start, also when it fails.
RefreshEnds == inFlight # None ~> inFlight = None

\* A failed request for the master list prunes nothing: records are deleted
\* in a refresh that got the list (lines 258-260).
PruneNeedsList ==
    [][record # None /\ record' = None =>
          \E c \in Callers : Delete(c) /\ run[c].answer \in {"listed", "absent"}]_vars

\* A refresh does not prune an endpoint its own list has (the comment at
\* lines 258-259, and the test "keeps a stale catalog endpoint and its
\* historical statistics when it reappears").
ListedNotPruned ==
    [][\A c \in Callers : Delete(c) => run[c].answer # "listed"]_vars
=============================================================================
