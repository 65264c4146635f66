----------------------------- MODULE CatalogLoops -----------------------------
(***************************************************************************)
(* The catalog under the loops of the refresh scheduler that work on it:   *)
(* master, whose task is refreshMasterServerList, and query, whose task is *)
(* refreshAllServerQueryData.  They start before the HTTP server listens   *)
(* (index.ts), and stop with the process; a refresh by the superadmin and  *)
(* the other writers come whenever they like.                              *)
(***************************************************************************)
EXTENDS Catalog

CONSTANTS
    Scheduler   \* the caller of the refreshes the master loop starts

ASSUME LoopsAssumption == Scheduler \in Callers

VARIABLES
    begun, stopped, running, armed,     \* of the scheduler
    due         \* the task of the query loop has yet to list the records

loopVars == <<begun, stopped, running, armed>>
allVars == <<vars, loopVars, due>>

TaskLoops == {"master", "query"}
\* The master list is fetched with a timeout, game servers without one.
BoundedLoops == {"master"}
Loop == INSTANCE RefreshScheduler WITH Loops <- TaskLoops, Bounded <- BoundedLoops

InitLoops ==
    /\ Init
    /\ Loop!Init
    /\ due = FALSE

\* The task of the master loop: its first step comes with the run, and is
\* all of it when another refresh is in flight.
CallMaster == IF MayStart THEN Start(Scheduler) ELSE UNCHANGED vars

BeginLoops ==
    /\ Loop!Start
    /\ CallMaster
    /\ due' = TRUE

FireMaster ==
    /\ Loop!Fire("master")
    /\ IF Loop!MayRun("master") THEN CallMaster ELSE UNCHANGED vars
    /\ UNCHANGED due

FireQuery ==
    /\ Loop!Fire("query")
    /\ due' = (due \/ Loop!MayRun("query"))
    /\ UNCHANGED vars

\* listServers of the query task answers, maybe without a record.
QueryBegins ==
    /\ due
    /\ due' = FALSE
    /\ IF record = None THEN UNCHANGED vars ELSE QueryLists
    /\ UNCHANGED loopVars

\* A task has ended: its loop goes on.
SettleMaster ==
    /\ run[Scheduler].phase = "idle"
    /\ Loop!Settle("master")
    /\ UNCHANGED <<vars, due>>

SettleQuery ==
    /\ ~due /\ query.phase = "idle"
    /\ Loop!Settle("query")
    /\ UNCHANGED <<vars, due>>

StopLoops == Loop!Stop /\ UNCHANGED <<vars, due>>

\* What the catalog does by itself.
CatalogStep ==
    /\ \/ \E c \in Callers \ {Scheduler} : begun /\ Start(c)
       \/ \E c \in Callers :
             \/ \E response \in {"listed", "absent", "failed"} : Fetch(c, response)
             \/ Save(c)
             \/ ListStale(c)
             \/ Delete(c)
             \/ Fail(c)
       \/ QuerySaves
       \/ QueryEnds
       \/ \E w \in Writers : (begun /\ UpdateReads(w)) \/ UpdateSaves(w)
       \/ ListChanges
       \/ ~due /\ TimePasses
    /\ UNCHANGED <<loopVars, due>>

NextLoops ==
    \/ BeginLoops \/ StopLoops
    \/ FireMaster \/ SettleMaster
    \/ FireQuery \/ QueryBegins \/ SettleQuery
    \/ CatalogStep

\* Timeouts fire; the master list and the database answer, and do not fail
\* for ever.  That refreshes go on is for the loops to show.  The query task
\* need not end: a game server that never finishes an answer holds it up, at
\* this record or at another one.
LoopsFairness ==
    /\ WF_allVars(BeginLoops)
    /\ WF_allVars(FireMaster) /\ WF_allVars(SettleMaster)
    /\ WF_allVars(FireQuery) /\ WF_allVars(QueryBegins)
    /\ \A c \in Callers :
          /\ SF_allVars((Fetch(c, "listed") \/ Fetch(c, "absent")) /\ UNCHANGED <<loopVars, due>>)
          /\ SF_allVars(Save(c) /\ UNCHANGED <<loopVars, due>>)
          /\ SF_allVars(ListStale(c) /\ UNCHANGED <<loopVars, due>>)
          /\ SF_allVars(Delete(c) /\ UNCHANGED <<loopVars, due>>)

SpecLoops == InitLoops /\ [][NextLoops]_allVars
FairSpecLoops == SpecLoops /\ LoopsFairness

-----------------------------------------------------------------------------
\* Whatever its task does, fails or skips, a loop has one run at a time, and
\* after stop() none that starts; it goes on when the run ends, and the runs
\* of the master loop do (lines 55-96): the loops implement RefreshLoops.
\* The scheduler's own fairness is that of the tasks above.
LoopsKeepPromise == Loop!LoopsKeepPromise

\* A record that is stale is pruned or seen again in the end, although the
\* loops that read it before may bring it back, unless the process stops.
StaleGoes ==
    (record # None /\ record < now)
        ~> (record = None \/ record = now \/ stopped["master"])
=============================================================================
