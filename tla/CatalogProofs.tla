---------------------------- MODULE CatalogProofs ----------------------------
(***************************************************************************)
(* Proofs of the safety of Catalog for any callers and writers and any     *)
(* length of time, by itself and under the loops of CatalogLoops.          *)
(***************************************************************************)
EXTENDS CatalogLoops, TLAPS

USE CatalogAssumption DEF CatalogAssumption

\* Who works on the catalog has a list, and who is to save has a record.
HasList ==
    \A c \in Callers :
        run[c].phase \in {"save", "list", "prune"} => run[c].answer \in {"listed", "absent"}
HasRecord ==
    /\ query.phase = "fetch" => query.base # None
    /\ \A w \in Writers : writer[w].phase = "save" => writer[w].base # None

IInv == TypeOK /\ OneRefresh /\ HasList /\ HasRecord

LEMMA InitIInv == Init => IInv
  BY DEF Init, IInv, TypeOK, OneRefresh, HasList, HasRecord, Times, Idle, NoSnapshot

\* A refresh that ends leaves its caller idle and no mark of its own.
LEMMA EndIInv ==
    ASSUME IInv, NEW c \in Callers, NEW failed \in BOOLEAN, End(c, failed)
    PROVE  /\ run' \in [Callers -> [phase : {"idle", "fetch", "save", "list", "prune"},
                                    answer : {"none", "listed", "absent", "failed"}]]
           /\ inFlight' \in Callers \cup {None}
           /\ OneRefresh'
           /\ HasList'
<1>1. /\ run' = [run EXCEPT ![c] = Idle]
      /\ inFlight' = IF inFlight = c THEN None ELSE inFlight
  BY DEF End, Released
<1>2. run' \in [Callers -> [phase : {"idle", "fetch", "save", "list", "prune"},
                            answer : {"none", "listed", "absent", "failed"}]]
  BY <1>1 DEF IInv, TypeOK, Idle
<1>3. inFlight' \in Callers \cup {None}
  BY <1>1 DEF IInv, TypeOK
<1>4. \A d \in Callers : d # c => run'[d] = run[d]
  BY <1>1 DEF IInv, TypeOK
<1>5. run'[c].phase = "idle"
  BY <1>1 DEF IInv, TypeOK, Idle
<1>6. OneRefresh'
  BY <1>1, <1>4, <1>5 DEF IInv, OneRefresh
<1>7. HasList'
  BY <1>4, <1>5 DEF IInv, HasList
<1> QED
  BY <1>2, <1>3, <1>6, <1>7

LEMMA NextIInv == IInv /\ [Next]_vars => IInv'
<1> SUFFICES ASSUME IInv, [Next]_vars PROVE IInv'
  OBVIOUS
<1> USE DEF IInv, Times
<1>1. ASSUME NEW c \in Callers, Start(c) PROVE IInv'
  BY <1>1 DEF Start, MayStart, TypeOK, OneRefresh, HasList, HasRecord
<1>2. ASSUME NEW c \in Callers, NEW response \in {"listed", "absent", "failed"},
             Fetch(c, response)
      PROVE  IInv'
  <2>1. UNCHANGED <<now, listed, record, query, writer>>
    BY <1>2 DEF Fetch
  <2>2. CASE AfterFetch(response) = "idle"
    <3>1. End(c, FALSE)
      BY <1>2, <2>2 DEF Fetch
    <3> QED
      BY <2>1, <3>1, EndIInv DEF TypeOK, HasRecord
  <2>3. CASE AfterFetch(response) # "idle"
    <3>1. /\ run' = [run EXCEPT ![c] = [phase |-> AfterFetch(response), answer |-> response]]
          /\ UNCHANGED inFlight
          /\ run[c].phase = "fetch"
      BY <1>2, <2>3 DEF Fetch
    <3>2. AfterFetch(response) \in {"save", "list"} /\ response \in {"listed", "absent"}
      BY <2>3 DEF AfterFetch
    <3> QED
      BY <2>1, <3>1, <3>2 DEF TypeOK, OneRefresh, HasList, HasRecord
  <2> QED
    BY <2>2, <2>3
<1>3. ASSUME NEW c \in Callers, Save(c) PROVE IInv'
  BY <1>3 DEF Save, SeenAt, TypeOK, OneRefresh, HasList, HasRecord
<1>4. ASSUME NEW c \in Callers, ListStale(c) PROVE IInv'
  <2>1. UNCHANGED <<now, listed, record, query, writer>> /\ run[c].phase = "list"
    BY <1>4 DEF ListStale
  <2>2. CASE Stale
    <3>1. run' = [run EXCEPT ![c].phase = "prune"] /\ UNCHANGED inFlight
      BY <1>4, <2>2 DEF ListStale
    <3> QED
      BY <2>1, <3>1 DEF TypeOK, OneRefresh, HasList, HasRecord
  <2>3. CASE ~Stale
    <3>1. End(c, FALSE)
      BY <1>4, <2>3 DEF ListStale
    <3> QED
      BY <2>1, <3>1, EndIInv DEF TypeOK, HasRecord
  <2> QED
    BY <2>2, <2>3
<1>5. ASSUME NEW c \in Callers, Delete(c) PROVE IInv'
  <2>1. record' = None /\ End(c, FALSE) /\ UNCHANGED <<now, listed, query, writer>>
    BY <1>5 DEF Delete
  <2> QED
    BY <2>1, EndIInv DEF TypeOK, HasRecord
<1>6. ASSUME NEW c \in Callers, Fail(c) PROVE IInv'
  <2>1. End(c, TRUE) /\ UNCHANGED <<now, listed, record, query, writer>>
    BY <1>6 DEF Fail
  <2> QED
    BY <2>1, EndIInv DEF TypeOK, HasRecord
<1>7. CASE QueryLists \/ QuerySaves \/ QueryEnds
  BY <1>7 DEF QueryLists, QuerySaves, QueryEnds, NoSnapshot, TypeOK, OneRefresh, HasList, HasRecord
<1>8. ASSUME NEW w \in Writers, UpdateReads(w) \/ UpdateSaves(w) PROVE IInv'
  BY <1>8 DEF UpdateReads, UpdateSaves, NoSnapshot, TypeOK, OneRefresh, HasList, HasRecord
<1>9. CASE ListChanges \/ TimePasses
  <2>1. listed' \in BOOLEAN
    BY <1>9, Zenon DEF ListChanges, TimePasses, TypeOK
  <2>2. now' \in Times
    BY <1>9 DEF ListChanges, TimePasses, TypeOK
  <2>3. UNCHANGED <<record, inFlight, run, query, writer>>
    BY <1>9 DEF ListChanges, TimePasses
  <2> QED
    BY <2>1, <2>2, <2>3 DEF TypeOK, OneRefresh, HasList, HasRecord
<1>10. CASE UNCHANGED vars
  BY <1>10 DEF vars, TypeOK, OneRefresh, HasList, HasRecord
<1> QED
  BY <1>1, <1>2, <1>3, <1>4, <1>5, <1>6, <1>7, <1>8, <1>9, <1>10 DEF Next

\* The state of the catalog keeps its types, for any number of callers and
\* writers and any length of time.
THEOREM TypeCorrect == Spec => []TypeOK
<1>1. IInv => TypeOK
  BY DEF IInv
<1> QED
  BY <1>1, InitIInv, NextIInv, PTL DEF Spec

\* At most one refresh from the master list is at work: the guard of
\* refreshMasterServerList serialises all its callers (lines 278-293).
THEOREM OneRefreshAtATime == Spec => []OneRefresh
<1>1. IInv => OneRefresh
  BY DEF IInv
<1> QED
  BY <1>1, InitIInv, NextIInv, PTL DEF Spec

\* No step but the prune of a refresh that got the master list takes a record
\* out of the catalog (lines 211-214 and 258-260).
THEOREM PruneHasList == Spec => PruneNeedsList
<1>1. ASSUME IInv, [Next]_vars, record # None, record' = None
      PROVE  \E c \in Callers : Delete(c) /\ run[c].answer \in {"listed", "absent"}
  <2>1. ASSUME NEW c \in Callers, Save(c) PROVE FALSE
    BY <1>1, <2>1 DEF Save, SeenAt, IInv, TypeOK, Times
  <2>2. ASSUME NEW c \in Callers, Delete(c)
        PROVE  run[c].answer \in {"listed", "absent"}
    BY <1>1, <2>2 DEF Delete, IInv, HasList
  <2>3. ASSUME NEW c \in Callers,
               \/ Start(c) \/ ListStale(c) \/ Fail(c)
               \/ \E response \in {"listed", "absent", "failed"} : Fetch(c, response)
        PROVE  FALSE
    BY <1>1, <2>3 DEF Start, ListStale, Fail, Fetch
  <2>4. CASE QueryLists \/ QuerySaves \/ QueryEnds
    BY <1>1, <2>4 DEF QueryLists, QuerySaves, QueryEnds, IInv, HasRecord
  <2>5. ASSUME NEW w \in Writers, UpdateReads(w) \/ UpdateSaves(w) PROVE FALSE
    BY <1>1, <2>5 DEF UpdateReads, UpdateSaves, IInv, HasRecord
  <2>6. CASE ListChanges \/ TimePasses \/ UNCHANGED vars
    BY <1>1, <2>6 DEF ListChanges, TimePasses, vars
  <2> QED
    BY <1>1, <2>1, <2>2, <2>3, <2>4, <2>5, <2>6 DEF Next
<1>2. IInv /\ [Next]_vars =>
        [record # None /\ record' = None =>
            \E c \in Callers : Delete(c) /\ run[c].answer \in {"listed", "absent"}]_vars
  BY <1>1
<1> QED
  BY <1>2, InitIInv, NextIInv, PTL DEF Spec, PruneNeedsList

-----------------------------------------------------------------------------
(* Under the loops.                                                         *)

Scheduling == INSTANCE RefreshSchedulerProofs WITH Loops <- TaskLoops, Bounded <- BoundedLoops

\* Whatever the loops do, the catalog makes steps of its own.
LEMMA LoopsStepCatalog == [NextLoops]_allVars => [Next]_vars
<1> SUFFICES ASSUME [NextLoops]_allVars PROVE [Next]_vars
  OBVIOUS
<1>1. CallMaster => [Next]_vars
  BY LoopsAssumption DEF CallMaster, Next
<1>2. CASE BeginLoops \/ FireMaster
  BY <1>1, <1>2 DEF BeginLoops, FireMaster
<1>3. CASE StopLoops \/ SettleMaster \/ FireQuery \/ SettleQuery
  BY <1>3 DEF StopLoops, SettleMaster, FireQuery, SettleQuery
<1>4. CASE QueryBegins
  BY <1>4 DEF QueryBegins, Next
<1>5. CASE CatalogStep
  BY <1>5 DEF CatalogStep, Next
<1>6. CASE UNCHANGED allVars
  BY <1>6 DEF allVars
<1> QED
  BY <1>2, <1>3, <1>4, <1>5, <1>6 DEF NextLoops

\* Whatever the catalog does, the scheduler makes steps of its own.
LEMMA CatalogStepsLoops == [NextLoops]_allVars => [Loop!Next]_loopVars
<1> SUFFICES ASSUME [NextLoops]_allVars PROVE [Loop!Next]_loopVars
  OBVIOUS
<1>1. CASE BeginLoops \/ StopLoops
  BY <1>1 DEF BeginLoops, StopLoops, Loop!Next
<1>2. CASE FireMaster \/ FireQuery \/ SettleMaster \/ SettleQuery
  BY <1>2 DEF FireMaster, FireQuery, SettleMaster, SettleQuery, Loop!Next, TaskLoops
<1>3. CASE QueryBegins \/ CatalogStep \/ UNCHANGED allVars
  BY <1>3 DEF QueryBegins, CatalogStep, allVars
<1> QED
  BY <1>1, <1>2, <1>3 DEF NextLoops

\* The catalog keeps its promises under the loops of the scheduler.
THEOREM CatalogUnderLoops ==
    SpecLoops => [](TypeOK /\ OneRefresh) /\ PruneNeedsList
<1>1. InitLoops => Init
  BY DEF InitLoops
<1>2. SpecLoops => Spec
  BY <1>1, LoopsStepCatalog, PTL DEF SpecLoops, Spec
<1> QED
  BY <1>2, TypeCorrect, OneRefreshAtATime, PruneHasList, PTL

\* The scheduler of CatalogLoops is the one RefreshSchedulerProofs is about.
LEMMA SameScheduler ==
    /\ Loop!Init => Scheduling!Init
    /\ [Loop!Next]_loopVars => [Scheduling!Next]_Scheduling!vars
<1>1. Loop!Init => Scheduling!Init
  BY DEF Loop!Init, Scheduling!Init
<1>2. [Loop!Next]_loopVars => [Scheduling!Next]_Scheduling!vars
  BY DEF Loop!Next, Loop!Start, Loop!Stop, Loop!Fire, Loop!Settle, Loop!MayRun, Loop!Scheduled,
         Scheduling!Next, Scheduling!Start, Scheduling!Stop, Scheduling!Fire,
         Scheduling!Settle, Scheduling!MayRun, Scheduling!Scheduled, Scheduling!vars, loopVars
<1> QED
  BY <1>1, <1>2

\* So is what it promises.
LEMMA SamePromise == Scheduling!Promise!Safe => Loop!Promise!Safe
<1>1. Scheduling!Promise!Init => Loop!Promise!Init
  BY DEF Scheduling!PhaseOf, Loop!PhaseOf, Scheduling!Promise!Init, Loop!Promise!Init
<1>2. [Scheduling!Promise!Next]_([l \in TaskLoops |-> Scheduling!PhaseOf(l)])
          => [Loop!Promise!Next]_([l \in TaskLoops |-> Loop!PhaseOf(l)])
  BY DEF Scheduling!PhaseOf, Loop!PhaseOf, Scheduling!Promise!Next, Loop!Promise!Next,
         Scheduling!Promise!BeginAll, Loop!Promise!BeginAll, Scheduling!Promise!StopAll,
         Loop!Promise!StopAll, Scheduling!Promise!Run, Loop!Promise!Run,
         Scheduling!Promise!Settle, Loop!Promise!Settle, Scheduling!Promise!AfterStop,
         Loop!Promise!AfterStop
<1> QED
  BY <1>1, <1>2, PTL DEF Scheduling!Promise!Safe, Loop!Promise!Safe

\* The loops implement RefreshLoops, their liveness apart, when what they call
\* works on the catalog.
THEOREM LoopsPromiseSafety == SpecLoops => Loop!Promise!Safe
<1>1. InitLoops => Scheduling!Init
  BY SameScheduler DEF InitLoops
<1>2. [NextLoops]_allVars => [Scheduling!Next]_Scheduling!vars
  BY CatalogStepsLoops, SameScheduler
<1>3. SpecLoops => Scheduling!Safe
  BY <1>1, <1>2, PTL DEF SpecLoops, Scheduling!Safe
<1> QED
  BY <1>3, SamePromise, Scheduling!LoopsImplementPromise, PTL

\* What a loop calls is at work only while the loop has its run: a loop that
\* waits, or is over after stop(), leaves nothing behind it.
TasksInRuns ==
    /\ run[Scheduler].phase # "idle" => running["master"]
    /\ due \/ query.phase # "idle" => running["query"]

\* The scheduler's task ends before its loop goes on: none of its saves and
\* prunes comes between runs or after the loop is over (startLoop's finally).
THEOREM TasksEndFirst ==
    SpecLoops => [](/\ TasksInRuns
                    /\ Loop!PhaseOf("master") \in {"new", "waiting", "over"}
                          => run[Scheduler].phase = "idle")
<1>1. InitLoops => TasksInRuns
  BY LoopsAssumption DEF InitLoops, Init, Loop!Init, Idle, NoSnapshot, TasksInRuns
<1>2. TypeOK /\ Loop!TypeOK /\ TasksInRuns /\ [NextLoops]_allVars => TasksInRuns'
  <2> SUFFICES ASSUME TypeOK, Loop!TypeOK, TasksInRuns, [NextLoops]_allVars PROVE TasksInRuns'
    OBVIOUS
  <2> USE LoopsAssumption DEF TasksInRuns, TaskLoops, TypeOK, Loop!TypeOK
  <2>1. CASE BeginLoops
    BY <2>1 DEF BeginLoops, Loop!Start
  <2>2. CASE StopLoops
    BY <2>2 DEF StopLoops, Loop!Stop, vars
  <2>3. CASE FireMaster
    <3>1. running'["query"] = running["query"] /\ due' = due /\ query' = query
      BY <2>3 DEF FireMaster, Loop!Fire, CallMaster, Start, vars
    <3>2. CASE Loop!MayRun("master")
      <4>1. running'["master"]
        BY <2>3, <3>2 DEF FireMaster, Loop!Fire
      <4> QED
        BY <3>1, <4>1
    <3>3. CASE ~Loop!MayRun("master")
      <4>1. run' = run /\ running'["master"] = running["master"]
        BY <2>3, <3>3 DEF FireMaster, Loop!Fire, vars
      <4> QED
        BY <3>1, <4>1
    <3> QED
      BY <3>2, <3>3
  <2>4. CASE SettleMaster
    BY <2>4 DEF SettleMaster, Loop!Settle, vars
  <2>5. CASE FireQuery
    BY <2>5 DEF FireQuery, Loop!Fire, Loop!MayRun, vars
  <2>6. CASE QueryBegins
    BY <2>6 DEF QueryBegins, QueryLists, loopVars, vars
  <2>7. CASE SettleQuery
    BY <2>7 DEF SettleQuery, Loop!Settle, vars
  <2>8. CASE CatalogStep
    <3>1. running' = running /\ due' = due
      BY <2>8 DEF CatalogStep, loopVars
    <3>2. query' = query \/ query'.phase = "idle"
      <4>1. CASE QuerySaves \/ QueryEnds
        BY <4>1 DEF QuerySaves, QueryEnds, NoSnapshot
      <4>2. CASE ~(QuerySaves \/ QueryEnds)
        BY <2>8, <4>2 DEF CatalogStep, Start, Fetch, Save, ListStale, Delete, Fail,
                          UpdateReads, UpdateSaves, ListChanges, TimePasses
      <4> QED
        BY <4>1, <4>2
    <3>3. run[Scheduler].phase = "idle" => run'[Scheduler].phase = "idle"
      <4> SUFFICES ASSUME run[Scheduler].phase = "idle" PROVE run'[Scheduler].phase = "idle"
        OBVIOUS
      <4>1. ASSUME NEW c \in Callers \ {Scheduler}, Start(c) PROVE run'[Scheduler].phase = "idle"
        BY <4>1 DEF Start
      <4>2. ASSUME NEW c \in Callers, NEW response \in {"listed", "absent", "failed"},
                   Fetch(c, response)
            PROVE  run'[Scheduler].phase = "idle"
        BY <4>2 DEF Fetch, End, Idle
      <4>3. ASSUME NEW c \in Callers, Save(c) \/ ListStale(c) \/ Delete(c) \/ Fail(c)
            PROVE  run'[Scheduler].phase = "idle"
        BY <4>3 DEF Save, ListStale, Delete, Fail, End, Idle
      <4>4. CASE run' = run
        BY <4>4
      <4> QED
        BY <2>8, <4>1, <4>2, <4>3, <4>4 DEF CatalogStep, QuerySaves, QueryEnds, UpdateReads,
                UpdateSaves, ListChanges, TimePasses
    <3> QED
      BY <3>1, <3>2, <3>3
  <2>9. CASE UNCHANGED allVars
    BY <2>9 DEF allVars, vars, loopVars
  <2> QED
    BY <2>1, <2>2, <2>3, <2>4, <2>5, <2>6, <2>7, <2>8, <2>9 DEF NextLoops
<1>3. InitLoops => Scheduling!Init
  BY SameScheduler DEF InitLoops
<1>4. [NextLoops]_allVars => [Scheduling!Next]_Scheduling!vars
  BY CatalogStepsLoops, SameScheduler
<1>5. SpecLoops => [](Scheduling!TypeOK /\ Scheduling!OneAtATime)
  BY <1>3, <1>4, Scheduling!OneTimeout, PTL DEF SpecLoops, Scheduling!Safe
<1>6. Scheduling!TypeOK => Loop!TypeOK
  BY DEF Scheduling!TypeOK, Loop!TypeOK
<1>7. TasksInRuns /\ Loop!TypeOK /\ Scheduling!OneAtATime
        => (Loop!PhaseOf("master") \in {"new", "waiting", "over"} => run[Scheduler].phase = "idle")
  <2> SUFFICES ASSUME TasksInRuns, Loop!TypeOK, Scheduling!OneAtATime, running["master"]
               PROVE  Loop!PhaseOf("master") \notin {"new", "waiting", "over"}
    BY DEF TasksInRuns
  <2>1. begun
    BY DEF Scheduling!OneAtATime, TaskLoops
  <2>2. Loop!PhaseOf("master") = IF stopped["master"] THEN "lastRun" ELSE "running"
    BY <2>1 DEF Loop!PhaseOf, Loop!TypeOK, TaskLoops
  <2> QED
    BY <2>2
<1> QED
  BY <1>1, <1>2, <1>5, <1>6, <1>7, CatalogUnderLoops, PTL DEF SpecLoops
=============================================================================
