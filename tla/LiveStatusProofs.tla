--------------------------- MODULE LiveStatusProofs ---------------------------
(***************************************************************************)
(* Proofs of the safety of LiveStatus for any number of calls, checks,     *)
(* connector events, refreshes and prunes.                                 *)
(***************************************************************************)
EXTENDS LiveStatus, FiniteSetTheorems, TLAPS

USE LiveAssumption DEF LiveAssumption

\* A writer that saves has read the record, and has what to save.
HasRead ==
    /\ \A f \in Fetches : /\ fetch[f].phase = "save" => fetch[f].base # None
                          /\ fetch[f].phase \in {"persist", "save"} => fetch[f].response # None
    /\ refresh.phase = "save" => refresh.base # None

Types == TypeOK /\ HasRead

\* A check that has not been started does not run.
NotStarted == \A f \in Fetches : f > fetched => fetch[f].phase = "none"

\* Only a prune lets inflight forget a check that runs.
RunningIsHeld == prunes = 0 => \A f \in Fetches : Running(f) => inflight = f
ClearingPruned == clearing => prunes > 0

IInv == Types /\ NotStarted /\ InflightIsRunning /\ RunningIsHeld /\ ClearingPruned

FetchType == [phase : {"none", "query", "persist", "save", "sample", "done"},
              response : Answers \cup {None}, base : Status \cup {None}]
CallType == [phase : {"none", "found", "waiting", "answered", "failed"},
             fetch : Fetches \cup {None}]
EventType == [phase : {"none", "persist", "save", "done"},
              players : {"none", "some"}, base : Status \cup {None}]

LEMMA InitIInv == Init => IInv
<1> SUFFICES ASSUME Init PROVE IInv
  OBVIOUS
<1>1. Types
  <2>1. record \in Status
    BY DEF Init
  <2>2. fetch \in [Fetches -> FetchType] /\ \A f \in Fetches : fetch[f].phase = "none"
    BY DEF Init, FetchType, Fetches
  <2>3. call \in [Calls -> CallType]
    BY DEF Init, CallType
  <2>4. event \in [Events -> EventType]
    BY DEF Init, EventType
  <2>5. HasRead
    BY <2>2 DEF Init, HasRead
  <2>6. cached \in BOOLEAN /\ clearing \in BOOLEAN
    BY DEF Init
  <2>7. /\ inflight = None /\ fetched \in 0 .. MAX_FETCHES
        /\ refreshes \in 0 .. MAX_REFRESHES /\ prunes \in 0 .. MAX_PRUNES
        /\ refresh \in [phase : {"idle", "query", "persist", "save"},
                        players : {"none", "some"}, base : Status \cup {None}]
    BY DEF Init
  <2> QED
    BY <2>1, <2>2, <2>3, <2>4, <2>5, <2>6, <2>7 DEF Types, TypeOK, FetchType, CallType, EventType
<1>2. NotStarted /\ InflightIsRunning /\ RunningIsHeld /\ ClearingPruned
  BY DEF Init, NotStarted, InflightIsRunning, RunningIsHeld, ClearingPruned, Running
<1> QED
  BY <1>1, <1>2 DEF IInv

\* The fields put over a record leave a record.
LEMMA PatchedIsStatus ==
    ASSUME NEW base \in Status, NEW patch \in [status : {"online", "offline"}, players : Players]
    PROVE  Patched(base, patch) \in Status
  BY DEF Patched, Status, Players

LEMMA PlayersPatchedIsStatus ==
    ASSUME NEW base \in Status, NEW players \in {"none", "some"}
    PROVE  Patched(base, [players |-> players]) \in Status
  BY DEF Patched, Status

\* The calls a check settles are calls.
LEMMA SettledIsCall ==
    ASSUME IInv, NEW f \in Fetches, NEW result \in {"answered", "failed"}
    PROVE  Settled(f, result) \in [Calls -> CallType]
  BY DEF IInv, Types, TypeOK, Settled, CallType

LEMMA FetchChanged ==
    ASSUME IInv, NEW f \in Fetches
    PROVE  /\ fetch \in [Fetches -> FetchType]
           /\ \A x \in FetchType : [fetch EXCEPT ![f] = x] \in [Fetches -> FetchType]
           /\ \A x : [fetch EXCEPT ![f] = x][f] = x
           /\ \A phase \in {"query", "persist", "save", "sample"} :
                 [fetch[f] EXCEPT !.phase = phase] \in FetchType
           /\ \A response \in Answers :
                 [fetch[f] EXCEPT !.phase = "persist", !.response = response] \in FetchType
           /\ \A base \in Status :
                 [fetch[f] EXCEPT !.phase = "save", !.base = base] \in FetchType
           /\ [phase |-> "sample", response |-> None, base |-> None] \in FetchType
<1>1. fetch \in [Fetches -> FetchType]
  BY DEF IInv, Types, TypeOK, FetchType
<1>2. fetch[f] \in FetchType
  BY <1>1
<1> QED
  BY <1>1, <1>2 DEF FetchType

LEMMA EndedIsFetch ==
    ASSUME IInv, NEW f \in Fetches
    PROVE  /\ Ended(f) \in [Fetches -> FetchType]
           /\ Ended(f)[f].phase = "done"
           /\ \A g \in Fetches : g # f => Ended(f)[g] = fetch[g]
  BY DEF Ended, FetchType, IInv, Types, TypeOK

\* Steps that leave the checks and what holds them alone.
LEMMA ChecksKept ==
    ASSUME IInv, Types', UNCHANGED <<inflight, fetched, fetch, clearing, prunes>>
    PROVE  IInv'
  BY DEF IInv, NotStarted, InflightIsRunning, RunningIsHeld, ClearingPruned, Running

\* A check that goes on is as much in progress as before.
LEMMA CheckGoesOn ==
    ASSUME IInv, Types', NEW f \in Fetches, Running(f), Running(f)',
           \A g \in Fetches : g # f => fetch'[g] = fetch[g],
           UNCHANGED <<inflight, fetched, clearing, prunes>>
    PROVE  IInv'
<1>1. \A g \in Fetches : Running(g)' <=> Running(g)
  BY DEF Running
<1>2. f <= fetched
  BY DEF IInv, NotStarted, Running, Types, TypeOK, Fetches
<1>3. NotStarted'
  BY <1>2 DEF IInv, NotStarted, Fetches, Types, TypeOK
<1>4. InflightIsRunning' /\ RunningIsHeld' /\ ClearingPruned'
  BY <1>1 DEF IInv, Types, TypeOK, InflightIsRunning, RunningIsHeld, ClearingPruned
<1> QED
  BY <1>3, <1>4 DEF IInv

\* A check that ends takes the entry away.
LEMMA CheckEnds ==
    ASSUME IInv, Types', NEW f \in Fetches, Running(f), fetch' = Ended(f), inflight' = None,
           UNCHANGED <<fetched, clearing, prunes>>
    PROVE  IInv'
<1>1. \A g \in Fetches : fetch'[g] = IF g = f THEN [phase |-> "done", response |-> None, base |-> None]
                                    ELSE fetch[g]
  BY DEF Ended, IInv, Types, TypeOK
<1>2. f <= fetched
  BY DEF IInv, NotStarted, Running, Types, TypeOK, Fetches
<1>3. NotStarted'
  BY <1>1, <1>2 DEF IInv, NotStarted, Fetches, Types, TypeOK
<1>4. InflightIsRunning'
  BY DEF InflightIsRunning
<1>5. RunningIsHeld'
  <2> SUFFICES ASSUME prunes = 0, NEW g \in Fetches, Running(g)' PROVE FALSE
    BY DEF RunningIsHeld
  <2>1. g # f /\ Running(g)
    BY <1>1 DEF Running
  <2>2. inflight = f /\ inflight = g
    BY <2>1 DEF IInv, RunningIsHeld
  <2> QED
    BY <2>1, <2>2
<1>6. ClearingPruned'
  BY DEF IInv, ClearingPruned
<1> QED
  BY <1>3, <1>4, <1>5, <1>6 DEF IInv

LEMMA CallStep ==
    ASSUME IInv, NEW c \in Calls, Find(c) \/ Decide(c) PROVE IInv'
<1>1. CASE Find(c) \/ CacheHit(c) \/ FreshEnough(c) \/ Join(c)
  <2>1. UNCHANGED <<record, inflight, fetched, fetch, loopVars, event, pruneVars>>
    BY <1>1 DEF Find, CacheHit, FreshEnough, Join
  <2>2. cached' \in BOOLEAN
    BY <1>1, Zenon DEF Find, CacheHit, FreshEnough, Join, IInv, Types, TypeOK
  <2>3. call' \in [Calls -> CallType]
    BY <1>1 DEF Find, CacheHit, FreshEnough, Join, IInv, Types, TypeOK, CallType
  <2>4. Types'
    BY <2>1, <2>2, <2>3 DEF IInv, Types, TypeOK, HasRead, CallType, loopVars, pruneVars
  <2> QED
    BY <2>1, <2>4, ChecksKept DEF pruneVars
<1>2. CASE StartFetch(c)
  <2> DEFINE g == fetched + 1
  <2>1. /\ inflight = None
        /\ g \in Fetches /\ fetched' = g /\ inflight' = g
        /\ fetch' = [fetch EXCEPT ![g].phase = "query"]
        /\ call' = [call EXCEPT ![c] = [phase |-> "waiting", fetch |-> g]]
        /\ UNCHANGED <<record, cached, loopVars, event, pruneVars>>
    BY <1>2 DEF StartFetch, MustFetch, IInv, Types, TypeOK, Fetches
  <2> HIDE DEF g
  <2>2. fetch' \in [Fetches -> FetchType]
    BY <2>1, FetchChanged DEF FetchType
  <2>3. call' \in [Calls -> CallType]
    BY <2>1 DEF IInv, Types, TypeOK, CallType
  <2>4. \A f \in Fetches : fetch'[f].phase = IF f = g THEN "query" ELSE fetch[f].phase
    BY <2>1 DEF IInv, Types, TypeOK
  <2>5. HasRead'
    BY <2>1, <2>4 DEF IInv, Types, TypeOK, HasRead, loopVars
  <2>6. fetched' \in 0 .. MAX_FETCHES
    BY <2>1 DEF Fetches
  <2>7. Types'
    BY <2>1, <2>2, <2>3, <2>5, <2>6 DEF IInv, Types, TypeOK, FetchType, CallType, loopVars, pruneVars
  <2>8. NotStarted'
    BY <2>1, <2>4 DEF IInv, NotStarted, g, Fetches, Types, TypeOK
  <2>9. InflightIsRunning'
    BY <2>1, <2>4 DEF InflightIsRunning, Running
  <2>10. RunningIsHeld'
    <3> SUFFICES ASSUME prunes = 0, NEW f \in Fetches, Running(f)' PROVE f = g
      BY <2>1 DEF RunningIsHeld, pruneVars
    <3>1. f # g => Running(f)
      BY <2>4 DEF Running
    <3>2. Running(f) => f = None
      BY <2>1 DEF IInv, RunningIsHeld
    <3>3. f # None
      BY DEF Fetches
    <3> QED
      BY <3>1, <3>2, <3>3
  <2>11. ClearingPruned'
    BY <2>1 DEF IInv, ClearingPruned, pruneVars
  <2> QED
    BY <2>7, <2>8, <2>9, <2>10, <2>11 DEF IInv
<1> QED
  BY <1>1, <1>2 DEF Decide

LEMMA CheckStep ==
    ASSUME IInv, NEW f \in Fetches, FetchStep(f) PROVE IInv'
<1>1. ASSUME NEW response \in Answers, FetchAnswers(f, response) PROVE IInv'
  <2>1. /\ fetch' = [fetch EXCEPT ![f].phase = "persist", ![f].response = response]
        /\ fetch[f].phase = "query"
        /\ UNCHANGED <<record, cached, inflight, fetched, call, loopVars, event, pruneVars>>
    BY <1>1 DEF FetchAnswers
  <2>2. /\ fetch' \in [Fetches -> FetchType]
        /\ fetch'[f].phase = "persist" /\ fetch'[f].response # None
    <3>1. fetch' = [fetch EXCEPT ![f] = [fetch[f] EXCEPT !.phase = "persist", !.response = response]]
      BY <2>1
    <3>2. fetch'[f] = [fetch[f] EXCEPT !.phase = "persist", !.response = response]
      BY <3>1, FetchChanged
    <3>3. fetch[f] \in FetchType
      BY FetchChanged
    <3>4. fetch'[f].phase = "persist" /\ fetch'[f].response = response
      BY <3>2, <3>3 DEF FetchType
    <3>5. response # None
      BY <1>1, LiveAssumption, Zenon
    <3> QED
      BY <3>1, <3>4, <3>5, FetchChanged
  <2>3. \A g \in Fetches : g # f => fetch'[g] = fetch[g]
    BY <2>1 DEF IInv, Types, TypeOK
  <2>4. Types'
    BY <2>1, <2>2, <2>3 DEF IInv, Types, TypeOK, HasRead, FetchType, loopVars, pruneVars
  <2> QED
    BY <2>1, <2>2, <2>3, <2>4, CheckGoesOn DEF Running, pruneVars
<1>2. CASE FetchReads(f)
  <2>1. /\ fetch' = IF record = None
                    THEN [fetch EXCEPT ![f] = [phase |-> "sample", response |-> None, base |-> None]]
                    ELSE [fetch EXCEPT ![f].phase = "save", ![f].base = record]
        /\ fetch[f].phase = "persist"
        /\ UNCHANGED <<record, cached, inflight, fetched, call, loopVars, event, pruneVars>>
    BY <1>2 DEF FetchReads
  <2>2. /\ fetch' \in [Fetches -> FetchType]
        /\ fetch'[f].phase \in {"sample", "save"}
        /\ fetch'[f].phase = "save" => fetch'[f].base # None /\ fetch'[f].response # None
    <3> DEFINE saving == [fetch[f] EXCEPT !.phase = "save", !.base = record]
               over == [phase |-> "sample", response |-> None, base |-> None]
    <3>1. fetch[f] \in FetchType /\ fetch[f].response # None
      BY <2>1, FetchChanged DEF IInv, Types, HasRead
    <3>2. CASE record = None
      <4>1. fetch' = [fetch EXCEPT ![f] = over]
        BY <2>1, <3>2
      <4>2. over \in FetchType /\ over.phase = "sample"
        BY FetchChanged
      <4> HIDE DEF over
      <4> QED
        BY <4>1, <4>2, FetchChanged
    <3>3. CASE record # None
      <4>1. fetch' = [fetch EXCEPT ![f] = saving]
        BY <2>1, <3>3
      <4>2. record \in Status
        BY <3>3 DEF IInv, Types, TypeOK
      <4>3. /\ saving \in FetchType /\ saving.phase = "save"
            /\ saving.base # None /\ saving.response # None
        BY <3>1, <3>3, <4>2, FetchChanged DEF FetchType
      <4> HIDE DEF saving
      <4> QED
        BY <4>1, <4>3, FetchChanged
    <3> QED
      BY <3>2, <3>3
  <2>3. \A g \in Fetches : g # f => fetch'[g] = fetch[g]
    BY <2>1 DEF IInv, Types, TypeOK
  <2>4. Types'
    BY <2>1, <2>2, <2>3 DEF IInv, Types, TypeOK, HasRead, FetchType, loopVars, pruneVars
  <2> QED
    BY <2>1, <2>2, <2>3, <2>4, CheckGoesOn DEF Running, pruneVars
<1>3. CASE FetchSaves(f)
  <2>1. /\ fetch' = [fetch EXCEPT ![f] = [phase |-> "sample", response |-> None, base |-> None]]
        /\ fetch[f].phase = "save"
        /\ record' = Patched(fetch[f].base, fetch[f].response)
        /\ UNCHANGED <<cached, inflight, fetched, call, loopVars, event, pruneVars>>
    BY <1>3 DEF FetchSaves
  <2>2. fetch' \in [Fetches -> FetchType] /\ fetch'[f].phase = "sample"
    BY <2>1 DEF IInv, Types, TypeOK, FetchType
  <2>3. \A g \in Fetches : g # f => fetch'[g] = fetch[g]
    BY <2>1 DEF IInv, Types, TypeOK
  <2>4. record' \in Status
    BY <2>1, PatchedIsStatus DEF IInv, Types, TypeOK, HasRead, Answers
  <2>5. Types'
    BY <2>1, <2>2, <2>3, <2>4 DEF IInv, Types, TypeOK, HasRead, FetchType, loopVars, pruneVars
  <2> QED
    BY <2>1, <2>2, <2>3, <2>5, CheckGoesOn DEF Running, pruneVars
<1>4. CASE FetchEnds(f)
  <2>1. /\ fetch' = Ended(f) /\ fetch[f].phase = "sample"
        /\ call' = Settled(f, "answered") /\ cached' = TRUE /\ inflight' = None
        /\ UNCHANGED <<record, fetched, loopVars, event, pruneVars>>
    BY <1>4 DEF FetchEnds
  <2>2. Types'
    <3>1. fetch' \in [Fetches -> FetchType]
      BY <2>1, EndedIsFetch
    <3>2. call' \in [Calls -> CallType]
      BY <2>1, SettledIsCall
    <3>3. HasRead'
      BY <2>1, EndedIsFetch DEF IInv, Types, HasRead, loopVars
    <3>4. cached' \in BOOLEAN
      BY <2>1, Zenon DEF IInv, Types, TypeOK
    <3>5. inflight' \in Fetches \cup {None}
      BY <2>1
    <3> QED
      BY <2>1, <3>1, <3>2, <3>3, <3>4, <3>5
      DEF IInv, Types, TypeOK, FetchType, CallType, loopVars, pruneVars
  <2> QED
    BY <2>1, <2>2, CheckEnds DEF Running, pruneVars
<1>5. CASE FetchFails(f)
  <2>1. /\ fetch' = Ended(f) /\ Running(f)
        /\ call' = Settled(f, "failed") /\ inflight' = None
        /\ UNCHANGED <<record, cached, fetched, loopVars, event, pruneVars>>
    BY <1>5 DEF FetchFails, AfterFailure
  <2>2. Types'
    <3>1. fetch' \in [Fetches -> FetchType]
      BY <2>1, EndedIsFetch
    <3>2. call' \in [Calls -> CallType]
      BY <2>1, SettledIsCall
    <3>3. HasRead'
      BY <2>1, EndedIsFetch DEF IInv, Types, HasRead, loopVars
    <3>4. cached' \in BOOLEAN
      BY <2>1, Zenon DEF IInv, Types, TypeOK
    <3>5. inflight' \in Fetches \cup {None}
      BY <2>1
    <3> QED
      BY <2>1, <3>1, <3>2, <3>3, <3>4, <3>5
      DEF IInv, Types, TypeOK, FetchType, CallType, loopVars, pruneVars
  <2> QED
    BY <2>1, <2>2, CheckEnds DEF pruneVars
<1> QED
  BY <1>1, <1>2, <1>3, <1>4, <1>5 DEF FetchStep

\* The player list loop and the connector leave the checks alone.
LEMMA WriterStep ==
    ASSUME IInv,
           \/ RefreshStarts \/ RefreshReads \/ RefreshSaves
           \/ \E players \in Players : RefreshAnswers(players)
           \/ \E e \in Events : \/ \E players \in {"none", "some"} : EventFinds(e, players)
                               \/ EventReads(e)
                               \/ EventSaves(e)
    PROVE  IInv'
<1>1. CASE RefreshStarts \/ RefreshReads \/ \E players \in Players : RefreshAnswers(players)
  <2>1. UNCHANGED <<record, cached, inflight, checkVars, event, pruneVars>>
    BY <1>1 DEF RefreshStarts, RefreshReads, RefreshAnswers
  <2>2. /\ refresh' \in [phase : {"idle", "query", "persist", "save"},
                          players : {"none", "some"}, base : Status \cup {None}]
        /\ refreshes' \in 0 .. MAX_REFRESHES
        /\ refresh'.phase = "save" => refresh'.base # None
    <3>1. CASE RefreshStarts
      BY <3>1 DEF RefreshStarts, IInv, Types, TypeOK, HasRead
    <3>2. CASE RefreshReads
      BY <3>2 DEF RefreshReads, IInv, Types, TypeOK, HasRead
    <3>3. ASSUME NEW players \in Players, RefreshAnswers(players)
          PROVE  /\ refresh' \in [phase : {"idle", "query", "persist", "save"},
                                  players : {"none", "some"}, base : Status \cup {None}]
                 /\ refreshes' \in 0 .. MAX_REFRESHES
                 /\ refresh'.phase = "save" => refresh'.base # None
      BY <3>3 DEF RefreshAnswers, Players, IInv, Types, TypeOK, HasRead
    <3> QED
      BY <1>1, <3>1, <3>2, <3>3
  <2>3. Types'
    BY <2>1, <2>2 DEF IInv, Types, TypeOK, HasRead, checkVars, pruneVars
  <2> QED
    BY <2>1, <2>3, ChecksKept DEF checkVars, pruneVars
<1>2. CASE RefreshSaves
  <2>1. /\ record' = Patched(refresh.base, [players |-> refresh.players])
        /\ refresh' = [phase |-> "idle", players |-> "none", base |-> None]
        /\ refresh.phase = "save"
        /\ UNCHANGED <<cached, inflight, checkVars, refreshes, event, pruneVars>>
    BY <1>2 DEF RefreshSaves
  <2>2. record' \in Status
    BY <2>1, PlayersPatchedIsStatus DEF IInv, Types, TypeOK, HasRead
  <2>3. Types'
    BY <2>1, <2>2 DEF IInv, Types, TypeOK, HasRead, checkVars, pruneVars
  <2> QED
    BY <2>1, <2>3, ChecksKept DEF checkVars, pruneVars
<1>3. ASSUME NEW e \in Events,
             EventReads(e) \/ \E players \in {"none", "some"} : EventFinds(e, players)
      PROVE  IInv'
  <2>1. UNCHANGED <<record, cached, inflight, checkVars, loopVars, pruneVars>>
    BY <1>3 DEF EventReads, EventFinds
  <2>2. event' \in [Events -> EventType]
    BY <1>3 DEF EventReads, EventFinds, EventType, IInv, Types, TypeOK
  <2>3. Types'
    BY <2>1, <2>2 DEF IInv, Types, TypeOK, HasRead, EventType, checkVars, loopVars, pruneVars
  <2> QED
    BY <2>1, <2>3, ChecksKept DEF checkVars, pruneVars
<1>4. ASSUME NEW e \in Events, EventSaves(e) PROVE IInv'
  <2>1. /\ record' = IF event[e].base = None THEN record
                     ELSE Patched(event[e].base, [status |-> "online", players |-> event[e].players])
        /\ cached' = TRUE
        /\ event' = [event EXCEPT ![e] = [phase |-> "done", players |-> "none", base |-> None]]
        /\ UNCHANGED <<inflight, checkVars, loopVars, pruneVars>>
    BY <1>4 DEF EventSaves
  <2>2. event' \in [Events -> EventType]
    BY <2>1 DEF EventType, IInv, Types, TypeOK
  <2>3. record' \in Status \cup {None}
    <3>1. CASE event[e].base = None
      BY <2>1, <3>1 DEF IInv, Types, TypeOK
    <3>2. CASE event[e].base # None
      <4> DEFINE online == [status |-> "online", players |-> event[e].players]
      <4>1. online \in [status : {"online", "offline"}, players : Players]
        BY DEF IInv, Types, TypeOK, Players
      <4>2. event[e].base \in Status
        BY <3>2 DEF IInv, Types, TypeOK
      <4>3. record' = Patched(event[e].base, online)
        BY <2>1, <3>2
      <4> HIDE DEF online
      <4> QED
        BY <4>1, <4>2, <4>3, PatchedIsStatus
    <3> QED
      BY <3>1, <3>2
  <2>4. Types'
    BY <2>1, <2>2, <2>3 DEF IInv, Types, TypeOK, HasRead, EventType, checkVars, loopVars, pruneVars
  <2> QED
    BY <2>1, <2>4, ChecksKept DEF checkVars, pruneVars
<1> QED
  BY <1>1, <1>2, <1>3, <1>4

LEMMA CatalogStep ==
    ASSUME IInv, CacheExpires \/ Prune \/ ClearEntry \/ Reappear PROVE IInv'
<1>1. CASE CacheExpires \/ Reappear
  <2>1. UNCHANGED <<inflight, checkVars, loopVars, event, pruneVars>>
    BY <1>1 DEF CacheExpires, Reappear
  <2>2. record' \in Status \cup {None} /\ cached' \in BOOLEAN
    <3>1. record' \in Status \cup {None}
      BY <1>1 DEF CacheExpires, Reappear, Status, IInv, Types, TypeOK
    <3>2. cached' \in BOOLEAN
      BY <1>1, Zenon DEF CacheExpires, Reappear, IInv, Types, TypeOK
    <3> QED
      BY <3>1, <3>2
  <2>3. Types'
    BY <2>1, <2>2 DEF IInv, Types, TypeOK, HasRead, checkVars, loopVars, pruneVars
  <2> QED
    BY <2>1, <2>3, ChecksKept DEF checkVars, pruneVars
<1>2. CASE Prune
  <2>1. /\ prunes' = prunes + 1 /\ prunes' \in 0 .. MAX_PRUNES /\ prunes' > 0
        /\ record' = None /\ clearing' = TRUE
        /\ UNCHANGED <<cached, inflight, checkVars, loopVars, event>>
    BY <1>2 DEF Prune, IInv, Types, TypeOK
  <2>2. Types'
    BY <2>1 DEF IInv, Types, TypeOK, HasRead, checkVars, loopVars
  <2> QED
    BY <2>1, <2>2 DEF IInv, NotStarted, InflightIsRunning, RunningIsHeld, ClearingPruned, Running, checkVars
<1>3. CASE ClearEntry
  <2>1. /\ clearing = TRUE /\ clearing' = FALSE /\ cached' = FALSE /\ inflight' = None
        /\ UNCHANGED <<record, checkVars, loopVars, event, prunes>>
    BY <1>3 DEF ClearEntry, IInv, Types, TypeOK
  <2>2. Types'
    BY <2>1 DEF IInv, Types, TypeOK, HasRead, checkVars, loopVars
  <2>3. prunes # 0
    BY <2>1 DEF IInv, ClearingPruned, Types, TypeOK
  <2> QED
    BY <2>1, <2>2, <2>3 DEF IInv, NotStarted, InflightIsRunning, RunningIsHeld, ClearingPruned, Running, checkVars
<1> QED
  BY <1>1, <1>2, <1>3

LEMMA NextIInv == IInv /\ [Next]_vars => IInv'
<1> SUFFICES ASSUME IInv, [Next]_vars PROVE IInv'
  OBVIOUS
<1>1. CASE Next
  BY <1>1, CallStep, CheckStep, WriterStep, CatalogStep DEF Next
<1>2. CASE UNCHANGED vars
  <2>1. UNCHANGED <<record, cached, inflight, checkVars, loopVars, event, pruneVars>>
    BY <1>2 DEF vars
  <2>2. Types'
    BY <2>1 DEF IInv, Types, TypeOK, HasRead, checkVars, loopVars, pruneVars
  <2> QED
    BY <2>1, <2>2, ChecksKept DEF checkVars, pruneVars
<1> QED
  BY <1>1, <1>2

\* The state of the live status keeps its types, for any number of calls,
\* checks, events and prunes.
THEOREM TypeCorrect == Spec => []TypeOK
<1>1. IInv => TypeOK
  BY DEF IInv, Types
<1> QED
  BY <1>1, InitIInv, NextIInv, PTL DEF Spec

\* The check that inflight holds is one that runs: the entry goes with the
\* check, also when it fails or a prune came between (lines 356-379).
THEOREM HeldCheckRuns == Spec => []InflightIsRunning
<1>1. IInv => InflightIsRunning
  BY DEF IInv
<1> QED
  BY <1>1, InitIInv, NextIInv, PTL DEF Spec

\* Concurrent calls share one check of the game server as long as no prune
\* forgets it (lines 356-379 and 390-394).
THEOREM ChecksCoalesce == Spec => []OneFetchUntilPruned
<1>1. IInv => OneFetchUntilPruned
  <2> SUFFICES ASSUME IInv, prunes = 0 PROVE Cardinality({f \in Fetches : Running(f)}) <= 1
    BY DEF OneFetchUntilPruned
  <2> DEFINE running == {f \in Fetches : Running(f)}
  <2>1. running \subseteq {inflight}
    BY DEF IInv, RunningIsHeld
  <2>2. IsFiniteSet({inflight}) /\ Cardinality({inflight}) = 1
    BY FS_Singleton
  <2>3. Cardinality(running) <= Cardinality({inflight})
    BY <2>1, <2>2, FS_Subset
  <2> QED
    BY <2>2, <2>3
<1> QED
  BY <1>1, InitIInv, NextIInv, PTL DEF Spec
=============================================================================
