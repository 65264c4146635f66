--------------------------- MODULE RefreshScheduler ---------------------------
(***************************************************************************)
(* The loops of service/manager-refresh-scheduler.ts.  Each call of        *)
(* startLoop has three locals, stopped, running and timer; the tasks are   *)
(* promises, some of which may never settle: the query task fetches from   *)
(* game servers without a timeout (master-server-list-service.ts:104-114). *)
(*                                                                         *)
(* A timeout that is armed fires once.  timer names the one armed last,    *)
(* which with equal intervals is the last to fire: clearTimeout(timer)     *)
(* takes one away if any is left.                                          *)
(***************************************************************************)
EXTENDS Naturals

CONSTANTS
    Loops,      \* calls of startLoop
    Bounded     \* those whose task settles: each of its requests has a timeout

VARIABLES
    begun,      \* startManagerRefreshScheduler was called
    stopped,    \* loop -> stopped
    running,    \* loop -> running
    armed       \* loop -> number of timeouts that did not fire yet

vars == <<begun, stopped, running, armed>>

Init ==
    /\ begun = FALSE
    /\ stopped = [l \in Loops |-> FALSE]
    /\ running = [l \in Loops |-> FALSE]
    /\ armed = [l \in Loops |-> 0]

\* startManagerRefreshScheduler: every loop runs its task at once.
Start ==
    /\ ~begun
    /\ begun' = TRUE
    /\ running' = [l \in Loops |-> TRUE]
    /\ UNCHANGED <<stopped, armed>>

\* run() goes on to its task.
MayRun(l) == ~stopped[l] /\ ~running[l]

\* A timeout fires: run(), which arms another one instead when the task of
\* the previous run is still active.
Fire(l) ==
    /\ armed[l] > 0
    /\ running' = [running EXCEPT ![l] = @ \/ MayRun(l)]
    /\ armed' = [armed EXCEPT ![l] = IF ~stopped[l] /\ running[l] THEN @ ELSE @ - 1]
    /\ UNCHANGED <<begun, stopped>>

\* Mutant: schedule() does not look whether the loop is stopped.
MutScheduled(l) == armed[l] + 1
\* schedule()
Scheduled(l) == IF stopped[l] THEN armed[l] ELSE armed[l] + 1

\* The finally block, after the task has ended or failed.
Settle(l) ==
    /\ running[l]
    /\ running' = [running EXCEPT ![l] = FALSE]
    /\ armed' = [armed EXCEPT ![l] = Scheduled(l)]
    /\ UNCHANGED <<begun, stopped>>

\* stop() of the scheduler, from SIGINT, and again from SIGTERM.
Stop ==
    /\ begun
    /\ stopped' = [l \in Loops |-> TRUE]
    /\ armed' = [l \in Loops |-> IF armed[l] > 0 THEN armed[l] - 1 ELSE 0]
    /\ UNCHANGED <<begun, running>>

Next ==
    \/ Start
    \/ Stop
    \/ \E l \in Loops : Fire(l) \/ Settle(l)

\* The event loop fires what is armed, and bounded tasks settle.
Fairness ==
    /\ WF_vars(Start)
    /\ \A l \in Loops : WF_vars(Fire(l))
    /\ \A l \in Bounded : WF_vars(Settle(l))

Spec == Init /\ [][Next]_vars /\ Fairness

-----------------------------------------------------------------------------
TypeOK ==
    /\ begun \in BOOLEAN
    /\ stopped \in [Loops -> BOOLEAN]
    /\ running \in [Loops -> BOOLEAN]
    /\ armed \in [Loops -> Nat]

\* The refinement mapping: what a loop is in from outside.
PhaseOf(l) ==
    CASE ~begun -> "new"
      [] begun /\ running[l] -> IF stopped[l] THEN "lastRun" ELSE "running"
      [] begun /\ ~running[l] -> IF stopped[l] /\ armed[l] = 0 THEN "over" ELSE "waiting"

Promise == INSTANCE RefreshLoops WITH phase <- [l \in Loops |-> PhaseOf(l)]
LoopsKeepPromise == Promise!Spec
=============================================================================
