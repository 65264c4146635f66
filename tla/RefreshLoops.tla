------------------------------ MODULE RefreshLoops ------------------------------
(***************************************************************************)
(* What the refresh loops of the scheduler promise: the task of each runs  *)
(* again and again, once at a time, as long as its runs end; after stop()  *)
(* a task that runs may end, and none starts.                              *)
(***************************************************************************)

CONSTANTS
    Loops,
    Bounded     \* loops whose task always ends

VARIABLE phase      \* loop -> what it is in

Phases == {"new", "running", "waiting", "lastRun", "over"}

Init == phase = [l \in Loops |-> "new"]

\* All loops begin together, each with a run of its task.
BeginAll ==
    /\ \A l \in Loops : phase[l] = "new"
    /\ phase' = [l \in Loops |-> "running"]

\* The interval is over.
Run(l) ==
    /\ phase[l] = "waiting"
    /\ phase' = [phase EXCEPT ![l] = "running"]

\* The task has ended or failed.
Settle(l) ==
    \/ phase[l] = "running" /\ phase' = [phase EXCEPT ![l] = "waiting"]
    \/ phase[l] = "lastRun" /\ phase' = [phase EXCEPT ![l] = "over"]

AfterStop(p) ==
    CASE p = "running" -> "lastRun" [] p = "waiting" -> "over" [] OTHER -> p

StopAll ==
    /\ \A l \in Loops : phase[l] # "new"
    /\ phase' = [l \in Loops |-> AfterStop(phase[l])]

Next ==
    \/ BeginAll
    \/ StopAll
    \/ \E l \in Loops : Run(l) \/ Settle(l)

\* Each of these is left in the end: loops begin and wait for a while, and
\* those with bounded tasks run for a while.
Goes ==
    /\ \A l \in Loops, p \in {"new", "waiting"} : []<>(phase[l] # p)
    /\ \A l \in Bounded, p \in {"running", "lastRun"} : []<>(phase[l] # p)

Safe == Init /\ [][Next]_phase
Spec == Safe /\ Goes
=============================================================================
