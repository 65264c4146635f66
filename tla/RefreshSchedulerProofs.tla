------------------------ MODULE RefreshSchedulerProofs ------------------------
(***************************************************************************)
(* Proof that the loops of the scheduler implement RefreshLoops, but for   *)
(* its liveness: for any number of loops, whatever their tasks do.         *)
(***************************************************************************)
EXTENDS RefreshScheduler, TLAPS

Safe == Init /\ [][Next]_vars

\* A loop has a run, or a timeout, or is stopped, and never two of these:
\* the timeout that stop() clears is the only one.
OneAtATime ==
    \A l \in Loops :
        /\ armed[l] = (IF begun /\ ~running[l] /\ ~stopped[l] THEN 1 ELSE 0)
        /\ ~begun => ~running[l] /\ ~stopped[l]

IInv == TypeOK /\ OneAtATime

LEMMA InitIInv == Init => IInv
<1> SUFFICES ASSUME Init PROVE IInv
  OBVIOUS
<1>1. TypeOK
  BY DEF Init, TypeOK
<1>2. ASSUME NEW l \in Loops
      PROVE  armed[l] = 0 /\ running[l] = FALSE /\ stopped[l] = FALSE
  BY DEF Init
<1>3. ~begun
  BY DEF Init
<1>4. OneAtATime
  BY <1>2, <1>3 DEF OneAtATime
<1> QED
  BY <1>1, <1>4 DEF IInv

LEMMA NextIInv == IInv /\ [Next]_vars => IInv'
<1> SUFFICES ASSUME IInv, [Next]_vars PROVE IInv'
  OBVIOUS
<1> USE DEF IInv, TypeOK, OneAtATime
<1>1. CASE Start
  BY <1>1 DEF Start
<1>2. CASE Stop
  BY <1>2 DEF Stop
<1>3. ASSUME NEW l \in Loops, Fire(l) PROVE IInv'
  BY <1>3 DEF Fire, MayRun
<1>4. ASSUME NEW l \in Loops, Settle(l) PROVE IInv'
  BY <1>4 DEF Settle, Scheduled
<1>5. CASE UNCHANGED vars
  BY <1>5 DEF vars
<1> QED
  BY <1>1, <1>2, <1>3, <1>4, <1>5 DEF Next

\* A loop never has two timeouts, nor one beside a run of its task: the one
\* that stop() clears is all there is (startLoop, lines 60-95).
THEOREM OneTimeout == Safe => [](TypeOK /\ OneAtATime)
<1>1. Init => IInv
  BY InitIInv
<1>2. IInv /\ [Next]_vars => IInv'
  BY NextIInv
<1> QED
  BY <1>1, <1>2, PTL DEF Safe, IInv

-----------------------------------------------------------------------------
(* The refinement.                                                          *)

Phase == [l \in Loops |-> PhaseOf(l)]

LEMMA InitMaps == Init => Promise!Init
  BY DEF Init, PhaseOf, Promise!Init

LEMMA StartMaps ==
    ASSUME IInv, Start PROVE Promise!BeginAll
<1>1. \A l \in Loops : PhaseOf(l) = "new"
  BY DEF Start, PhaseOf
<1>2. \A l \in Loops : PhaseOf(l)' = "running"
  BY DEF IInv, TypeOK, OneAtATime, Start, PhaseOf
<1> QED
  BY <1>1, <1>2 DEF Promise!BeginAll

LEMMA StopMaps ==
    ASSUME IInv, Stop PROVE Promise!StopAll
<1>1. \A l \in Loops : PhaseOf(l) # "new"
  BY DEF Stop, PhaseOf
<1>2. ASSUME NEW l \in Loops PROVE PhaseOf(l)' = Promise!AfterStop(PhaseOf(l))
  <2>1. CASE running[l]
    BY <2>1 DEF IInv, TypeOK, OneAtATime, Stop, PhaseOf, Promise!AfterStop
  <2>2. CASE ~running[l]
    BY <2>2 DEF IInv, TypeOK, OneAtATime, Stop, PhaseOf, Promise!AfterStop
  <2> QED
    BY <2>1, <2>2
<1> QED
  BY <1>1, <1>2 DEF Promise!StopAll

\* A timeout that fires starts a run: no loop has one when it is stopped or
\* its task is active.
LEMMA FireMaps ==
    ASSUME IInv, NEW l \in Loops, Fire(l) PROVE Promise!Run(l)
<1>1. begun /\ ~running[l] /\ ~stopped[l]
  BY DEF IInv, TypeOK, OneAtATime, Fire
<1>2. PhaseOf(l) = "waiting"
  BY <1>1 DEF PhaseOf
<1>3. PhaseOf(l)' = "running"
  BY <1>1 DEF IInv, TypeOK, Fire, MayRun, PhaseOf
<1>4. ASSUME NEW m \in Loops, m # l PROVE PhaseOf(m)' = PhaseOf(m)
  BY <1>4 DEF IInv, TypeOK, Fire, PhaseOf
<1> QED
  BY <1>2, <1>3, <1>4 DEF Promise!Run

LEMMA SettleMaps ==
    ASSUME IInv, NEW l \in Loops, Settle(l) PROVE Promise!Settle(l)
<1>1. begun
  BY DEF IInv, OneAtATime, Settle
<1>2. ASSUME NEW m \in Loops, m # l PROVE PhaseOf(m)' = PhaseOf(m)
  BY <1>2 DEF IInv, TypeOK, Settle, PhaseOf
<1>3. CASE stopped[l]
  <2>1. PhaseOf(l) = "lastRun"
    BY <1>1, <1>3 DEF Settle, PhaseOf
  <2>2. armed[l] = 0 /\ armed'[l] = 0 /\ ~running'[l] /\ stopped'[l] /\ begun'
    BY <1>1, <1>3 DEF IInv, TypeOK, OneAtATime, Settle, Scheduled
  <2>3. PhaseOf(l)' = "over"
    BY <2>2 DEF PhaseOf
  <2> QED
    BY <1>2, <2>1, <2>3 DEF Promise!Settle
<1>4. CASE ~stopped[l]
  <2>1. PhaseOf(l) = "running"
    BY <1>1, <1>4 DEF Settle, PhaseOf
  <2>2. ~running'[l] /\ ~stopped'[l] /\ begun'
    BY <1>1, <1>4 DEF IInv, TypeOK, OneAtATime, Settle
  <2>3. PhaseOf(l)' = "waiting"
    BY <2>2 DEF PhaseOf
  <2> QED
    BY <1>2, <2>1, <2>3 DEF Promise!Settle
<1> QED
  BY <1>3, <1>4

\* Every step of the scheduler is one that RefreshLoops allows, or changes
\* nothing it speaks of: startLoop implements it, its liveness apart.
THEOREM LoopsImplementPromise == Safe => Promise!Safe
<1>1. Init => Promise!Init
  BY InitMaps
<1>2. ASSUME IInv, [Next]_vars PROVE [Promise!Next]_Phase
  <2>1. CASE Start
    BY <2>1, StartMaps, <1>2 DEF Promise!Next
  <2>2. CASE Stop
    BY <2>2, StopMaps, <1>2 DEF Promise!Next
  <2>3. ASSUME NEW l \in Loops, Fire(l) PROVE Promise!Next
    BY <2>3, FireMaps, <1>2 DEF Promise!Next
  <2>4. ASSUME NEW l \in Loops, Settle(l) PROVE Promise!Next
    BY <2>4, SettleMaps, <1>2 DEF Promise!Next
  <2>5. CASE UNCHANGED vars
    BY <2>5 DEF vars, Phase, PhaseOf
  <2> QED
    BY <2>1, <2>2, <2>3, <2>4, <2>5, <1>2 DEF Next
<1>3. Safe => []IInv
  BY OneTimeout, PTL DEF IInv
<1> QED
  BY <1>1, <1>2, <1>3, PTL DEF Safe, Promise!Safe, Phase
=============================================================================
