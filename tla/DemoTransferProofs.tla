-------------------------- MODULE DemoTransferProofs --------------------------
(***************************************************************************)
(* Theorems about DemoTransfer for every number of transfers and timers.   *)
(***************************************************************************)
EXTENDS DemoTransfer, TLAPS

(* Nothing is kept, drawn or running for a transfer that was never added. *)
Unstarted ==
    \A id \in Ids : id > started =>
        status[id] = "none" /\ shown[id] = "none" /\ ~hasState[id] /\ ~timer[id]

DemoInv == TypeOK /\ Unstarted /\ ActiveIsTicking /\ TimerHasState

LEMMA InitInv == Init => DemoInv
BY DemoAssumption
DEF Init, DemoInv, TypeOK, Unstarted, ActiveIsTicking, TimerHasState, Ids, Statuses

-----------------------------------------------------------------------------
(* Steps *)

(* A transfer that is added gets the first timer of its number. *)
LEMMA AddTransferStep ==
    ASSUME DemoInv, AddTransfer
    PROVE  /\ started + 1 \in Ids
           /\ started' = started + 1
           /\ status' = [status EXCEPT ![started + 1] = "active"]
           /\ hasState' = [hasState EXCEPT ![started + 1] = TRUE]
           /\ timer' = [timer EXCEPT ![started + 1] = TRUE]
           /\ UNCHANGED <<progress, stray, shown>>
<1>1. started \in 0..MaxTransfers /\ started < MaxTransfers
  BY DEF DemoInv, TypeOK, AddTransfer
<1>2. started + 1 \in Ids /\ started + 1 > started
  BY <1>1, DemoAssumption DEF Ids
<1>3. ~timer[started + 1]
  BY <1>2 DEF DemoInv, Unstarted
<1> QED BY <1>2, <1>3 DEF AddTransfer, StartTimer, DemoInv, TypeOK

LEMMA AddTransferInv ==
    ASSUME DemoInv, AddTransfer, listens' \in 0..MaxListens
    PROVE  DemoInv'
<1> USE AddTransferStep DEF DemoInv
<1>1. TypeOK'
  <2>1. started' \in 0..MaxTransfers
    BY DemoAssumption DEF Ids
  <2> QED BY <2>1 DEF TypeOK, Statuses
<1>2. \A id \in Ids : id > started' => id > started /\ id # started + 1
  BY DEF TypeOK, Ids
<1>3. Unstarted'
  BY <1>2 DEF Unstarted, TypeOK
<1>4. ActiveIsTicking' /\ TimerHasState'
  BY DEF ActiveIsTicking, TimerHasState, TypeOK
<1> QED BY <1>1, <1>3, <1>4

LEMMA TickIdleInv ==
    ASSUME DemoInv, NEW id \in Ids, TickIdle(id)
    PROVE  DemoInv'
<1> USE DEF DemoInv, TickIdle
<1>1. TypeOK'
  <2>1. stray[id] > 0 => stray[id] - 1 \in 0..MaxStray + 1
    BY DemoAssumption DEF TypeOK
  <2>2. stray' \in [Ids -> 0..MaxStray + 1] /\ timer' \in [Ids -> BOOLEAN]
    BY <2>1 DEF TypeOK
  <2> QED BY <2>2 DEF TypeOK
<1>2. Unstarted' /\ ActiveIsTicking' /\ TimerHasState'
  BY DEF TypeOK, Unstarted, ActiveIsTicking, TimerHasState
<1> QED BY <1>1, <1>2

LEMMA TickMovesInv ==
    ASSUME DemoInv, NEW id \in Ids, NEW chunk \in 1..2, TickMoves(id, chunk)
    PROVE  DemoInv'
<1> USE DEF DemoInv, TickMoves
<1>1. TypeOK'
  BY DemoAssumption DEF TypeOK
<1>2. Unstarted' /\ ActiveIsTicking' /\ TimerHasState'
  BY DEF Unstarted, ActiveIsTicking, TimerHasState
<1> QED BY <1>1, <1>2

LEMMA TickCompletesInv ==
    ASSUME DemoInv, NEW id \in Ids, NEW chunk \in 1..2, TickCompletes(id, chunk)
    PROVE  DemoInv'
<1> USE DEF DemoInv, TickCompletes
<1>1. Running(id) - 1 \in 0..MaxStray + 1
  BY DemoAssumption DEF TypeOK, Running
<1>2. TypeOK'
  BY <1>1, DemoAssumption DEF TypeOK, Statuses
<1>3. Unstarted' /\ ActiveIsTicking' /\ TimerHasState'
  BY DEF TypeOK, Unstarted, ActiveIsTicking, TimerHasState
<1> QED BY <1>2, <1>3

LEMMA CancelInv ==
    ASSUME DemoInv, NEW id \in Ids, Cancel(id)
    PROVE  DemoInv'
<1> USE DEF DemoInv, Cancel, Offered
<1>1. TypeOK'
  BY DEF TypeOK, Statuses
<1>2. Unstarted' /\ ActiveIsTicking' /\ TimerHasState'
  BY DEF TypeOK, Unstarted, ActiveIsTicking, TimerHasState
<1> QED BY <1>1, <1>2

LEMMA PauseInv ==
    ASSUME DemoInv, NEW id \in Ids, Pause(id)
    PROVE  DemoInv'
<1> USE DEF DemoInv, Pause
<1>1. TypeOK'
  BY DEF TypeOK, Statuses
<1>2. Unstarted' /\ ActiveIsTicking' /\ TimerHasState'
  BY DEF TypeOK, Unstarted, ActiveIsTicking, TimerHasState
<1> QED BY <1>1, <1>2

LEMMA ResumeInv ==
    ASSUME DemoInv, NEW id \in Ids, Resume(id)
    PROVE  DemoInv'
<1> USE DEF DemoInv, Resume, StartTimer
<1>1. TypeOK'
  <2>1. timer[id] => stray[id] + 1 \in 0..MaxStray + 1
    BY DemoAssumption DEF TypeOK
  <2>2. stray' \in [Ids -> 0..MaxStray + 1] /\ timer' \in [Ids -> BOOLEAN]
    BY <2>1 DEF TypeOK
  <2> QED BY <2>2 DEF TypeOK, Statuses
<1>2. Unstarted' /\ ActiveIsTicking' /\ TimerHasState'
  BY DEF TypeOK, Unstarted, ActiveIsTicking, TimerHasState
<1> QED BY <1>1, <1>2

LEMMA NextInv == DemoInv /\ [Next]_vars => DemoInv'
<1> SUFFICES ASSUME DemoInv, [Next]_vars PROVE DemoInv'
  OBVIOUS
<1>1. CASE UNCHANGED vars
  BY <1>1 DEF vars, DemoInv, TypeOK, Unstarted, ActiveIsTicking, TimerHasState
<1>2. CASE SendFile
  BY <1>2, AddTransferInv DEF SendFile, DemoInv, TypeOK
<1>3. CASE Incoming
  BY <1>3, AddTransferInv, DemoAssumption DEF Incoming, DemoInv, TypeOK
<1>4. CASE Listen
  BY <1>4, DemoAssumption
  DEF Listen, DemoInv, TypeOK, Unstarted, ActiveIsTicking, TimerHasState
<1>5. CASE Draw
  BY <1>5 DEF Draw, DemoInv, TypeOK, Unstarted, ActiveIsTicking, TimerHasState
<1>6. ASSUME NEW id \in Ids, Tick(id) PROVE DemoInv'
  BY <1>6, TickIdleInv, TickMovesInv, TickCompletesInv DEF Tick
<1> QED BY <1>1, <1>2, <1>3, <1>4, <1>5, <1>6, CancelInv, PauseInv, ResumeInv DEF Next

-----------------------------------------------------------------------------
(* Theorems *)

(* The inductive invariant. *)
THEOREM DemoCorrect == Spec => []DemoInv
<1> QED BY InitInv, NextInv, PTL DEF Spec

(* Every variable has its type: no tick takes a transfer past its end, and a
   completing tick takes away a timer that is running. *)
THEOREM DemoTypeCorrect == Spec => []TypeOK
<1>1. DemoInv => TypeOK
  BY DEF DemoInv
<1> QED BY <1>1, DemoCorrect, PTL

(* Whatever was tapped on cards that no longer showed the truth, an active
   transfer has a timer that moves it. *)
THEOREM ActiveAlwaysTicking == Spec => []ActiveIsTicking
<1>1. DemoInv => ActiveIsTicking
  BY DEF DemoInv
<1> QED BY <1>1, DemoCorrect, PTL

(* _activeTimers never names a timer of a transfer that is over. *)
THEOREM TimerAlwaysHasState == Spec => []TimerHasState
<1>1. DemoInv => TimerHasState
  BY DEF DemoInv
<1> QED BY <1>1, DemoCorrect, PTL

(* No timer, referred to or forgotten, moves or completes a transfer that was
   cancelled or has completed. *)
THEOREM OverAlwaysFrozen == Spec => OverIsFrozen
<1>1. ASSUME DemoInv, [Next]_vars, NEW id \in Ids,
             status[id] # "none", ~hasState[id]
      PROVE  /\ progress'[id] = progress[id]
             /\ status'[id] = "completed" => status[id] = "completed"
  <2> USE <1>1 DEF DemoInv, TypeOK
  <2>1. ASSUME AddTransfer
        PROVE  progress' = progress /\ status'[id] = status[id]
    <3>1. id # started + 1
      BY <2>1, AddTransferStep DEF Unstarted, Ids
    <3> QED BY <2>1, <3>1, AddTransferStep
  <2>2. CASE SendFile \/ Incoming
    BY <2>1, <2>2 DEF SendFile, Incoming
  <2>3. CASE Listen \/ Draw \/ UNCHANGED vars
    BY <2>3 DEF Listen, Draw, vars
  <2>4. ASSUME NEW i \in Ids, Tick(i)
        PROVE  progress'[id] = progress[id] /\ status'[id] = status[id]
    BY <2>4 DEF Tick, TickIdle, TickMoves, TickCompletes
  <2>5. ASSUME NEW i \in Ids, Cancel(i) \/ Pause(i) \/ Resume(i)
        PROVE  /\ progress'[id] = progress[id]
               /\ status'[id] = "completed" => status[id] = "completed"
    BY <2>5 DEF Cancel, Pause, Resume
  <2> QED BY <2>2, <2>3, <2>4, <2>5 DEF Next
<1>2. DemoInv /\ [Next]_vars =>
         [\A id \in Ids : status[id] # "none" /\ ~hasState[id] =>
             /\ progress'[id] = progress[id]
             /\ status'[id] = "completed" => status[id] = "completed"]_vars
  BY <1>1
<1> QED BY <1>2, DemoCorrect, PTL DEF Spec, OverIsFrozen
=============================================================================
