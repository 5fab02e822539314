----------------------------- MODULE DemoTransfer -----------------------------
(***************************************************************************)
(* The transfers of demo mode (MockTransferService in mock/transfer.dart): *)
(* one periodic timer moves each transfer, pausing cancels the timer and   *)
(* resuming starts one, and _activeTimers remembers the last one started.  *)
(*                                                                         *)
(* Everything runs on the main isolate: an action is one timer tick, one   *)
(* tap, or one redraw.  A card offers what the status it was drawn with    *)
(* offers, so a tap may come after the status has changed.                 *)
(***************************************************************************)
EXTENDS Naturals, FiniteSets

CONSTANTS MaxTransfers, \* bound: transfers the service starts
          MaxListens,   \* bound: startListeningForFiles calls under way
          MaxStray,     \* bound: timers of a transfer nothing refers to
          Whole         \* progress 1.0, counted in the smallest chunk of a tick

ASSUME DemoAssumption ==
    /\ MaxTransfers \in Nat \ {0}
    /\ MaxListens \in Nat
    /\ MaxStray \in Nat
    /\ Whole \in Nat \ {0}

Ids == 1..MaxTransfers

VARIABLES started,   \* _nextId
          listens,   \* timers of startListeningForFiles that have not fired
          status,    \* Transfer.status in _transfers
          progress,  \* Transfer.progress
          hasState,  \* keys of _transferStates
          timer,     \* keys of _activeTimers
          stray,     \* running timers of a transfer besides that one
          shown      \* the status the card on screen was drawn with

vars == <<started, listens, status, progress, hasState, timer, stray, shown>>

Statuses == {"none", "active", "paused", "completed", "failed"}

Init ==
    /\ started = 0
    /\ listens = 0
    /\ status = [id \in Ids |-> "none"]
    /\ progress = [id \in Ids |-> 0]
    /\ hasState = [id \in Ids |-> FALSE]
    /\ timer = [id \in Ids |-> FALSE]
    /\ stray = [id \in Ids |-> 0]
    /\ shown = [id \in Ids |-> "none"]

(* _startTransferTimer: no timer without a state; the entry of a timer that
   is still running is overwritten, and nothing can cancel that one again. *)
StartTimer(id, state) ==
    IF state
    THEN /\ timer' = [timer EXCEPT ![id] = TRUE]
         /\ stray' = [stray EXCEPT ![id] = IF timer[id] THEN @ + 1 ELSE @]
    ELSE UNCHANGED <<timer, stray>>

AddTransfer_NoTimer ==
    /\ started < MaxTransfers
    /\ started' = started + 1
    /\ status' = [status EXCEPT ![started + 1] = "active"]
    /\ hasState' = [hasState EXCEPT ![started + 1] = TRUE]
    /\ UNCHANGED <<progress, timer, stray, shown>>

AddTransfer ==
    /\ started < MaxTransfers
    /\ started' = started + 1
    /\ status' = [status EXCEPT ![started + 1] = "active"]
    /\ hasState' = [hasState EXCEPT ![started + 1] = TRUE]
    /\ StartTimer(started + 1, TRUE)
    /\ UNCHANGED <<progress, shown>>

SendFile == AddTransfer /\ UNCHANGED listens

(* startListeningForFiles: three seconds later a transfer comes in. *)
Listen ==
    /\ listens < MaxListens
    /\ listens' = listens + 1
    /\ UNCHANGED <<started, status, progress, hasState, timer, stray, shown>>

Incoming ==
    /\ listens > 0
    /\ listens' = listens - 1
    /\ AddTransfer

-----------------------------------------------------------------------------
(* A tick of a timer of a transfer, the one in _activeTimers or a stray one *)

Running(id) == stray[id] + (IF timer[id] THEN 1 ELSE 0)

(* The state is gone: the timer cancels itself. *)
TickIdle_KeepsRunning(id) ==
    /\ ~hasState[id]
    /\ Running(id) > 0
    /\ UNCHANGED vars

TickIdle(id) ==
    /\ ~hasState[id]
    /\ Running(id) > 0
    /\ \/ stray[id] > 0 /\ stray' = [stray EXCEPT ![id] = @ - 1] /\ UNCHANGED timer
       \/ timer[id] /\ timer' = [timer EXCEPT ![id] = FALSE] /\ UNCHANGED stray
    /\ UNCHANGED <<started, listens, status, progress, hasState, shown>>

TickMoves_Unclamped(id, chunk) ==
    /\ hasState[id]
    /\ Running(id) > 0
    /\ progress' = [progress EXCEPT ![id] = @ + chunk]
    /\ UNCHANGED <<started, listens, status, hasState, timer, stray, shown>>

TickMoves_NoState(id, chunk) ==
    /\ Running(id) > 0
    /\ progress[id] + chunk < Whole
    /\ progress' = [progress EXCEPT ![id] = @ + chunk]
    /\ UNCHANGED <<started, listens, status, hasState, timer, stray, shown>>

TickMoves(id, chunk) ==
    /\ hasState[id]
    /\ Running(id) > 0
    /\ progress[id] + chunk < Whole
    /\ progress' = [progress EXCEPT ![id] = @ + chunk]
    /\ UNCHANGED <<started, listens, status, hasState, timer, stray, shown>>

TickCompletes_KeepsEntry(id, chunk) ==
    /\ hasState[id]
    /\ Running(id) > 0
    /\ progress[id] + chunk >= Whole
    /\ progress' = [progress EXCEPT ![id] = Whole]
    /\ status' = [status EXCEPT ![id] = "completed"]
    /\ hasState' = [hasState EXCEPT ![id] = FALSE]
    /\ UNCHANGED <<started, listens, timer, stray, shown>>

(* The timer that completes the transfer stops; the others lose the entry and
   the state. *)
TickCompletes(id, chunk) ==
    /\ hasState[id]
    /\ Running(id) > 0
    /\ progress[id] + chunk >= Whole
    /\ progress' = [progress EXCEPT ![id] = Whole]
    /\ status' = [status EXCEPT ![id] = "completed"]
    /\ hasState' = [hasState EXCEPT ![id] = FALSE]
    /\ timer' = [timer EXCEPT ![id] = FALSE]
    /\ stray' = [stray EXCEPT ![id] = Running(id) - 1]
    /\ UNCHANGED <<started, listens, shown>>

Tick(id) ==
    \/ TickIdle(id)
    \/ \E chunk \in 1..2 : TickMoves(id, chunk) \/ TickCompletes(id, chunk)

-----------------------------------------------------------------------------
(* Taps on a card *)

Offered(id) == shown[id] \in {"active", "paused"}

Cancel(id) ==
    /\ Offered(id)
    /\ timer' = [timer EXCEPT ![id] = FALSE]
    /\ status' = [status EXCEPT ![id] = "failed"]
    /\ hasState' = [hasState EXCEPT ![id] = FALSE]
    /\ UNCHANGED <<started, listens, progress, stray, shown>>

Pause(id) ==
    /\ shown[id] = "active"
    /\ timer' = [timer EXCEPT ![id] = FALSE]
    /\ status' = [status EXCEPT ![id] = "paused"]
    /\ UNCHANGED <<started, listens, progress, hasState, stray, shown>>

Resume_StatusOnly(id) ==
    /\ shown[id] = "paused"
    /\ status' = [status EXCEPT ![id] = "active"]
    /\ UNCHANGED <<started, listens, progress, hasState, timer, stray, shown>>

Resume(id) ==
    /\ shown[id] = "paused"
    /\ timer[id] => stray[id] < MaxStray
    /\ status' = [status EXCEPT ![id] = "active"]
    /\ StartTimer(id, hasState[id])
    /\ UNCHANGED <<started, listens, progress, hasState, shown>>

(* The list reaches the screen. *)
Draw ==
    /\ shown # status
    /\ shown' = status
    /\ UNCHANGED <<started, listens, status, progress, hasState, timer, stray>>

Next ==
    \/ SendFile \/ Listen \/ Incoming \/ Draw
    \/ \E id \in Ids : Tick(id) \/ Cancel(id) \/ Pause(id) \/ Resume(id)

Spec == Init /\ [][Next]_vars

(* Timers fire; nobody need tap or redraw. *)
FairSpec == Spec /\ WF_vars(Incoming) /\ \A id \in Ids : WF_vars(Tick(id))

-----------------------------------------------------------------------------
(* Properties *)

TypeOK ==
    /\ started \in 0..MaxTransfers
    /\ listens \in 0..MaxListens
    /\ status \in [Ids -> Statuses]
    /\ progress \in [Ids -> 0..Whole]
    /\ hasState \in [Ids -> BOOLEAN]
    /\ timer \in [Ids -> BOOLEAN]
    /\ stray \in [Ids -> 0..MaxStray + 1]
    /\ shown \in [Ids -> Statuses]

(* A transfer the list calls active and that is not over has a timer: no
   order of pauses, resumes and stale taps leaves it standing. *)
ActiveIsTicking ==
    \A id \in Ids : status[id] = "active" /\ hasState[id] => timer[id]

(* _activeTimers names no timer of a transfer that is over, so that cancel
   and pause never act on one. *)
TimerHasState == \A id \in Ids : timer[id] => hasState[id]

(* Once a transfer is cancelled or complete nothing moves or completes it,
   however many timers of it were running: they find no state and end. *)
OverIsFrozen ==
    [][\A id \in Ids : status[id] # "none" /\ ~hasState[id] =>
           /\ progress'[id] = progress[id]
           /\ status'[id] = "completed" => status[id] = "completed"]_vars

(* An active transfer is completed, unless it is paused or cancelled. *)
ActiveSettles ==
    \A id \in Ids : (status[id] = "active" /\ hasState[id]) ~> (status[id] # "active")

(* Timers that nothing refers to any more do not outlive the transfer. *)
StraysEnd ==
    \A id \in Ids : (status[id] # "none" /\ ~hasState[id]) ~> (stray[id] = 0)
=============================================================================
