-------------------------- MODULE TransferService --------------------------
(***************************************************************************)
(* The Dart side of a transfer (FfiTransferService in transfer_ffi.dart)   *)
(* over the native engine, the list the user sees, and the provider that   *)
(* builds a new service when the user leaves mock mode.                    *)
(*                                                                         *)
(* The main isolate runs one handler at a time: an action is the code      *)
(* between two awaits, one timer tick, or one tap.  The engine is          *)
(* TransferHandle, which TransferEngine is proved to implement; its        *)
(* threads run between any two handlers.  A service object that has been   *)
(* replaced keeps its map and its timers, and the library and its map of   *)
(* contexts outlive them all.                                              *)
(***************************************************************************)
EXTENDS Naturals, FiniteSets

CONSTANTS MaxServices, \* bound: service objects built in one process
          MaxNumber,   \* bound: transfers one service object starts
          MaxStarts,   \* bound: transfers all of them start
          MaxBlocks    \* bound: the most blocks a file has

ASSUME ServiceAssumption ==
    /\ MaxServices \in Nat \ {0}
    /\ MaxNumber \in Nat \ {0}
    /\ MaxStarts \in Nat \ {0}
    /\ MaxBlocks \in Nat \ {0}

Services == 1..MaxServices
Numbers  == 1..MaxNumber
Keys     == Services \X Numbers   \* one entry of a service's _transfers

VARIABLES
    service,   \* the service object transferServiceProvider holds now
    started,   \* _nextTransferId - 1 of each service object
    direction, \* "tx" or "rx", "none" while the entry does not exist
    blocks,    \* blocks of the file of a tx entry
    status,    \* Transfer.status in _transfers
    progress,  \* Transfer.progress, in blocks
    phase,     \* where the entry's asynchronous work is
    shown,     \* the status of the entry on screen
    handles, live, size, counted, ended   \* the engine: see TransferHandle

dart == <<service, started, direction, blocks, status, progress, phase, shown>>
native == <<handles, live, size, counted, ended>>
vars == <<dart, native>>

Engine == INSTANCE TransferHandle WITH Ids <- Numbers

Statuses == {"none", "queued", "active", "completed", "failed"}
Phases   == {"none", "resolving", "opening", "polling", "done"}
Number(k) == k[2]

Init ==
    /\ service = 1
    /\ started = [s \in Services |-> 0]
    /\ direction = [k \in Keys |-> "none"]
    /\ blocks = [k \in Keys |-> 0]
    /\ status = [k \in Keys |-> "none"]
    /\ progress = [k \in Keys |-> 0]
    /\ phase = [k \in Keys |-> "none"]
    /\ shown = [k \in Keys |-> "none"]
    /\ Engine!Init

-----------------------------------------------------------------------------
(* Taps and screens *)

(* Mock mode and back: the provider builds a new object, whose numbers start
   again at 1; dispose of the old one is never called. *)
NewService ==
    /\ service < MaxServices
    /\ service' = service + 1
    /\ UNCHANGED <<started, direction, blocks, status, progress, phase, shown,
                   native>>

NextKey == <<service, started[service] + 1>>

AddEntry(dir) ==
    /\ started[service] < MaxNumber
    /\ Cardinality({k \in Keys : direction[k] # "none"}) < MaxStarts
    /\ started' = [started EXCEPT ![service] = @ + 1]
    /\ direction' = [direction EXCEPT ![NextKey] = dir]

(* sendFile: the entry is queued and _startSend runs to its first await. *)
SendFile(n) ==
    /\ AddEntry("tx")
    /\ blocks' = [blocks EXCEPT ![NextKey] = n]
    /\ status' = [status EXCEPT ![NextKey] = "queued"]
    /\ phase' = [phase EXCEPT ![NextKey] = "resolving"]
    /\ UNCHANGED <<service, progress, shown, native>>

(* startListeningForFiles, which every opened ConnectionScreen calls: the
   launch is made at once and the entry ends up failed, when the engine knows
   the number or cannot create a thread, or active. *)
ListenAccepted ==
    /\ AddEntry("rx")
    /\ Engine!Launch(started[service] + 1, 0)
    /\ status' = [status EXCEPT ![NextKey] = "active"]
    /\ phase' = [phase EXCEPT ![NextKey] = "polling"]
    /\ UNCHANGED <<service, blocks, progress, shown>>

ListenRefused ==
    /\ AddEntry("rx")
    /\ status' = [status EXCEPT ![NextKey] = "failed"]
    /\ phase' = [phase EXCEPT ![NextKey] = "done"]
    /\ UNCHANGED <<service, blocks, progress, shown, native>>

CancelOffered_Queued(k) == k[1] = service /\ shown[k] \in {"queued", "active"}

(* A card has a cancel button while it shows an active transfer. *)
CancelOffered(k) == k[1] = service /\ shown[k] = "active"

Cancel_ListOnly(k) ==
    /\ CancelOffered(k)
    /\ status' = [status EXCEPT ![k] = "failed"]
    /\ UNCHANGED <<service, started, direction, blocks, progress, phase, shown,
                   native>>

(* cancelTransfer: only a tx identifier reaches the engine, and the entry is
   marked failed whatever its status has become. *)
Cancel(k) ==
    /\ CancelOffered(k)
    /\ status' = [status EXCEPT ![k] = "failed"]
    /\ IF direction[k] = "tx"
       THEN Engine!Stop({Number(k)} \cap handles)
       ELSE UNCHANGED native
    /\ UNCHANGED <<service, started, direction, blocks, progress, phase, shown>>

(* The list the current service broadcasts reaches the screen some time after
   it was sent. *)
Deliver(k) ==
    /\ k[1] = service
    /\ shown[k] # status[k]
    /\ shown' = [shown EXCEPT ![k] = status[k]]
    /\ UNCHANGED <<service, started, direction, blocks, status, progress, phase,
                   native>>

-----------------------------------------------------------------------------
(* _startSend after each await *)

FailSend_Uncaught(k) ==
    /\ phase' = [phase EXCEPT ![k] = "done"]
    /\ UNCHANGED <<service, started, direction, blocks, status, progress, shown,
                   native>>

(* An error anywhere in _startSend is caught in sendFile, which marks the
   entry failed. *)
FailSend(k) ==
    /\ status' = [status EXCEPT ![k] = "failed"]
    /\ phase' = [phase EXCEPT ![k] = "done"]
    /\ UNCHANGED <<service, started, direction, blocks, progress, shown, native>>

Resolved(k) ==
    /\ phase[k] = "resolving"
    /\ phase' = [phase EXCEPT ![k] = "opening"]
    /\ UNCHANGED <<service, started, direction, blocks, status, progress, shown,
                   native>>

ResolveFails(k) == phase[k] = "resolving" /\ FailSend(k)

OpenFails(k) == phase[k] = "opening" /\ FailSend(k)

(* The descriptor is open: the engine is called and the entry becomes active,
   and its timer is started, without another await. *)
LaunchAccepted(k) ==
    /\ phase[k] = "opening"
    /\ Engine!Launch(Number(k), blocks[k])
    /\ status' = [status EXCEPT ![k] = "active"]
    /\ phase' = [phase EXCEPT ![k] = "polling"]
    /\ UNCHANGED <<service, started, direction, blocks, progress, shown>>

LaunchRefused_Unchecked(k) ==
    /\ phase[k] = "opening"
    /\ Number(k) \in handles
    /\ status' = [status EXCEPT ![k] = "active"]
    /\ phase' = [phase EXCEPT ![k] = "polling"]
    /\ UNCHANGED <<service, started, direction, blocks, progress, shown, native>>

(* The engine knows the number or cannot create a thread. *)
LaunchRefused(k) == phase[k] = "opening" /\ FailSend(k)

-----------------------------------------------------------------------------
(* _pollProgress: a tick of the entry's timer, every 100 ms *)

PollStops(k) ==
    /\ phase[k] = "polling"
    /\ status[k] # "active"
    /\ phase' = [phase EXCEPT ![k] = "done"]
    /\ UNCHANGED <<service, started, direction, blocks, status, progress, shown,
                   native>>

AllCounted_BareTest(n) == counted[n] = size[n]
AllCounted_Strict(n) == counted[n] > size[n]

(* progress >= 1.0; a receive has no blocks and its progress stays at 0. *)
AllCounted(n) == size[n] > 0 /\ counted[n] = size[n]

Poll_CountsNext(k) ==
    /\ phase[k] = "polling"
    /\ status[k] = "active"
    /\ progress' = [progress EXCEPT ![k] = counted[Number(k)] + 1]
    /\ UNCHANGED <<service, started, direction, blocks, status, phase, shown,
                   native>>

(* An identifier the engine does not know is taken for a finished transfer. *)
Poll(k) ==
    LET known == Number(k) \in handles
    IN  /\ phase[k] = "polling"
        /\ status[k] = "active"
        /\ progress' = [progress EXCEPT ![k] =
                            IF known THEN counted[Number(k)] ELSE blocks[k]]
        /\ IF known /\ ~AllCounted(Number(k))
           THEN UNCHANGED <<status, phase>>
           ELSE /\ status' = [status EXCEPT ![k] = "completed"]
                /\ phase' = [phase EXCEPT ![k] = "done"]
        /\ UNCHANGED <<service, started, direction, blocks, shown, native>>

-----------------------------------------------------------------------------

EngineStep(n) ==
    /\ Engine!Count(n) \/ Engine!End(n)
    /\ UNCHANGED dart

Reply(k) ==
    \/ Resolved(k) \/ ResolveFails(k) \/ OpenFails(k)
    \/ LaunchAccepted(k) \/ LaunchRefused(k)

Tick(k) == Poll(k) \/ PollStops(k)

Next ==
    \/ NewService \/ ListenAccepted \/ ListenRefused
    \/ \E n \in 1..MaxBlocks : SendFile(n)
    \/ \E k \in Keys : Cancel(k) \/ Deliver(k) \/ Reply(k) \/ Tick(k)
    \/ \E n \in Numbers : EngineStep(n)

Spec == Init /\ [][Next]_vars

(* The platform answers every method call and timers fire; the user need never
   tap, and nothing below waits for the screen or for an engine thread. *)
FairSpec ==
    /\ Spec
    /\ \A k \in Keys : WF_vars(Reply(k)) /\ WF_vars(Tick(k))

-----------------------------------------------------------------------------
(* Properties *)

TypeOK ==
    /\ service \in Services
    /\ started \in [Services -> 0..MaxNumber]
    /\ direction \in [Keys -> {"none", "tx", "rx"}]
    /\ blocks \in [Keys -> 0..MaxBlocks]
    /\ status \in [Keys -> Statuses]
    /\ progress \in [Keys -> 0..MaxBlocks]
    /\ phase \in [Keys -> Phases]
    /\ shown \in [Keys -> Statuses]
    /\ Engine!TypeOK

Launched(k) == status[k] \in {"active", "completed"} \/ phase[k] = "polling"

(* A timer never polls a context of another transfer: of all the services'
   entries with the same number at most one was ever launched, and the engine
   knows it and its file. *)
PollsOwnTransfer ==
    \A k \in Keys : Launched(k) =>
        /\ Number(k) \in handles
        /\ size[Number(k)] = blocks[k]
        /\ \A m \in Keys : Number(m) = Number(k) /\ Launched(m) => m = k

(* The list never runs ahead of the engine: an entry's progress is at most
   what the engine has counted, and a completed one has every block counted. *)
ListNotAhead ==
    \A k \in Keys :
        /\ progress[k] <= counted[Number(k)]
        /\ status[k] = "completed" =>
              blocks[k] > 0 /\ counted[Number(k)] = blocks[k]

(* An entry the user has cancelled, or whose launch failed, stays failed,
   whatever awaits and ticks were still under way. *)
FailedIsFinal ==
    [][\A k \in Keys : status[k] = "failed" => status'[k] = "failed"]_vars

(* A send that was launched and is marked failed has had its thread told to
   stop: the cancel cannot be lost between the list and the engine. *)
FailedSendIsStopped ==
    \A k \in Keys :
        status[k] = "failed" /\ direction[k] = "tx" /\ phase[k] = "polling"
            => ~live[Number(k)]

(* A queued entry is resolved, opened and launched, or fails. *)
QueuedSettles ==
    \A k \in Keys : (status[k] = "queued") ~> (status[k] \in Statuses \ {"queued"})

(* A send whose blocks have all been counted leaves the active section, even
   when its service has been replaced meanwhile. *)
CountedSettles ==
    \A k \in Keys :
        (status[k] = "active" /\ blocks[k] > 0 /\ counted[Number(k)] = blocks[k])
            ~> (status[k] # "active")

-----------------------------------------------------------------------------
(* What the documentation says and the code does not do *)

(* transfer_service.dart: cancelTransfer cancels an active transfer. *)
CompletedIsFinal ==
    [][\A k \in Keys : status[k] = "completed" => status'[k] = "completed"]_vars

(* transfer_ffi.dart: the poll sees a finished transfer end. *)
EndedSettles ==
    \A k \in Keys :
        (status[k] = "active" /\ ended[Number(k)]) ~> (status[k] # "active")
=============================================================================
