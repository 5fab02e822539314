------------------------- MODULE TransferServiceProofs -------------------------
(***************************************************************************)
(* Theorems about TransferService for every number of services, transfers  *)
(* and blocks.                                                             *)
(***************************************************************************)
EXTENDS TransferService, TLAPS

(* What the parts of one entry say of each other: where the asynchronous work
   of an entry is decides the statuses it may have and the screen may show. *)
EntryInv(k) ==
    /\ direction[k] = "none" <=> Number(k) > started[k[1]]
    /\ k[1] > service => started[k[1]] = 0
    /\ direction[k] = "none" =>
          status[k] = "none" /\ phase[k] = "none" /\ shown[k] = "none"
    /\ direction[k] = "tx" <=> blocks[k] > 0
    /\ phase[k] = "none" => direction[k] = "none"
    /\ phase[k] \in {"resolving", "opening"} =>
          /\ direction[k] = "tx"
          /\ status[k] = "queued"
          /\ shown[k] \in {"none", "queued"}
    /\ phase[k] = "polling" => status[k] \in {"active", "failed"}
    /\ phase[k] = "done" => status[k] \in {"completed", "failed"}

ServiceInv ==
    /\ TypeOK
    /\ \A k \in Keys : EntryInv(k)
    /\ PollsOwnTransfer
    /\ ListNotAhead
    /\ FailedSendIsStopped

LEMMA KeyParts ==
    ASSUME NEW k \in Keys
    PROVE  /\ k[1] \in Services
           /\ Number(k) \in Numbers
           /\ k = <<k[1], Number(k)>>
BY DEF Keys, Number

LEMMA InitInv == Init => ServiceInv
<1> SUFFICES ASSUME Init PROVE ServiceInv
  OBVIOUS
<1> USE ServiceAssumption DEF Init, Engine!Init
<1>1. TypeOK
  BY DEF TypeOK, Engine!TypeOK, Services, Statuses, Phases
<1>2. \A k \in Keys : EntryInv(k)
  BY KeyParts DEF EntryInv, Numbers, Services
<1>3. PollsOwnTransfer /\ FailedSendIsStopped
  BY DEF PollsOwnTransfer, Launched, FailedSendIsStopped
<1>4. ListNotAhead
  BY KeyParts DEF ListNotAhead
<1> QED BY <1>1, <1>2, <1>3, <1>4 DEF ServiceInv

-----------------------------------------------------------------------------
(* Steps of the entries *)

(* The step leaves everything the invariant says of entry k alone, except
   that its service may have started another. *)
SameEntry(k) ==
    /\ direction'[k] = direction[k]
    /\ blocks'[k] = blocks[k]
    /\ status'[k] = status[k]
    /\ phase'[k] = phase[k]
    /\ shown'[k] = shown[k]

LEMMA SameEntryInv ==
    ASSUME NEW k \in Keys, EntryInv(k), SameEntry(k),
           started'[k[1]] = started[k[1]],
           service' \in Nat, service \in Nat, service' >= service
    PROVE  EntryInv(k)'
<1>1. k[1] \in Nat
  BY KeyParts DEF Services
<1> QED BY <1>1 DEF EntryInv, SameEntry, Number

(* The entry that a call adds: there was none with its key. *)
LEMMA NextKeyIsNew ==
    ASSUME ServiceInv, started[service] < MaxNumber
    PROVE  /\ NextKey \in Keys
           /\ NextKey[1] = service
           /\ Number(NextKey) = started[service] + 1
           /\ started[service] + 1 \in 1..MaxNumber
           /\ direction[NextKey] = "none"
           /\ status[NextKey] = "none"
           /\ phase[NextKey] = "none"
           /\ shown[NextKey] = "none"
<1>1. /\ service \in Services
      /\ started[service] \in 0..MaxNumber
  BY DEF ServiceInv, TypeOK
<1>2. started[service] + 1 \in 1..MaxNumber
  BY <1>1, ServiceAssumption
<1>3. NextKey \in Keys /\ NextKey[1] = service /\ Number(NextKey) = started[service] + 1
  BY <1>1, <1>2 DEF NextKey, Keys, Numbers, Number
<1>4. EntryInv(NextKey)
  BY <1>3 DEF ServiceInv
<1>5. direction[NextKey] = "none"
  BY <1>1, <1>3, <1>4 DEF EntryInv
<1> QED BY <1>2, <1>3, <1>4, <1>5 DEF EntryInv

(* A call that adds an entry leaves the others as they were. *)
LEMMA OtherEntries ==
    ASSUME ServiceInv, NEW dir, AddEntry(dir), UNCHANGED service,
           NEW k \in Keys, k # NextKey, SameEntry(k)
    PROVE  EntryInv(k)'
<1>1. started \in [Services -> 0..MaxNumber] /\ service \in Services
  BY DEF ServiceInv, TypeOK
<1>2. started' = [started EXCEPT ![service] = started[service] + 1]
  BY DEF AddEntry
<1>3. CASE k[1] # service
  BY <1>1, <1>2, <1>3, KeyParts, SameEntryInv DEF ServiceInv, Services
<1>4. CASE k[1] = service
  <2>1. Number(k) # started[service] + 1
    BY <1>4, KeyParts DEF NextKey
  <2>2. started'[service] = started[service] + 1
    BY <1>1, <1>2
  <2>3. Number(k) > started[service] <=> Number(k) > started[service] + 1
    BY <2>1, <1>1, KeyParts, ServiceAssumption DEF Numbers
  <2>4. EntryInv(k)
    BY DEF ServiceInv
  <2>5. service \in Nat
    BY <1>1 DEF Services
  <2> QED BY <1>4, <2>2, <2>3, <2>4, <2>5 DEF EntryInv, SameEntry, Number
<1> QED BY <1>3, <1>4

LEMMA NewServiceInv == ServiceInv /\ NewService => ServiceInv'
<1> SUFFICES ASSUME ServiceInv, NewService PROVE ServiceInv'
  OBVIOUS
<1> USE DEF ServiceInv, NewService, native
<1>1. TypeOK'
  BY ServiceAssumption DEF TypeOK, Engine!TypeOK, Services
<1>2. ASSUME NEW k \in Keys PROVE EntryInv(k)'
  <2>1. service \in Nat /\ service' = service + 1
    BY DEF TypeOK, Services
  <2>2. EntryInv(k) /\ SameEntry(k)
    BY DEF SameEntry
  <2> QED BY <2>1, <2>2, SameEntryInv
<1>3. (PollsOwnTransfer /\ ListNotAhead /\ FailedSendIsStopped)'
  BY DEF PollsOwnTransfer, Launched, ListNotAhead, FailedSendIsStopped
<1> QED BY <1>1, <1>2, <1>3

LEMMA SendFileInv ==
    ASSUME ServiceInv, NEW n \in 1..MaxBlocks, SendFile(n)
    PROVE  ServiceInv'
<1> USE DEF ServiceInv, SendFile, AddEntry, native
<1>0. NextKey \in Keys /\ Number(NextKey) = started[service] + 1 /\ NextKey[1] = service
      /\ started[service] + 1 \in 1..MaxNumber
      /\ status[NextKey] = "none" /\ phase[NextKey] = "none" /\ shown[NextKey] = "none"
  BY NextKeyIsNew
<1>1. TypeOK'
  BY <1>0, ServiceAssumption DEF TypeOK, Engine!TypeOK, Statuses, Phases
<1>2. \A k \in Keys \ {NextKey} : EntryInv(k)'
  BY OtherEntries DEF TypeOK, SameEntry
<1>3. ASSUME NEW k \in Keys, k = NextKey PROVE EntryInv(k)'
  <2>1. /\ direction'[k] = "tx" /\ blocks'[k] = n /\ status'[k] = "queued"
        /\ phase'[k] = "resolving" /\ shown'[k] = "none"
        /\ started'[service] = started[service] + 1
    BY <1>0, <1>3 DEF TypeOK
  <2> QED BY <1>0, <1>3, <2>1, ServiceAssumption DEF EntryInv, TypeOK, Services
<1>4. (PollsOwnTransfer /\ ListNotAhead /\ FailedSendIsStopped)'
  BY <1>0 DEF PollsOwnTransfer, Launched, ListNotAhead, FailedSendIsStopped, TypeOK
<1> QED BY <1>1, <1>2, <1>3, <1>4

LEMMA ListenRefusedInv == ServiceInv /\ ListenRefused => ServiceInv'
<1> SUFFICES ASSUME ServiceInv, ListenRefused PROVE ServiceInv'
  OBVIOUS
<1> USE DEF ServiceInv, ListenRefused, AddEntry, native
<1>0. NextKey \in Keys /\ Number(NextKey) = started[service] + 1 /\ NextKey[1] = service
      /\ started[service] + 1 \in 1..MaxNumber
      /\ direction[NextKey] = "none" /\ shown[NextKey] = "none"
      /\ status[NextKey] = "none" /\ phase[NextKey] = "none"
  BY NextKeyIsNew
<1>1. TypeOK'
  BY <1>0, ServiceAssumption DEF TypeOK, Engine!TypeOK, Statuses, Phases
<1>2. \A k \in Keys \ {NextKey} : EntryInv(k)'
  BY OtherEntries DEF TypeOK, SameEntry
<1>3. ASSUME NEW k \in Keys, k = NextKey PROVE EntryInv(k)'
  <2>1. /\ direction'[k] = "rx" /\ blocks'[k] = blocks[k] /\ status'[k] = "failed"
        /\ phase'[k] = "done" /\ started'[service] = started[service] + 1
    BY <1>0, <1>3 DEF TypeOK
  <2>2. EntryInv(k)
    OBVIOUS
  <2> QED BY <1>0, <1>3, <2>1, <2>2, ServiceAssumption DEF EntryInv, TypeOK, Services
<1>4. (PollsOwnTransfer /\ ListNotAhead /\ FailedSendIsStopped)'
  BY <1>0 DEF PollsOwnTransfer, Launched, ListNotAhead, FailedSendIsStopped, TypeOK
<1> QED BY <1>1, <1>2, <1>3, <1>4

(* What a launch of entry e with n blocks does to the list and the engine. *)
LaunchOf(e, n) ==
    /\ Engine!Launch(Number(e), n)
    /\ status' = [status EXCEPT ![e] = "active"]
    /\ phase' = [phase EXCEPT ![e] = "polling"]
    /\ blocks'[e] = n
    /\ \A k \in Keys : k # e => blocks'[k] = blocks[k] /\ direction'[k] = direction[k]
    /\ UNCHANGED progress

(* The engine accepts a number only once, so no other entry was launched with
   it; and a launch leaves what has been counted alone. *)
LEMMA LaunchKeepsOwnership ==
    ASSUME ServiceInv, NEW e \in Keys, NEW n \in 0..MaxBlocks, LaunchOf(e, n)
    PROVE  PollsOwnTransfer' /\ ListNotAhead' /\ FailedSendIsStopped'
<1> USE DEF ServiceInv, LaunchOf, Engine!Launch, TypeOK, Engine!TypeOK
<1>0. Number(e) \in Numbers /\ \A k \in Keys : Number(k) \in Numbers
  BY KeyParts
<1>1. \A k \in Keys : Launched(k) => Number(k) # Number(e)
  BY DEF PollsOwnTransfer
<1>2. \A k \in Keys : Launched(k)' <=> (k = e \/ Launched(k))
  BY DEF Launched
<1>3. PollsOwnTransfer'
  <2> SUFFICES ASSUME NEW k \in Keys, Launched(k)'
               PROVE  /\ Number(k) \in handles'
                      /\ size'[Number(k)] = blocks'[k]
                      /\ \A m \in Keys : Number(m) = Number(k) /\ Launched(m)' => m = k
    BY DEF PollsOwnTransfer, Number
  <2>1. CASE k = e
    BY <2>1, <1>0, <1>1, <1>2
  <2>2. CASE k # e
    <3>1. Launched(k) /\ Number(k) # Number(e)
      BY <2>2, <1>1, <1>2
    <3> QED BY <3>1, <2>2, <1>0, <1>2 DEF PollsOwnTransfer
  <2> QED BY <2>1, <2>2
<1>4. ListNotAhead'
  <2>1. UNCHANGED <<progress, counted>>
    OBVIOUS
  <2>2. \A k \in Keys : status'[k] = "completed" => k # e /\ status[k] = "completed"
    OBVIOUS
  <2> QED BY <2>1, <2>2 DEF ListNotAhead, Number
<1>5. FailedSendIsStopped'
  <2> SUFFICES ASSUME NEW k \in Keys, status'[k] = "failed", direction'[k] = "tx",
                      phase'[k] = "polling"
               PROVE  ~live'[Number(k)]
    BY DEF FailedSendIsStopped, Number
  <2>1. k # e /\ status[k] = "failed" /\ direction[k] = "tx" /\ phase[k] = "polling"
    OBVIOUS
  <2>2. Number(k) # Number(e)
    BY <1>1, <2>1 DEF Launched
  <2> QED BY <1>0, <2>1, <2>2 DEF FailedSendIsStopped
<1> QED BY <1>3, <1>4, <1>5

LEMMA ListenAcceptedInv == ServiceInv /\ ListenAccepted => ServiceInv'
<1> SUFFICES ASSUME ServiceInv, ListenAccepted PROVE ServiceInv'
  OBVIOUS
<1> USE DEF ServiceInv, ListenAccepted, AddEntry
<1>0. NextKey \in Keys /\ Number(NextKey) = started[service] + 1 /\ NextKey[1] = service
      /\ started[service] + 1 \in Numbers
      /\ direction[NextKey] = "none" /\ shown[NextKey] = "none"
      /\ status[NextKey] = "none" /\ phase[NextKey] = "none"
  BY NextKeyIsNew DEF Numbers
<1>1. TypeOK'
  <2>1. Engine!TypeOK'
    BY <1>0, ServiceAssumption DEF TypeOK, Engine!TypeOK, Engine!Launch
  <2> QED BY <1>0, <2>1 DEF TypeOK, Statuses, Phases, Numbers
<1>2. \A k \in Keys \ {NextKey} : EntryInv(k)'
  BY OtherEntries DEF TypeOK, SameEntry
<1>3. EntryInv(NextKey)
  BY <1>0
<1>4. ASSUME NEW k \in Keys, k = NextKey PROVE EntryInv(k)'
  <2>1. /\ direction'[k] = "rx" /\ blocks'[k] = blocks[k] /\ status'[k] = "active"
        /\ phase'[k] = "polling" /\ started'[service] = started[service] + 1
    BY <1>0, <1>4 DEF TypeOK
  <2> QED BY <1>0, <1>3, <1>4, <2>1, ServiceAssumption DEF EntryInv, TypeOK, Services
<1>5. blocks[NextKey] = 0
  BY <1>0, <1>3 DEF TypeOK, EntryInv
<1>6. LaunchOf(NextKey, 0)
  BY <1>0, <1>5 DEF LaunchOf, TypeOK
<1>7. 0 \in 0..MaxBlocks
  BY ServiceAssumption
<1> QED BY <1>0, <1>1, <1>2, <1>4, <1>6, <1>7, LaunchKeepsOwnership

(* A step of one entry that leaves keys, files, services and the numbers of
   transfers alone keeps the entry invariant of all others. *)
LEMMA OneEntryStep ==
    ASSUME ServiceInv, NEW e \in Keys, UNCHANGED <<service, started, direction, blocks>>,
           \A k \in Keys : k # e =>
               status'[k] = status[k] /\ phase'[k] = phase[k] /\ shown'[k] = shown[k],
           EntryInv(e)'
    PROVE  \A k \in Keys : EntryInv(k)'
<1> SUFFICES ASSUME NEW k \in Keys, k # e PROVE EntryInv(k)'
  OBVIOUS
<1>1. service \in Nat /\ EntryInv(k)
  BY DEF ServiceInv, TypeOK, Services
<1> QED BY <1>1, SameEntryInv DEF SameEntry

LEMMA CancelInv ==
    ASSUME ServiceInv, NEW e \in Keys, Cancel(e)
    PROVE  ServiceInv'
<1> USE DEF ServiceInv, Cancel, CancelOffered
<1>0. Number(e) \in Numbers /\ \A k \in Keys : Number(k) \in Numbers
  BY KeyParts
<1>1. TypeOK'
  BY DEF TypeOK, Engine!TypeOK, Engine!Stop, native, Statuses
<1>2. EntryInv(e)'
  BY DEF EntryInv, TypeOK, Phases
<1>3. \A k \in Keys : EntryInv(k)'
  BY <1>2, OneEntryStep DEF TypeOK
<1>4. UNCHANGED <<handles, size, counted>>
  BY DEF Engine!Stop, native
<1>5. PollsOwnTransfer' /\ ListNotAhead'
  BY <1>4 DEF PollsOwnTransfer, Launched, ListNotAhead, Number, TypeOK
<1>6. FailedSendIsStopped'
  <2> SUFFICES ASSUME NEW k \in Keys, status'[k] = "failed", direction'[k] = "tx",
                      phase'[k] = "polling"
               PROVE  ~live'[Number(k)]
    BY DEF FailedSendIsStopped, Number
  <2>1. CASE k # e
    BY <1>0, <2>1 DEF FailedSendIsStopped, Engine!Stop, native, TypeOK
  <2>2. CASE k = e
    BY <1>0, <2>2 DEF PollsOwnTransfer, Launched, Engine!Stop, native, TypeOK
  <2> QED BY <2>1, <2>2
<1> QED BY <1>1, <1>3, <1>5, <1>6

LEMMA DeliverInv ==
    ASSUME ServiceInv, NEW e \in Keys, Deliver(e)
    PROVE  ServiceInv'
<1> USE DEF ServiceInv, Deliver, native
<1>1. TypeOK'
  BY DEF TypeOK, Engine!TypeOK
<1>2. EntryInv(e)'
  BY DEF EntryInv, TypeOK
<1>3. \A k \in Keys : EntryInv(k)'
  BY <1>2, OneEntryStep DEF TypeOK
<1>4. PollsOwnTransfer' /\ ListNotAhead' /\ FailedSendIsStopped'
  BY DEF PollsOwnTransfer, Launched, ListNotAhead, FailedSendIsStopped
<1> QED BY <1>1, <1>3, <1>4

LEMMA ResolvedInv ==
    ASSUME ServiceInv, NEW e \in Keys, Resolved(e)
    PROVE  ServiceInv'
<1> USE DEF ServiceInv, Resolved, native
<1>1. TypeOK'
  BY DEF TypeOK, Engine!TypeOK, Phases
<1>2. EntryInv(e)'
  BY DEF EntryInv, TypeOK
<1>3. \A k \in Keys : EntryInv(k)'
  BY <1>2, OneEntryStep DEF TypeOK
<1>4. PollsOwnTransfer' /\ ListNotAhead' /\ FailedSendIsStopped'
  BY DEF PollsOwnTransfer, Launched, ListNotAhead, FailedSendIsStopped, TypeOK
<1> QED BY <1>1, <1>3, <1>4

(* Resolving, opening and launching all fail in the same way. *)
LEMMA FailSendInv ==
    ASSUME ServiceInv, NEW e \in Keys, FailSend(e),
           phase[e] \in {"resolving", "opening"}
    PROVE  ServiceInv'
<1> USE DEF ServiceInv, FailSend, native
<1>1. TypeOK'
  BY DEF TypeOK, Engine!TypeOK, Phases, Statuses
<1>2. EntryInv(e)'
  BY DEF EntryInv, TypeOK
<1>3. \A k \in Keys : EntryInv(k)'
  BY <1>2, OneEntryStep DEF TypeOK
<1>4. PollsOwnTransfer' /\ ListNotAhead' /\ FailedSendIsStopped'
  BY DEF PollsOwnTransfer, Launched, ListNotAhead, FailedSendIsStopped, TypeOK
<1> QED BY <1>1, <1>3, <1>4

LEMMA LaunchAcceptedInv ==
    ASSUME ServiceInv, NEW e \in Keys, LaunchAccepted(e)
    PROVE  ServiceInv'
<1> USE DEF ServiceInv, LaunchAccepted
<1>0. Number(e) \in Numbers
  BY KeyParts
<1>1. TypeOK'
  <2>1. Engine!TypeOK'
    BY <1>0 DEF TypeOK, Engine!TypeOK, Engine!Launch
  <2> QED BY <2>1 DEF TypeOK, Statuses, Phases
<1>2. EntryInv(e)'
  BY DEF EntryInv, TypeOK
<1>3. \A k \in Keys : EntryInv(k)'
  BY <1>2, OneEntryStep DEF TypeOK
<1>4. LaunchOf(e, blocks[e]) /\ blocks[e] \in 0..MaxBlocks
  BY DEF LaunchOf, TypeOK
<1> QED BY <1>1, <1>3, <1>4, LaunchKeepsOwnership

LEMMA PollStopsInv ==
    ASSUME ServiceInv, NEW e \in Keys, PollStops(e)
    PROVE  ServiceInv'
<1> USE DEF ServiceInv, PollStops, native
<1>1. TypeOK'
  BY DEF TypeOK, Engine!TypeOK, Phases
<1>2. EntryInv(e)'
  BY DEF EntryInv, TypeOK
<1>3. \A k \in Keys : EntryInv(k)'
  BY <1>2, OneEntryStep DEF TypeOK
<1>4. PollsOwnTransfer' /\ ListNotAhead' /\ FailedSendIsStopped'
  BY DEF PollsOwnTransfer, Launched, ListNotAhead, FailedSendIsStopped, TypeOK
<1> QED BY <1>1, <1>3, <1>4

LEMMA PollInv ==
    ASSUME ServiceInv, NEW e \in Keys, Poll(e)
    PROVE  ServiceInv'
<1> USE DEF ServiceInv, Poll, native
<1>0. Number(e) \in Numbers /\ Number(e) \in handles /\ size[Number(e)] = blocks[e]
  BY KeyParts DEF PollsOwnTransfer, Launched
<1>1. /\ progress' = [progress EXCEPT ![e] = counted[Number(e)]]
      /\ IF AllCounted(Number(e))
         THEN /\ status' = [status EXCEPT ![e] = "completed"]
              /\ phase' = [phase EXCEPT ![e] = "done"]
         ELSE UNCHANGED <<status, phase>>
      /\ UNCHANGED <<service, started, direction, blocks, shown, native>>
  BY <1>0
<1>2. TypeOK'
  BY <1>0, <1>1 DEF TypeOK, Engine!TypeOK, Phases, Statuses
<1>3. EntryInv(e)'
  BY <1>1 DEF EntryInv, TypeOK
<1>4. \A k \in Keys : EntryInv(k)'
  BY <1>1, <1>3, OneEntryStep DEF TypeOK
<1>5. PollsOwnTransfer' /\ FailedSendIsStopped'
  BY <1>1 DEF PollsOwnTransfer, Launched, FailedSendIsStopped, TypeOK
<1>6. ListNotAhead'
  BY <1>0, <1>1 DEF ListNotAhead, AllCounted, TypeOK, Engine!TypeOK, Number
<1> QED BY <1>2, <1>4, <1>5, <1>6

LEMMA EngineStepInv ==
    ASSUME ServiceInv, NEW n \in Numbers, EngineStep(n)
    PROVE  ServiceInv'
<1> USE DEF ServiceInv, EngineStep, dart
<1>1. TypeOK'
  <2>1. CASE Engine!Count(n)
    <3>1. counted[n] + 1 \in 0..MaxBlocks
      BY <2>1, ServiceAssumption DEF TypeOK, Engine!TypeOK, Engine!Count
    <3> QED BY <2>1, <3>1 DEF TypeOK, Engine!TypeOK, Engine!Count
  <2>2. CASE Engine!End(n)
    BY <2>2 DEF TypeOK, Engine!TypeOK, Engine!End
  <2> QED BY <2>1, <2>2
<1>2. \A k \in Keys : EntryInv(k)'
  BY SameEntryInv DEF SameEntry, TypeOK, Services
<1>3. /\ UNCHANGED <<handles, size>>
      /\ \A i \in Numbers : counted'[i] >= counted[i] /\ (live'[i] => live[i])
      /\ \A i \in Numbers : counted[i] = size[i] => counted'[i] = counted[i]
  BY DEF TypeOK, Engine!TypeOK, Engine!Count, Engine!End
<1>4. PollsOwnTransfer' /\ FailedSendIsStopped'
  BY <1>3, KeyParts DEF PollsOwnTransfer, Launched, FailedSendIsStopped
<1>5. ListNotAhead'
  BY <1>1, <1>3, KeyParts
  DEF ListNotAhead, PollsOwnTransfer, Launched, TypeOK, Engine!TypeOK
<1> QED BY <1>1, <1>2, <1>4, <1>5

LEMMA NextInv == ServiceInv /\ [Next]_vars => ServiceInv'
<1> SUFFICES ASSUME ServiceInv, [Next]_vars PROVE ServiceInv'
  OBVIOUS
<1>1. CASE UNCHANGED vars
  BY <1>1 DEF vars, dart, native, ServiceInv, TypeOK, Engine!TypeOK, EntryInv,
     PollsOwnTransfer, Launched, ListNotAhead, FailedSendIsStopped
<1>2. ASSUME NEW e \in Keys, Reply(e) PROVE ServiceInv'
  BY <1>2, ResolvedInv, FailSendInv, LaunchAcceptedInv
  DEF Reply, ResolveFails, OpenFails, LaunchRefused
<1>3. ASSUME NEW e \in Keys, Tick(e) PROVE ServiceInv'
  BY <1>3, PollInv, PollStopsInv DEF Tick
<1> QED
  BY <1>1, <1>2, <1>3, NewServiceInv, ListenAcceptedInv, ListenRefusedInv,
     SendFileInv, CancelInv, DeliverInv, EngineStepInv
  DEF Next

-----------------------------------------------------------------------------
(* Theorems *)

(* The inductive invariant holds in every reachable state: besides the three
   properties below, where the asynchronous work of an entry is decides which
   statuses the list and the screen may give it. *)
THEOREM ServiceCorrect == Spec => []ServiceInv
<1> QED BY InitInv, NextInv, PTL DEF Spec

(* Every variable of the service and of the engine behind it has its type, so
   that no progress shown or counted passes the file's blocks. *)
THEOREM ServiceTypeCorrect == Spec => []TypeOK
<1>1. ServiceInv => TypeOK
  BY DEF ServiceInv
<1> QED BY <1>1, ServiceCorrect, PTL

(* _pollProgress never reads the context of another transfer, however many
   service objects number their transfers from 1 over the one engine. *)
THEOREM PollsOwnTransferAlways == Spec => []PollsOwnTransfer
<1>1. ServiceInv => PollsOwnTransfer
  BY DEF ServiceInv
<1> QED BY <1>1, ServiceCorrect, PTL

(* The list never claims more than the engine has counted. *)
THEOREM ListNeverAhead == Spec => []ListNotAhead
<1>1. ServiceInv => ListNotAhead
  BY DEF ServiceInv
<1> QED BY <1>1, ServiceCorrect, PTL

(* A send that is marked failed while its timer runs has been told to stop. *)
THEOREM FailedSendAlwaysStopped == Spec => []FailedSendIsStopped
<1>1. ServiceInv => FailedSendIsStopped
  BY DEF ServiceInv
<1> QED BY <1>1, ServiceCorrect, PTL

(* No await that ends late, no tick and no new transfer takes an entry out of
   failed: a step that writes a status finds it none, queued or active. *)
THEOREM FailedAlwaysFinal == Spec => FailedIsFinal
<1>1. ASSUME ServiceInv, [Next]_vars, NEW k \in Keys, status[k] = "failed"
      PROVE  status'[k] = "failed"
  <2> USE <1>1 DEF ServiceInv, TypeOK
  <2>1. \A e \in Keys : status[e] = "failed" => phase[e] \notin {"resolving", "opening"}
    BY DEF EntryInv
  <2>2. ASSUME NEW dir, AddEntry(dir) PROVE k # NextKey
    BY <2>2, NextKeyIsNew DEF AddEntry
  <2>3. CASE UNCHANGED vars
    BY <2>3 DEF vars, dart
  <2>4. CASE NewService
    BY <2>4 DEF NewService
  <2>5. CASE ListenAccepted \/ ListenRefused
    BY <2>2, <2>5 DEF ListenAccepted, ListenRefused
  <2>6. ASSUME NEW n \in 1..MaxBlocks, SendFile(n) PROVE status'[k] = "failed"
    BY <2>2, <2>6 DEF SendFile
  <2>7. ASSUME NEW e \in Keys, Cancel(e) \/ Deliver(e) PROVE status'[k] = "failed"
    BY <2>7 DEF Cancel, Deliver
  <2>8. ASSUME NEW e \in Keys, Reply(e) PROVE status'[k] = "failed"
    BY <2>1, <2>8
    DEF Reply, Resolved, ResolveFails, OpenFails, LaunchAccepted, LaunchRefused, FailSend
  <2>9. ASSUME NEW e \in Keys, Tick(e) PROVE status'[k] = "failed"
    BY <2>9 DEF Tick, Poll, PollStops
  <2>10. ASSUME NEW n \in Numbers, EngineStep(n) PROVE status'[k] = "failed"
    BY <2>10 DEF EngineStep, dart
  <2> QED BY <2>3, <2>4, <2>5, <2>6, <2>7, <2>8, <2>9, <2>10 DEF Next
<1>2. ServiceInv /\ [Next]_vars =>
         [\A k \in Keys : status[k] = "failed" => status'[k] = "failed"]_vars
  BY <1>1
<1> QED BY <1>2, ServiceCorrect, PTL DEF Spec, FailedIsFinal

-----------------------------------------------------------------------------
(* The service drives the engine through its interface alone: what the calls
   of all the service objects and the engine's threads do together is a
   behaviour of TransferHandle, whichever objects share it. *)
THEOREM ServiceKeepsToHandle == Spec => Engine!Spec
<1>1. Init => Engine!Init
  BY DEF Init
<1>2. ASSUME ServiceInv, [Next]_vars PROVE [Engine!Next]_(Engine!vars)
  <2> USE <1>2 DEF Engine!vars, ServiceInv, TypeOK
  <2>1. ASSUME UNCHANGED native PROVE [Engine!Next]_(Engine!vars)
    BY <2>1 DEF native
  <2>2. CASE NewService \/ ListenRefused \/ UNCHANGED vars
    BY <2>1, <2>2 DEF NewService, ListenRefused, vars
  <2>3. CASE ListenAccepted
    <3>1. started[service] + 1 \in Numbers
      BY <2>3, NextKeyIsNew DEF ListenAccepted, AddEntry, Numbers
    <3>2. 0 \in 0..MaxBlocks
      BY ServiceAssumption
    <3> QED BY <2>3, <3>1, <3>2 DEF ListenAccepted, Engine!Next
  <2>4. ASSUME NEW n \in 1..MaxBlocks, SendFile(n) PROVE UNCHANGED native
    BY <2>4 DEF SendFile
  <2>5. ASSUME NEW e \in Keys, Cancel(e) PROVE [Engine!Next]_(Engine!vars)
    <3>1. {Number(e)} \cap handles \in SUBSET handles
      OBVIOUS
    <3> QED BY <2>1, <2>5, <3>1 DEF Cancel, Engine!Next
  <2>6. ASSUME NEW e \in Keys, Deliver(e) \/ Tick(e) PROVE UNCHANGED native
    BY <2>6 DEF Deliver, Tick, Poll, PollStops
  <2>7. ASSUME NEW e \in Keys, Reply(e) PROVE [Engine!Next]_(Engine!vars)
    <3>1. CASE LaunchAccepted(e)
      BY <3>1, KeyParts DEF LaunchAccepted, Engine!Next
    <3>2. CASE ~LaunchAccepted(e)
      BY <2>1, <2>7, <3>2
      DEF Reply, Resolved, ResolveFails, OpenFails, LaunchRefused, FailSend
    <3> QED BY <3>1, <3>2
  <2>8. ASSUME NEW n \in Numbers, EngineStep(n) PROVE [Engine!Next]_(Engine!vars)
    BY <2>8 DEF EngineStep, Engine!Next
  <2> QED BY <2>1, <2>2, <2>3, <2>4, <2>5, <2>6, <2>7, <2>8 DEF Next
<1>3. ServiceInv /\ [Next]_vars => [Engine!Next]_(Engine!vars)
  BY <1>2
<1> QED BY <1>1, <1>3, ServiceCorrect, PTL DEF Spec, Engine!Spec

=============================================================================
