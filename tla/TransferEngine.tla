--------------------------- MODULE TransferEngine ---------------------------
(***************************************************************************)
(* The native transfer engine (turbolink_engine.cpp): the map of transfer  *)
(* contexts, the C calls made on it, and one thread per transfer running   *)
(* the send pipeline or the receive stub.                                  *)
(*                                                                         *)
(* Every call comes from the one Dart isolate that loaded the library, so  *)
(* calls are serialised among themselves; they interleave with every step  *)
(* of every transfer thread.  A thread step is one access to state another *)
(* thread can touch (the context's `active' and `progress', g_fec_mode) or *)
(* one frame handed to the socket.  A launch whose pthread_create fails    *)
(* creates and destroys the context within one call, and tl_get_stats and  *)
(* a refused launch change nothing: these are stuttering steps.            *)
(***************************************************************************)
EXTENDS Naturals, Sequences, FiniteSets

CONSTANTS Ids,         \* the transfer identifiers callers use
          MaxBlocks,   \* bound: the most 1 MB blocks a file has
          MaxSource,   \* bound: the most source symbols a block compresses to
          FieldLimit   \* the symbols one Reed-Solomon block can have (255)

ASSUME EngineAssumption ==
    /\ MaxBlocks \in Nat \ {0}
    /\ MaxSource \in Nat \ {0}
    /\ FieldLimit \in Nat

VARIABLES
    transfers,    \* keys of g_transfers
    fecMode,      \* g_fec_mode
    active,       \* ctx->active
    progress,     \* ctx->progress, in whole blocks
    pc,           \* where the thread of the transfer is
    held,         \* the resources of the thread: socket, mapping
    totalBlocks,  \* total_blocks of the file, 0 for a receive
    fec,          \* the coder get_fec_impl returned
    headerMode,   \* header.fec_mode as announced to the receiver
    blockIdx,     \* block_idx of the send loop
    symbolIdx,    \* i of the symbol loop
    symbolCounts, \* symbol_count of each block encoded so far
    frames,       \* the frames handed to tl_udp_send_frame, in order
    lateSymbols   \* history: DATA_SYMBOL frames sent while ~active

shared == <<transfers, fecMode, active, progress>>
coder  == <<fec, headerMode>>
cursor == <<blockIdx, symbolIdx, symbolCounts>>
wire   == <<frames, lateSymbols>>
vars   == <<shared, pc, held, totalBlocks, coder, cursor, wire>>

Modes == {"reed_solomon", "raptorq"}

SendSteps == {"socket", "mmap", "pickFec", "header", "block", "symbol",
              "send", "account", "complete", "cleanup"}

Steps == SendSteps \cup {"none", "listen", "ended"}

FrameTypes == {"FILE_HEADER", "DATA_SYMBOL", "COMPLETE"}

Frame == [type : FrameTypes, seq : Nat, block : Nat, symbol : Nat]

(* tl_rs_encode sizes a block of k source symbols with a fifth of them, and
   at least one, as repair symbols; a block that outgrows the field and every
   block given to RaptorQ is refused, and the sender then has no symbols. *)
Repair(k) == IF k < 5 THEN 1 ELSE k \div 5

SymbolCount(mode, k) ==
    IF mode = "raptorq" \/ k + Repair(k) > FieldLimit
    THEN 0
    ELSE k + Repair(k)

Init ==
    /\ transfers = {}
    /\ fecMode = "reed_solomon"
    /\ active = [id \in Ids |-> FALSE]
    /\ progress = [id \in Ids |-> 0]
    /\ pc = [id \in Ids |-> "none"]
    /\ held = [id \in Ids |-> {}]
    /\ totalBlocks = [id \in Ids |-> 0]
    /\ fec = [id \in Ids |-> "reed_solomon"]
    /\ headerMode = [id \in Ids |-> "none"]
    /\ blockIdx = [id \in Ids |-> 0]
    /\ symbolIdx = [id \in Ids |-> 0]
    /\ symbolCounts = [id \in Ids |-> << >>]
    /\ frames = [id \in Ids |-> << >>]
    /\ lateSymbols = [id \in Ids |-> 0]

-----------------------------------------------------------------------------
(* The C calls *)

CreateTransfer_NoLookup(id) ==
    /\ transfers' = transfers \cup {id}
    /\ active' = [active EXCEPT ![id] = TRUE]
    /\ progress' = [progress EXCEPT ![id] = 0]

(* create_transfer: refused when the identifier is still in the map. *)
CreateTransfer(id) ==
    /\ id \notin transfers
    /\ transfers' = transfers \cup {id}
    /\ active' = [active EXCEPT ![id] = TRUE]
    /\ progress' = [progress EXCEPT ![id] = 0]

SendFile(id, n) ==
    /\ CreateTransfer(id)
    /\ totalBlocks' = [totalBlocks EXCEPT ![id] = n]
    /\ pc' = [pc EXCEPT ![id] = "socket"]
    /\ UNCHANGED <<fecMode, held, coder, cursor, wire>>

ReceiveFile(id) ==
    /\ CreateTransfer(id)
    /\ pc' = [pc EXCEPT ![id] = "listen"]
    /\ UNCHANGED <<fecMode, held, totalBlocks, coder, cursor, wire>>

(* An identifier that is not in the map is ignored. *)
CancelTransfer(id) ==
    /\ id \in transfers
    /\ active' = [active EXCEPT ![id] = FALSE]
    /\ UNCHANGED <<transfers, fecMode, progress, pc, held, totalBlocks,
                   coder, cursor, wire>>

(* tl_cancel_all, and tl_engine_shutdown, which only calls it. *)
CancelAll ==
    /\ active' = [id \in Ids |-> active[id] /\ id \notin transfers]
    /\ UNCHANGED <<transfers, fecMode, progress, pc, held, totalBlocks,
                   coder, cursor, wire>>

SetFecMode(mode) ==
    /\ fecMode' = mode
    /\ UNCHANGED <<transfers, active, progress, pc, held, totalBlocks,
                   coder, cursor, wire>>

-----------------------------------------------------------------------------
(* The send thread *)

Goto(id, from, to) ==
    /\ pc[id] = from
    /\ pc' = [pc EXCEPT ![id] = to]

Send(id, type, seq, block, symbol) ==
    frames' = [frames EXCEPT ![id] =
        Append(@, [type |-> type, seq |-> seq,
                   block |-> block, symbol |-> symbol])]

NextSeq_RestartsAtZero(id) ==
    IF Len(frames[id]) < 2 THEN 0 ELSE Len(frames[id]) - 1

(* seq_num: the header takes 0 and every later frame the next number. *)
NextSeq(id) == Len(frames[id])

OpenSocket(id) ==
    /\ Goto(id, "socket", "mmap")
    /\ held' = [held EXCEPT ![id] = @ \cup {"socket"}]
    /\ UNCHANGED <<shared, totalBlocks, coder, cursor, wire>>

(* tl_udp_create failed: on_error, then the thread returns. *)
SocketFails(id) ==
    /\ Goto(id, "socket", "ended")
    /\ active' = [active EXCEPT ![id] = FALSE]
    /\ UNCHANGED <<transfers, fecMode, progress, held, totalBlocks,
                   coder, cursor, wire>>

MapFile(id) ==
    /\ Goto(id, "mmap", "pickFec")
    /\ held' = [held EXCEPT ![id] = @ \cup {"mapping"}]
    /\ UNCHANGED <<shared, totalBlocks, coder, cursor, wire>>

MapFails_KeepsSocket(id) ==
    /\ Goto(id, "mmap", "ended")
    /\ active' = [active EXCEPT ![id] = FALSE]
    /\ UNCHANGED <<transfers, fecMode, progress, held, totalBlocks,
                   coder, cursor, wire>>

(* tl_mmap_open failed: the socket is closed and the thread returns. *)
MapFails(id) ==
    /\ Goto(id, "mmap", "ended")
    /\ held' = [held EXCEPT ![id] = @ \ {"socket"}]
    /\ active' = [active EXCEPT ![id] = FALSE]
    /\ UNCHANGED <<transfers, fecMode, progress, totalBlocks,
                   coder, cursor, wire>>

(* get_fec_impl: the first read of g_fec_mode. *)
PickFec(id) ==
    /\ Goto(id, "pickFec", "header")
    /\ fec' = [fec EXCEPT ![id] = fecMode]
    /\ UNCHANGED <<shared, held, totalBlocks, headerMode, cursor, wire>>

(* The second read of g_fec_mode, put in the header that announces it. *)
SendHeader(id) ==
    /\ Goto(id, "header", "block")
    /\ headerMode' = [headerMode EXCEPT ![id] = fecMode]
    /\ Send(id, "FILE_HEADER", NextSeq(id), 0, 0)
    /\ UNCHANGED <<shared, held, totalBlocks, fec, cursor, lateSymbols>>

BlockTest_OneTooMany(id) == blockIdx[id] <= totalBlocks[id] /\ active[id]
BlockTest_OneShort(id) == blockIdx[id] + 1 < totalBlocks[id] /\ active[id]

(* The test of the block loop. *)
BlockTest(id) == blockIdx[id] < totalBlocks[id] /\ active[id]

(* The block loop's test passes; the block is compressed, encrypted and
   encoded.  The result of encode is not looked at. *)
EncodeBlock(id) ==
    /\ Goto(id, "block", "symbol")
    /\ BlockTest(id)
    /\ symbolIdx' = [symbolIdx EXCEPT ![id] = 0]
    /\ \E k \in 1..MaxSource :
          symbolCounts' = [symbolCounts EXCEPT ![id] =
                               Append(@, SymbolCount(fec[id], k))]
    /\ UNCHANGED <<shared, held, totalBlocks, coder, blockIdx, wire>>

SymbolsLeft_SkipsLast(id) ==
    symbolIdx[id] + 1 < symbolCounts[id][blockIdx[id] + 1]

SymbolsLeft(id) == symbolIdx[id] < symbolCounts[id][blockIdx[id] + 1]

SymbolTest_IgnoresCancel(id) == SymbolsLeft(id)

SymbolTest(id) == SymbolsLeft(id) /\ active[id]

(* The symbol loop's test, which reads ctx->active ... *)
NextSymbol(id) ==
    /\ Goto(id, "symbol", "send")
    /\ SymbolTest(id)
    /\ UNCHANGED <<shared, held, totalBlocks, coder, cursor, wire>>

LeaveSymbols_IgnoresCancel(id) ==
    /\ Goto(id, "symbol", "account")
    /\ ~SymbolsLeft(id)
    /\ UNCHANGED <<shared, held, totalBlocks, coder, cursor, wire>>

LeaveSymbols(id) ==
    /\ Goto(id, "symbol", "account")
    /\ ~SymbolTest(id)
    /\ UNCHANGED <<shared, held, totalBlocks, coder, cursor, wire>>

(* ... and the frame it lets through, which does not. *)
SendSymbol(id) ==
    /\ Goto(id, "send", "symbol")
    /\ Send(id, "DATA_SYMBOL", NextSeq(id), blockIdx[id], symbolIdx[id])
    /\ symbolIdx' = [symbolIdx EXCEPT ![id] = @ + 1]
    /\ lateSymbols' = IF active[id] THEN lateSymbols
                      ELSE [lateSymbols EXCEPT ![id] = @ + 1]
    /\ UNCHANGED <<shared, held, totalBlocks, coder, blockIdx, symbolCounts>>

CountBlock_AtOnce(id) ==
    /\ Goto(id, "account", "block")
    /\ progress' = [progress EXCEPT ![id] = totalBlocks[id]]
    /\ blockIdx' = [blockIdx EXCEPT ![id] = @ + 1]
    /\ UNCHANGED <<transfers, fecMode, active, held, totalBlocks, coder,
                   symbolIdx, symbolCounts, wire>>

(* bytes_sent and ctx->progress, whether or not the symbols all went out. *)
CountBlock(id) ==
    /\ Goto(id, "account", "block")
    /\ progress' = [progress EXCEPT ![id] = blockIdx[id] + 1]
    /\ blockIdx' = [blockIdx EXCEPT ![id] = @ + 1]
    /\ UNCHANGED <<transfers, fecMode, active, held, totalBlocks, coder,
                   symbolIdx, symbolCounts, wire>>

LeaveBlocks(id) ==
    /\ Goto(id, "block", "complete")
    /\ ~BlockTest(id)
    /\ UNCHANGED <<shared, held, totalBlocks, coder, cursor, wire>>

(* COMPLETE goes out however the block loop was left. *)
SendComplete(id) ==
    /\ Goto(id, "complete", "cleanup")
    /\ Send(id, "COMPLETE", NextSeq(id), 0, 0)
    /\ UNCHANGED <<shared, held, totalBlocks, coder, cursor, lateSymbols>>

(* The buffers, the mapping and the socket are released and the thread
   returns; the context stays in g_transfers. *)
EndSend(id) ==
    /\ Goto(id, "cleanup", "ended")
    /\ held' = [held EXCEPT ![id] = @ \ {"socket", "mapping"}]
    /\ active' = [active EXCEPT ![id] = FALSE]
    /\ UNCHANGED <<transfers, fecMode, progress, totalBlocks,
                   coder, cursor, wire>>

(* The receive stub sleeps a second, reads nothing and returns. *)
EndReceive(id) ==
    /\ Goto(id, "listen", "ended")
    /\ active' = [active EXCEPT ![id] = FALSE]
    /\ UNCHANGED <<transfers, fecMode, progress, held, totalBlocks,
                   coder, cursor, wire>>

SendThread(id) ==
    \/ OpenSocket(id)   \/ SocketFails(id)
    \/ MapFile(id)      \/ MapFails(id)
    \/ PickFec(id)      \/ SendHeader(id)
    \/ EncodeBlock(id)  \/ LeaveBlocks(id)
    \/ NextSymbol(id)   \/ LeaveSymbols(id)
    \/ SendSymbol(id)   \/ CountBlock(id)
    \/ SendComplete(id) \/ EndSend(id)

Thread(id) == SendThread(id) \/ EndReceive(id)

Calls ==
    \/ \E id \in Ids, n \in 1..MaxBlocks : SendFile(id, n)
    \/ \E id \in Ids : ReceiveFile(id) \/ CancelTransfer(id)
    \/ CancelAll
    \/ \E mode \in Modes : SetFecMode(mode)

Next == Calls \/ \E id \in Ids : Thread(id)

Spec == Init /\ [][Next]_vars

(* Each transfer has a thread of its own, which the system keeps running. *)
FairSpec == Spec /\ \A id \in Ids : WF_vars(Thread(id))

-----------------------------------------------------------------------------
(* Properties *)

TypeOK ==
    /\ transfers \in SUBSET Ids
    /\ fecMode \in Modes
    /\ active \in [Ids -> BOOLEAN]
    /\ progress \in [Ids -> 0..MaxBlocks]
    /\ pc \in [Ids -> Steps]
    /\ held \in [Ids -> SUBSET {"socket", "mapping"}]
    /\ totalBlocks \in [Ids -> 0..MaxBlocks]
    /\ fec \in [Ids -> Modes]
    /\ headerMode \in [Ids -> Modes \cup {"none"}]
    /\ blockIdx \in [Ids -> 0..MaxBlocks]
    /\ symbolIdx \in [Ids -> Nat]
    /\ symbolCounts \in [Ids -> Seq(Nat)]
    /\ frames \in [Ids -> Seq(Frame)]
    /\ lateSymbols \in [Ids -> Nat]

Sent(id, type) == {j \in 1..Len(frames[id]) : frames[id][j].type = type}

Carried(id, block, symbol) ==
    \E j \in Sent(id, "DATA_SYMBOL") :
        frames[id][j].block = block /\ frames[id][j].symbol = symbol

(* Every symbol of the block is among the frames handed to the socket. *)
WhollySent(id, block) ==
    \A s \in 0..symbolCounts[id][block + 1] - 1 : Carried(id, block, s)

(* protocol.h calls seq_num a monotonic sequence number: no interleaving of
   threads, cancels and errors makes a sender skip or repeat one, FILE_HEADER
   is its first frame and nothing follows COMPLETE. *)
FramesInOrder ==
    \A id \in Ids : \A j \in 1..Len(frames[id]) :
        /\ frames[id][j].seq = j - 1
        /\ frames[id][j].type = "FILE_HEADER" <=> j = 1
        /\ frames[id][j].type = "COMPLETE" => j = Len(frames[id])

(* tl_cancel_transfer only clears a flag the thread reads between frames:
   whenever it lands, at most the one symbol whose test had already passed
   still goes out. *)
CancelStopsSymbols == \A id \in Ids : lateSymbols[id] <= 1

(* The progress a poll reads is honest while nobody cancelled: each counted
   block that was encoded at all has every one of its symbols sent. *)
ProgressHonest ==
    \A id \in Ids : active[id] =>
        \A b \in 0..progress[id] - 1 : WhollySent(id, b)

(* A thread that has returned, by whichever of its paths, has released the
   socket and the mapping and is no longer active. *)
EndedIsClean ==
    \A id \in Ids : pc[id] = "ended" => held[id] = {} /\ ~active[id]

NoRevival ==
    \A id \in transfers : id \in transfers' /\ (active'[id] => active[id])

(* A cancel is never undone: no call or thread step reactivates a transfer
   that is in the map, and none leaves the map. *)
CancelIsFinal == [][NoRevival]_vars

(* Every launched thread ends, whatever is cancelled and whichever of its
   calls fail. *)
ThreadsEnd == \A id \in Ids : (id \in transfers) ~> (pc[id] = "ended")

(* The engine keeps the promises of turbolink_engine.h. *)
Handle == INSTANCE TransferHandle WITH
    handles <- transfers,
    live    <- active,
    size    <- totalBlocks,
    counted <- progress,
    ended   <- [id \in Ids |-> pc[id] = "ended"]

HandleSpec == Handle!Spec

-----------------------------------------------------------------------------
(* The inductive invariant the proofs use, part by part *)

BeforeFrames == {"none", "listen", "socket", "mmap", "pickFec", "header"}
InBlock      == {"symbol", "send", "account"}
InStream     == {"block", "complete"} \cup InBlock

(* Contexts and threads go together, and an unused identifier is untouched. *)
ContextInv(id) ==
    /\ pc[id] = "none" <=> id \notin transfers
    /\ id \notin transfers => ~active[id] /\ totalBlocks[id] = 0
    /\ pc[id] = "listen" => totalBlocks[id] = 0

(* What the thread holds at each place it can return from. *)
ResourceInv(id) ==
    /\ pc[id] \in {"none", "listen", "socket", "ended"} => held[id] = {}
    /\ pc[id] = "mmap" => held[id] = {"socket"}
    /\ pc[id] = "ended" => ~active[id]

(* The stream of frames: none before the header, COMPLETE only at the end. *)
StreamInv(id) ==
    /\ pc[id] \in BeforeFrames => frames[id] = << >>
    /\ pc[id] \in InStream => frames[id] # << >>
    /\ pc[id] \in InStream =>
          \A j \in 1..Len(frames[id]) : frames[id][j].type # "COMPLETE"

(* A late symbol needs a test that passed before the cancel. *)
LateInv(id) ==
    /\ lateSymbols[id] <= 1
    /\ active[id] \/ pc[id] \in {"none", "send"} => lateSymbols[id] = 0

(* The block loop: progress is the loop counter, and an uncancelled loop
   ends with every block counted. *)
LoopInv(id) ==
    /\ progress[id] = blockIdx[id]
    /\ blockIdx[id] <= totalBlocks[id]
    /\ pc[id] \in InBlock => blockIdx[id] < totalBlocks[id]
    /\ pc[id] \in BeforeFrames => blockIdx[id] = 0
    /\ pc[id] \in {"complete", "cleanup"} /\ active[id] =>
          blockIdx[id] = totalBlocks[id]

(* What has been sent of the blocks before this one and of this one. *)
BlockInv(id) ==
    /\ pc[id] \in InBlock => Len(symbolCounts[id]) = blockIdx[id] + 1
    /\ pc[id] \in BeforeFrames \cup {"block"} =>
          Len(symbolCounts[id]) = blockIdx[id]
    /\ active[id] => \A b \in 0..blockIdx[id] - 1 : WhollySent(id, b)
    /\ pc[id] \in InBlock =>
          \A s \in 0..symbolIdx[id] - 1 : Carried(id, blockIdx[id], s)
    /\ pc[id] = "account" /\ active[id] => ~SymbolsLeft(id)

EngineInv ==
    /\ TypeOK
    /\ FramesInOrder
    /\ \A id \in Ids :
          /\ ContextInv(id)
          /\ ResourceInv(id)
          /\ StreamInv(id)
          /\ LateInv(id)
          /\ LoopInv(id)
          /\ BlockInv(id)

-----------------------------------------------------------------------------
(* What the documentation says and the code does not do *)

(* protocol.h: a COMPLETE frame means all blocks were received successfully;
   at the least the sender must have sent each of them. *)
CompleteMeansAllSent ==
    \A id \in Ids : Sent(id, "COMPLETE") # {} =>
        \A b \in 0..totalBlocks[id] - 1 :
            /\ b < Len(symbolCounts[id])
            /\ symbolCounts[id][b + 1] > 0
            /\ WhollySent(id, b)

(* protocol.h: the FILE_HEADER carries the FEC mode of the transfer. *)
HeaderNamesCoder ==
    \A id \in Ids : headerMode[id] # "none" => headerMode[id] = fec[id]
=============================================================================
