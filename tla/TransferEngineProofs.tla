------------------------ MODULE TransferEngineProofs ------------------------
(***************************************************************************)
(* Theorems about TransferEngine for every set of identifiers, file size,  *)
(* symbol count and field limit.                                           *)
(***************************************************************************)
EXTENDS TransferEngine, TLAPS

Parts(i) ==
    /\ ContextInv(i)
    /\ ResourceInv(i)
    /\ StreamInv(i)
    /\ LateInv(i)
    /\ LoopInv(i)

(* The step leaves everything the invariant says of transfer i alone. *)
Untouched(i) ==
    /\ i \in transfers' <=> i \in transfers
    /\ active'[i] = active[i]
    /\ progress'[i] = progress[i]
    /\ pc'[i] = pc[i]
    /\ held'[i] = held[i]
    /\ totalBlocks'[i] = totalBlocks[i]
    /\ blockIdx'[i] = blockIdx[i]
    /\ symbolIdx'[i] = symbolIdx[i]
    /\ symbolCounts'[i] = symbolCounts[i]
    /\ frames'[i] = frames[i]
    /\ lateSymbols'[i] = lateSymbols[i]

LEMMA UntouchedParts ==
    ASSUME NEW i, Parts(i), BlockInv(i), Untouched(i)
    PROVE  Parts(i)' /\ BlockInv(i)'
<1> USE DEF Untouched, BeforeFrames, InBlock, InStream
<1>1. Parts(i)'
  BY DEF Parts, ContextInv, ResourceInv, StreamInv, LateInv, LoopInv
<1>2. BlockInv(i)'
  BY DEF BlockInv, SymbolsLeft, WhollySent, Carried, Sent
<1> QED BY <1>1, <1>2

(* A step that leaves the blocks of a transfer alone and does not revive it
   keeps the invariant on them wherever the thread goes outside a block. *)
LEMMA SameBlocks ==
    ASSUME NEW i, BlockInv(i),
           active'[i] => active[i],
           blockIdx'[i] = blockIdx[i],
           symbolIdx'[i] = symbolIdx[i],
           symbolCounts'[i] = symbolCounts[i],
           frames'[i] = frames[i],
           pc'[i] \in InBlock => pc[i] \in InBlock,
           pc'[i] \in BeforeFrames \cup {"block"} =>
               pc[i] \in BeforeFrames \cup {"block"},
           pc'[i] = "account" /\ active'[i] => ~SymbolsLeft(i)
    PROVE  BlockInv(i)'
BY DEF BlockInv, SymbolsLeft, WhollySent, Carried, Sent

LEMMA SymbolCountType ==
    ASSUME NEW mode, NEW k \in Nat
    PROVE  SymbolCount(mode, k) \in Nat
BY EngineAssumption DEF SymbolCount, Repair

(* The streams of the other transfers are as they were, and that of this one
   has grown by one frame and is still in order. *)
SentBehind(id, type, block, symbol) ==
    /\ frames' \in [Ids -> Seq(Frame)]
    /\ FramesInOrder'
    /\ \A i \in Ids \ {id} : frames'[i] = frames[i]
    /\ frames'[id] # << >>
    /\ \A j \in 1..Len(frames'[id]) :
          frames'[id][j].type = "COMPLETE" => type = "COMPLETE"
    /\ \A j \in 1..Len(frames[id]) :
          j \in 1..Len(frames'[id]) /\ frames'[id][j] = frames[id][j]
    /\ \E j \in 1..Len(frames'[id]) :
          /\ frames'[id][j].type = type
          /\ frames'[id][j].block = block
          /\ frames'[id][j].symbol = symbol

LEMMA CarriedKept ==
    ASSUME NEW id, NEW b, NEW c, Carried(id, b, c),
           \A j \in 1..Len(frames[id]) :
               j \in 1..Len(frames'[id]) /\ frames'[id][j] = frames[id][j]
    PROVE  Carried(id, b, c)'
<1>1. PICK j \in 1..Len(frames[id]) :
         /\ frames[id][j].type = "DATA_SYMBOL"
         /\ frames[id][j].block = b
         /\ frames[id][j].symbol = c
  BY DEF Carried, Sent
<1>2. j \in 1..Len(frames'[id]) /\ frames'[id][j] = frames[id][j]
  OBVIOUS
<1> QED BY <1>1, <1>2 DEF Carried, Sent

LEMMA WhollySentKept ==
    ASSUME NEW id, NEW b, WhollySent(id, b),
           symbolCounts'[id] = symbolCounts[id],
           \A j \in 1..Len(frames[id]) :
               j \in 1..Len(frames'[id]) /\ frames'[id][j] = frames[id][j]
    PROVE  WhollySent(id, b)'
<1>1. ASSUME NEW c \in 0..symbolCounts[id][b + 1] - 1
      PROVE  Carried(id, b, c)'
  BY CarriedKept DEF WhollySent
<1> QED BY <1>1 DEF WhollySent

(* A frame put behind a stream that has not ended keeps the order. *)
LEMMA SendInOrder ==
    ASSUME TypeOK, FramesInOrder, NEW id \in Ids,
           NEW type \in FrameTypes, NEW block \in Nat, NEW symbol \in Nat,
           Send(id, type, NextSeq(id), block, symbol),
           type = "FILE_HEADER" <=> frames[id] = << >>,
           \A j \in 1..Len(frames[id]) : frames[id][j].type # "COMPLETE"
    PROVE  SentBehind(id, type, block, symbol)
<1> DEFINE f == [type |-> type, seq |-> Len(frames[id]),
                 block |-> block, symbol |-> symbol]
           s == frames[id]
<1>1. s \in Seq(Frame) /\ Len(s) \in Nat
  BY DEF TypeOK
<1>2. f \in Frame
  BY <1>1 DEF Frame
<1>3. frames' = [frames EXCEPT ![id] = Append(s, f)]
  BY DEF Send, NextSeq
<1>4. /\ Append(s, f) \in Seq(Frame)
      /\ Len(Append(s, f)) = Len(s) + 1
      /\ \A j \in 1..Len(s) : Append(s, f)[j] = s[j]
      /\ Append(s, f)[Len(s) + 1] = f
  BY <1>1, <1>2
<1>5. frames'[id] = Append(s, f)
  BY <1>3 DEF TypeOK
<1>6. \A i \in Ids \ {id} : frames'[i] = frames[i]
  BY <1>3 DEF TypeOK
<1>7. \A j \in 1..Len(frames'[id]) :
         j \in 1..Len(s) \/ (j = Len(s) + 1 /\ frames'[id][j] = f)
  BY <1>1, <1>4, <1>5
<1>8. FramesInOrder'
  <2> SUFFICES ASSUME NEW i \in Ids, NEW j \in 1..Len(frames'[i])
               PROVE  /\ frames'[i][j].seq = j - 1
                      /\ frames'[i][j].type = "FILE_HEADER" <=> j = 1
                      /\ frames'[i][j].type = "COMPLETE" => j = Len(frames'[i])
    BY DEF FramesInOrder
  <2>1. CASE i # id
    BY <2>1, <1>6 DEF FramesInOrder
  <2>2. CASE i = id /\ j \in 1..Len(s)
    <3>1. s # << >>
      BY <2>2, <1>1
    <3> QED BY <2>2, <3>1, <1>1, <1>4, <1>5 DEF FramesInOrder
  <2>3. CASE i = id /\ j = Len(s) + 1 /\ frames'[id][j] = f
    <3>1. s = << >> <=> j = 1
      BY <2>3, <1>1
    <3> QED BY <2>3, <3>1, <1>1, <1>4, <1>5
  <2> QED BY <2>1, <2>2, <2>3, <1>7
<1> HIDE DEF f, s
<1>9. frames' \in [Ids -> Seq(Frame)]
  BY <1>3, <1>4 DEF TypeOK
<1>10. frames'[id] # << >>
  BY <1>1, <1>4, <1>5
<1>11. \A j \in 1..Len(frames'[id]) :
          frames'[id][j].type = "COMPLETE" => type = "COMPLETE"
  BY <1>4, <1>5, <1>7 DEF s, f
<1>12. \A j \in 1..Len(s) :
          j \in 1..Len(frames'[id]) /\ frames'[id][j] = s[j]
  BY <1>1, <1>4, <1>5
<1>13. Len(s) + 1 \in 1..Len(frames'[id]) /\ frames'[id][Len(s) + 1] = f
  BY <1>1, <1>4, <1>5
<1>14. \E j \in 1..Len(frames'[id]) :
          /\ frames'[id][j].type = type
          /\ frames'[id][j].block = block
          /\ frames'[id][j].symbol = symbol
  BY <1>13 DEF f
<1> QED BY <1>6, <1>8, <1>9, <1>10, <1>11, <1>12, <1>14 DEF s, SentBehind

LEMMA InitInv == Init => EngineInv
<1> SUFFICES ASSUME Init  PROVE EngineInv
  OBVIOUS
<1>1. TypeOK
  BY EngineAssumption DEF Init, TypeOK, Modes, Steps, SendSteps
<1>2. FramesInOrder
  BY DEF Init, FramesInOrder
<1>3. ASSUME NEW i \in Ids  PROVE  Parts(i) /\ BlockInv(i)
  BY DEF Init, Parts, ContextInv, ResourceInv, StreamInv, LateInv, LoopInv,
         BlockInv, BeforeFrames, InBlock, InStream
<1> QED BY <1>1, <1>2, <1>3 DEF EngineInv, Parts

LEMMA SendFileInv ==
    ASSUME EngineInv, NEW id \in Ids, NEW n \in 1..MaxBlocks, SendFile(id, n)
    PROVE  EngineInv'
<1> USE EngineAssumption DEF SendFile, CreateTransfer, coder, cursor, wire
<1>1. TypeOK'
  BY DEF EngineInv, TypeOK, Steps, SendSteps
<1>2. FramesInOrder'
  BY DEF EngineInv, FramesInOrder
<1>3. ASSUME NEW i \in Ids \ {id}  PROVE  Parts(i)' /\ BlockInv(i)'
  BY UntouchedParts DEF EngineInv, TypeOK, Untouched, Parts
<1>4. Parts(id)'
  BY DEF EngineInv, TypeOK, Parts, ContextInv, ResourceInv, StreamInv, LateInv,
         LoopInv, BeforeFrames, InBlock, InStream
<1>5. BlockInv(id)'
  BY DEF EngineInv, TypeOK, ContextInv, LoopInv, BlockInv, BeforeFrames,
         InBlock
<1> QED BY <1>1, <1>2, <1>3, <1>4, <1>5 DEF EngineInv, Parts

LEMMA ReceiveFileInv ==
    ASSUME EngineInv, NEW id \in Ids, ReceiveFile(id)
    PROVE  EngineInv'
<1> USE DEF ReceiveFile, CreateTransfer, shared, coder, cursor, wire
<1>1. TypeOK'
  BY EngineAssumption DEF EngineInv, TypeOK, Steps, SendSteps
<1>2. FramesInOrder'
  BY DEF EngineInv, FramesInOrder
<1>3. ASSUME NEW i \in Ids \ {id}  PROVE  Parts(i)' /\ BlockInv(i)'
  BY UntouchedParts DEF EngineInv, TypeOK, Untouched, Parts
<1>4. Parts(id)'
  BY DEF EngineInv, TypeOK, Parts, ContextInv, ResourceInv, StreamInv, LateInv,
         LoopInv, BeforeFrames, InBlock, InStream
<1>5. BlockInv(id)'
  BY DEF EngineInv, TypeOK, ContextInv, LoopInv, BlockInv, BeforeFrames,
         InBlock
<1> QED BY <1>1, <1>2, <1>3, <1>4, <1>5 DEF EngineInv, Parts

LEMMA CancelTransferInv ==
    ASSUME EngineInv, NEW id \in Ids, CancelTransfer(id)
    PROVE  EngineInv'
<1> USE DEF CancelTransfer, shared, coder, cursor, wire
<1>1. TypeOK'
  BY DEF EngineInv, TypeOK, Steps, SendSteps
<1>2. FramesInOrder'
  BY DEF EngineInv, FramesInOrder
<1>3. ASSUME NEW i \in Ids \ {id}  PROVE  Parts(i)' /\ BlockInv(i)'
  BY UntouchedParts DEF EngineInv, TypeOK, Untouched, Parts
<1>4. Parts(id)'
  BY DEF EngineInv, TypeOK, Parts, ContextInv, ResourceInv, StreamInv, LateInv,
         LoopInv, BeforeFrames, InBlock, InStream
<1>5. BlockInv(id)'
  BY SameBlocks DEF EngineInv, TypeOK, BlockInv, BeforeFrames, InBlock
<1> QED BY <1>1, <1>2, <1>3, <1>4, <1>5 DEF EngineInv, Parts

LEMMA CancelAllInv ==
    ASSUME EngineInv, CancelAll
    PROVE  EngineInv'
<1> USE DEF CancelAll, coder, cursor, wire
<1>1. TypeOK'
  BY DEF EngineInv, TypeOK
<1>2. FramesInOrder'
  BY DEF EngineInv, FramesInOrder
<1>3. ASSUME NEW i \in Ids  PROVE  BlockInv(i)'
  BY SameBlocks DEF EngineInv, BlockInv
<1>4. ASSUME NEW i \in Ids  PROVE  Parts(i)'
  BY DEF EngineInv, TypeOK, Parts, ContextInv, ResourceInv, StreamInv, LateInv,
         LoopInv, BeforeFrames, InBlock, InStream
<1> QED BY <1>1, <1>2, <1>3, <1>4 DEF EngineInv, Parts

LEMMA SetFecModeInv ==
    ASSUME EngineInv, NEW mode \in Modes, SetFecMode(mode)
    PROVE  EngineInv'
<1> USE DEF SetFecMode, coder, cursor, wire
<1>1. TypeOK'
  BY DEF EngineInv, TypeOK
<1>2. FramesInOrder'
  BY DEF EngineInv, FramesInOrder
<1>3. ASSUME NEW i \in Ids  PROVE  Parts(i)' /\ BlockInv(i)'
  BY UntouchedParts DEF EngineInv, Untouched, Parts
<1> QED BY <1>1, <1>2, <1>3 DEF EngineInv, Parts

LEMMA OpenSocketInv ==
    ASSUME EngineInv, NEW id \in Ids, OpenSocket(id)
    PROVE  EngineInv'
<1> USE DEF OpenSocket, Goto, shared, coder, cursor, wire
<1>1. TypeOK'
  BY DEF EngineInv, TypeOK, Steps, SendSteps
<1>2. FramesInOrder'
  BY DEF EngineInv, FramesInOrder
<1>3. ASSUME NEW i \in Ids \ {id}  PROVE  Parts(i)' /\ BlockInv(i)'
  BY UntouchedParts DEF EngineInv, TypeOK, Untouched, Parts
<1>4. Parts(id)'
  BY DEF EngineInv, TypeOK, Parts, ContextInv, ResourceInv, StreamInv, LateInv,
         LoopInv, BeforeFrames, InBlock, InStream
<1>5. BlockInv(id)'
  BY SameBlocks DEF EngineInv, TypeOK, BlockInv, BeforeFrames, InBlock
<1> QED BY <1>1, <1>2, <1>3, <1>4, <1>5 DEF EngineInv, Parts

LEMMA SocketFailsInv ==
    ASSUME EngineInv, NEW id \in Ids, SocketFails(id)
    PROVE  EngineInv'
<1> USE DEF SocketFails, Goto, shared, coder, cursor, wire
<1>1. TypeOK'
  BY DEF EngineInv, TypeOK, Steps, SendSteps
<1>2. FramesInOrder'
  BY DEF EngineInv, FramesInOrder
<1>3. ASSUME NEW i \in Ids \ {id}  PROVE  Parts(i)' /\ BlockInv(i)'
  BY UntouchedParts DEF EngineInv, TypeOK, Untouched, Parts
<1>4. Parts(id)'
  BY DEF EngineInv, TypeOK, Parts, ContextInv, ResourceInv, StreamInv, LateInv,
         LoopInv, BeforeFrames, InBlock, InStream
<1>5. BlockInv(id)'
  BY SameBlocks DEF EngineInv, TypeOK, BlockInv, BeforeFrames, InBlock
<1> QED BY <1>1, <1>2, <1>3, <1>4, <1>5 DEF EngineInv, Parts

LEMMA MapFileInv ==
    ASSUME EngineInv, NEW id \in Ids, MapFile(id)
    PROVE  EngineInv'
<1> USE DEF MapFile, Goto, shared, coder, cursor, wire
<1>1. TypeOK'
  BY DEF EngineInv, TypeOK, Steps, SendSteps
<1>2. FramesInOrder'
  BY DEF EngineInv, FramesInOrder
<1>3. ASSUME NEW i \in Ids \ {id}  PROVE  Parts(i)' /\ BlockInv(i)'
  BY UntouchedParts DEF EngineInv, TypeOK, Untouched, Parts
<1>4. Parts(id)'
  BY DEF EngineInv, TypeOK, Parts, ContextInv, ResourceInv, StreamInv, LateInv,
         LoopInv, BeforeFrames, InBlock, InStream
<1>5. BlockInv(id)'
  BY SameBlocks DEF EngineInv, TypeOK, BlockInv, BeforeFrames, InBlock
<1> QED BY <1>1, <1>2, <1>3, <1>4, <1>5 DEF EngineInv, Parts

LEMMA MapFailsInv ==
    ASSUME EngineInv, NEW id \in Ids, MapFails(id)
    PROVE  EngineInv'
<1> USE DEF MapFails, Goto, shared, coder, cursor, wire
<1>1. TypeOK'
  BY DEF EngineInv, TypeOK, Steps, SendSteps
<1>2. FramesInOrder'
  BY DEF EngineInv, FramesInOrder
<1>3. ASSUME NEW i \in Ids \ {id}  PROVE  Parts(i)' /\ BlockInv(i)'
  BY UntouchedParts DEF EngineInv, TypeOK, Untouched, Parts
<1>4. Parts(id)'
  BY DEF EngineInv, TypeOK, Parts, ContextInv, ResourceInv, StreamInv, LateInv,
         LoopInv, BeforeFrames, InBlock, InStream
<1>5. BlockInv(id)'
  BY SameBlocks DEF EngineInv, TypeOK, BlockInv, BeforeFrames, InBlock
<1> QED BY <1>1, <1>2, <1>3, <1>4, <1>5 DEF EngineInv, Parts

LEMMA PickFecInv ==
    ASSUME EngineInv, NEW id \in Ids, PickFec(id)
    PROVE  EngineInv'
<1> USE DEF PickFec, Goto, shared, coder, cursor, wire
<1>1. TypeOK'
  BY DEF EngineInv, TypeOK, Steps, SendSteps
<1>2. FramesInOrder'
  BY DEF EngineInv, FramesInOrder
<1>3. ASSUME NEW i \in Ids \ {id}  PROVE  Parts(i)' /\ BlockInv(i)'
  BY UntouchedParts DEF EngineInv, TypeOK, Untouched, Parts
<1>4. Parts(id)'
  BY DEF EngineInv, TypeOK, Parts, ContextInv, ResourceInv, StreamInv, LateInv,
         LoopInv, BeforeFrames, InBlock, InStream
<1>5. BlockInv(id)'
  BY SameBlocks DEF EngineInv, TypeOK, BlockInv, BeforeFrames, InBlock
<1> QED BY <1>1, <1>2, <1>3, <1>4, <1>5 DEF EngineInv, Parts

LEMMA EncodeBlockInv ==
    ASSUME EngineInv, NEW id \in Ids, EncodeBlock(id)
    PROVE  EngineInv'
<1> USE DEF EncodeBlock, BlockTest, Goto, shared, coder, cursor, wire
<1>1. TypeOK'
  <2>1. PICK k \in 1..MaxSource :
           symbolCounts' = [symbolCounts EXCEPT ![id] =
                                Append(@, SymbolCount(fec[id], k))]
    OBVIOUS
  <2>2. SymbolCount(fec[id], k) \in Nat
    BY SymbolCountType
  <2>3. symbolCounts' \in [Ids -> Seq(Nat)]
    BY <2>1, <2>2 DEF EngineInv, TypeOK
  <2> QED BY <2>3 DEF EngineInv, TypeOK, Steps, SendSteps
<1>2. FramesInOrder'
  BY DEF EngineInv, FramesInOrder
<1>3. ASSUME NEW i \in Ids \ {id}  PROVE  Parts(i)' /\ BlockInv(i)'
  BY UntouchedParts DEF EngineInv, TypeOK, Untouched, Parts
<1>4. Parts(id)'
  BY DEF EngineInv, TypeOK, Parts, ContextInv, ResourceInv, StreamInv, LateInv,
         LoopInv, BeforeFrames, InBlock, InStream
<1>5. BlockInv(id)'
  <2>1. PICK c \in Nat :
           symbolCounts' = [symbolCounts EXCEPT ![id] = Append(@, c)]
    <3>1. PICK k \in 1..MaxSource :
             symbolCounts' = [symbolCounts EXCEPT ![id] =
                                  Append(@, SymbolCount(fec[id], k))]
      OBVIOUS
    <3>2. SymbolCount(fec[id], k) \in Nat
      BY SymbolCountType
    <3> QED BY <3>1, <3>2
  <2>2. Len(symbolCounts[id]) = blockIdx[id]
    BY DEF EngineInv, BlockInv
  <2>3. /\ symbolCounts[id] \in Seq(Nat)
        /\ symbolCounts'[id] = Append(symbolCounts[id], c)
        /\ blockIdx[id] \in Nat
    BY <2>1 DEF EngineInv, TypeOK
  <2>4. /\ Len(symbolCounts'[id]) = blockIdx[id] + 1
        /\ \A b \in 0..blockIdx[id] - 1 :
              symbolCounts'[id][b + 1] = symbolCounts[id][b + 1]
    BY <2>2, <2>3
  <2>5. \A b \in 0..blockIdx[id] - 1 : WhollySent(id, b)'
    BY <2>4 DEF EngineInv, BlockInv, WhollySent, Carried, Sent
  <2>6. symbolIdx'[id] = 0 /\ pc'[id] = "symbol"
    BY DEF EngineInv, TypeOK
  <2> QED BY <2>4, <2>5, <2>6 DEF BlockInv, InBlock, BeforeFrames
<1> QED BY <1>1, <1>2, <1>3, <1>4, <1>5 DEF EngineInv, Parts

LEMMA NextSymbolInv ==
    ASSUME EngineInv, NEW id \in Ids, NextSymbol(id)
    PROVE  EngineInv'
<1> USE DEF NextSymbol, SymbolTest, Goto, shared, coder, cursor, wire
<1>1. TypeOK'
  BY DEF EngineInv, TypeOK, Steps, SendSteps
<1>2. FramesInOrder'
  BY DEF EngineInv, FramesInOrder
<1>3. ASSUME NEW i \in Ids \ {id}  PROVE  Parts(i)' /\ BlockInv(i)'
  BY UntouchedParts DEF EngineInv, TypeOK, Untouched, Parts
<1>4. Parts(id)'
  BY DEF EngineInv, TypeOK, Parts, ContextInv, ResourceInv, StreamInv, LateInv,
         LoopInv, BeforeFrames, InBlock, InStream
<1>5. BlockInv(id)'
  BY SameBlocks DEF EngineInv, TypeOK, BlockInv, BeforeFrames, InBlock
<1> QED BY <1>1, <1>2, <1>3, <1>4, <1>5 DEF EngineInv, Parts

LEMMA LeaveSymbolsInv ==
    ASSUME EngineInv, NEW id \in Ids, LeaveSymbols(id)
    PROVE  EngineInv'
<1> USE DEF LeaveSymbols, SymbolTest, Goto, shared, coder, cursor, wire
<1>1. TypeOK'
  BY DEF EngineInv, TypeOK, Steps, SendSteps
<1>2. FramesInOrder'
  BY DEF EngineInv, FramesInOrder
<1>3. ASSUME NEW i \in Ids \ {id}  PROVE  Parts(i)' /\ BlockInv(i)'
  BY UntouchedParts DEF EngineInv, TypeOK, Untouched, Parts
<1>4. Parts(id)'
  BY DEF EngineInv, TypeOK, Parts, ContextInv, ResourceInv, StreamInv, LateInv,
         LoopInv, BeforeFrames, InBlock, InStream
<1>5. BlockInv(id)'
  <2>1. pc'[id] = "account" /\ active'[id] => ~SymbolsLeft(id)
    OBVIOUS
  <2> QED BY <2>1, SameBlocks DEF EngineInv, TypeOK, BeforeFrames, InBlock
<1> QED BY <1>1, <1>2, <1>3, <1>4, <1>5 DEF EngineInv, Parts

LEMMA CountBlockInv ==
    ASSUME EngineInv, NEW id \in Ids, CountBlock(id)
    PROVE  EngineInv'
<1> USE DEF CountBlock, Goto, shared, coder, cursor, wire
<1>1. TypeOK'
  <2>1. blockIdx[id] + 1 \in 0..MaxBlocks
    BY EngineAssumption DEF EngineInv, TypeOK, LoopInv, InBlock
  <2> QED BY <2>1 DEF EngineInv, TypeOK, Steps, SendSteps
<1>2. FramesInOrder'
  BY DEF EngineInv, FramesInOrder
<1>3. ASSUME NEW i \in Ids \ {id}  PROVE  Parts(i)' /\ BlockInv(i)'
  BY UntouchedParts DEF EngineInv, TypeOK, Untouched, Parts
<1>4. Parts(id)'
  BY DEF EngineInv, TypeOK, Parts, ContextInv, ResourceInv, StreamInv, LateInv,
         LoopInv, BeforeFrames, InBlock, InStream
<1>5. BlockInv(id)'
  <2>1. ASSUME active[id]  PROVE WhollySent(id, blockIdx[id])
    <3>1. /\ symbolIdx[id] \in Nat /\ blockIdx[id] \in Nat
          /\ symbolCounts[id] \in Seq(Nat)
          /\ Len(symbolCounts[id]) = blockIdx[id] + 1
      BY DEF EngineInv, TypeOK, BlockInv, InBlock
    <3>2. symbolCounts[id][blockIdx[id] + 1] \in Nat
      BY <3>1
    <3>3. ~(symbolIdx[id] < symbolCounts[id][blockIdx[id] + 1])
      BY <2>1 DEF EngineInv, BlockInv, SymbolsLeft
    <3>4. \A c \in 0..symbolIdx[id] - 1 : Carried(id, blockIdx[id], c)
      BY DEF EngineInv, BlockInv, InBlock
    <3> QED BY <3>1, <3>2, <3>3, <3>4 DEF WhollySent
  <2>2. blockIdx[id] \in Nat /\ blockIdx'[id] = blockIdx[id] + 1
    BY DEF EngineInv, TypeOK
  <2>3. ASSUME active'[id], NEW b \in 0..blockIdx'[id] - 1
        PROVE  WhollySent(id, b)'
    <3>1. WhollySent(id, b)
      BY <2>1, <2>2, <2>3 DEF EngineInv, BlockInv
    <3> QED BY <3>1 DEF WhollySent, Carried, Sent
  <2>4. pc'[id] = "block" /\ Len(symbolCounts'[id]) = blockIdx'[id]
    BY <2>2 DEF EngineInv, TypeOK, BlockInv, InBlock
  <2> QED BY <2>3, <2>4 DEF BlockInv, InBlock
<1> QED BY <1>1, <1>2, <1>3, <1>4, <1>5 DEF EngineInv, Parts

LEMMA LeaveBlocksInv ==
    ASSUME EngineInv, NEW id \in Ids, LeaveBlocks(id)
    PROVE  EngineInv'
<1> USE DEF LeaveBlocks, BlockTest, Goto, shared, coder, cursor, wire
<1>1. TypeOK'
  BY DEF EngineInv, TypeOK, Steps, SendSteps
<1>2. FramesInOrder'
  BY DEF EngineInv, FramesInOrder
<1>3. ASSUME NEW i \in Ids \ {id}  PROVE  Parts(i)' /\ BlockInv(i)'
  BY UntouchedParts DEF EngineInv, TypeOK, Untouched, Parts
<1>4. Parts(id)'
  BY DEF EngineInv, TypeOK, Parts, ContextInv, ResourceInv, StreamInv, LateInv,
         LoopInv, BeforeFrames, InBlock, InStream
<1>5. BlockInv(id)'
  BY SameBlocks DEF EngineInv, TypeOK, BlockInv, BeforeFrames, InBlock
<1> QED BY <1>1, <1>2, <1>3, <1>4, <1>5 DEF EngineInv, Parts

LEMMA EndSendInv ==
    ASSUME EngineInv, NEW id \in Ids, EndSend(id)
    PROVE  EngineInv'
<1> USE DEF EndSend, Goto, shared, coder, cursor, wire
<1>1. TypeOK'
  BY DEF EngineInv, TypeOK, Steps, SendSteps
<1>2. FramesInOrder'
  BY DEF EngineInv, FramesInOrder
<1>3. ASSUME NEW i \in Ids \ {id}  PROVE  Parts(i)' /\ BlockInv(i)'
  BY UntouchedParts DEF EngineInv, TypeOK, Untouched, Parts
<1>4. Parts(id)'
  BY DEF EngineInv, TypeOK, Parts, ContextInv, ResourceInv, StreamInv, LateInv,
         LoopInv, BeforeFrames, InBlock, InStream
<1>5. BlockInv(id)'
  BY SameBlocks DEF EngineInv, TypeOK, BlockInv, BeforeFrames, InBlock
<1> QED BY <1>1, <1>2, <1>3, <1>4, <1>5 DEF EngineInv, Parts

LEMMA EndReceiveInv ==
    ASSUME EngineInv, NEW id \in Ids, EndReceive(id)
    PROVE  EngineInv'
<1> USE DEF EndReceive, Goto, shared, coder, cursor, wire
<1>1. TypeOK'
  BY DEF EngineInv, TypeOK, Steps, SendSteps
<1>2. FramesInOrder'
  BY DEF EngineInv, FramesInOrder
<1>3. ASSUME NEW i \in Ids \ {id}  PROVE  Parts(i)' /\ BlockInv(i)'
  BY UntouchedParts DEF EngineInv, TypeOK, Untouched, Parts
<1>4. Parts(id)'
  BY DEF EngineInv, TypeOK, Parts, ContextInv, ResourceInv, StreamInv, LateInv,
         LoopInv, BeforeFrames, InBlock, InStream
<1>5. BlockInv(id)'
  BY SameBlocks DEF EngineInv, TypeOK, BlockInv, BeforeFrames, InBlock
<1> QED BY <1>1, <1>2, <1>3, <1>4, <1>5 DEF EngineInv, Parts

LEMMA SendHeaderInv ==
    ASSUME EngineInv, NEW id \in Ids, SendHeader(id)
    PROVE  EngineInv'
<1> USE DEF SendHeader, Goto, shared, coder, cursor, wire
<1>1. SentBehind(id, "FILE_HEADER", 0, 0)
  <2>1. frames[id] = << >>
    BY DEF EngineInv, StreamInv, BeforeFrames
  <2>2. \A j \in 1..Len(frames[id]) : frames[id][j].type # "COMPLETE"
    BY <2>1
  <2> QED BY <2>1, <2>2, SendInOrder DEF EngineInv, FrameTypes
<1>2. TypeOK'
  BY <1>1 DEF SentBehind, EngineInv, TypeOK, Steps, SendSteps
<1>3. ASSUME NEW i \in Ids \ {id}  PROVE  Parts(i)' /\ BlockInv(i)'
  BY <1>1, UntouchedParts DEF SentBehind, EngineInv, TypeOK, Untouched, Parts
<1>4. Parts(id)'
  BY <1>1
     DEF SentBehind, EngineInv, TypeOK, Parts, ContextInv, ResourceInv, StreamInv, LateInv,
         LoopInv, BeforeFrames, InBlock, InStream
<1>5. BlockInv(id)'
  <2>1. ASSUME active[id], NEW b \in 0..blockIdx[id] - 1
        PROVE  WhollySent(id, b)'
    BY <1>1, <2>1, WhollySentKept DEF EngineInv, BlockInv, SentBehind
  <2> QED BY <2>1 DEF EngineInv, TypeOK, BlockInv, InBlock, BeforeFrames
<1> QED BY <1>1, <1>2, <1>3, <1>4, <1>5 DEF EngineInv, Parts, SentBehind

LEMMA SendSymbolInv ==
    ASSUME EngineInv, NEW id \in Ids, SendSymbol(id)
    PROVE  EngineInv'
<1> USE DEF SendSymbol, Goto, shared, coder, cursor, wire
<1>1. SentBehind(id, "DATA_SYMBOL", blockIdx[id], symbolIdx[id])
  <2>1. /\ frames[id] # << >>
        /\ \A j \in 1..Len(frames[id]) : frames[id][j].type # "COMPLETE"
    BY DEF EngineInv, StreamInv, InStream, InBlock
  <2>2. blockIdx[id] \in Nat /\ symbolIdx[id] \in Nat
    BY DEF EngineInv, TypeOK
  <2> QED BY <2>1, <2>2, SendInOrder DEF EngineInv, FrameTypes
<1>2. TypeOK'
  <2>1. symbolIdx' \in [Ids -> Nat] /\ lateSymbols' \in [Ids -> Nat]
    BY DEF EngineInv, TypeOK
  <2> QED BY <1>1, <2>1 DEF SentBehind, EngineInv, TypeOK, Steps, SendSteps
<1>3. ASSUME NEW i \in Ids \ {id}  PROVE  Parts(i)' /\ BlockInv(i)'
  BY <1>1, UntouchedParts DEF SentBehind, EngineInv, TypeOK, Untouched, Parts
<1>4. Parts(id)'
  BY <1>1
     DEF SentBehind, EngineInv, TypeOK, Parts, ContextInv, ResourceInv, StreamInv, LateInv,
         LoopInv, BeforeFrames, InBlock, InStream
<1>5. BlockInv(id)'
  <2>1. ASSUME active[id], NEW b \in 0..blockIdx[id] - 1
        PROVE  WhollySent(id, b)'
    BY <1>1, <2>1, WhollySentKept DEF EngineInv, BlockInv, SentBehind
  <2>2. symbolIdx[id] \in Nat /\ symbolIdx'[id] = symbolIdx[id] + 1
    BY DEF EngineInv, TypeOK
  <2>3. \A c \in 0..symbolIdx[id] - 1 : Carried(id, blockIdx[id], c)
    BY DEF EngineInv, BlockInv, InBlock
  <2>4. ASSUME NEW c \in 0..symbolIdx'[id] - 1
        PROVE  Carried(id, blockIdx[id], c)'
    <3>1. CASE c = symbolIdx[id]
      BY <3>1, <1>1 DEF SentBehind, Carried, Sent
    <3>2. CASE c \in 0..symbolIdx[id] - 1
      BY <3>2, <2>3, <1>1, CarriedKept DEF SentBehind
    <3> QED BY <2>2, <3>1, <3>2
  <2>5. pc'[id] = "symbol" /\ Len(symbolCounts[id]) = blockIdx[id] + 1
    BY DEF EngineInv, TypeOK, BlockInv, InBlock
  <2>6. \A c \in 0..symbolIdx'[id] - 1 : Carried(id, blockIdx[id], c)'
    BY <2>4
  <2> QED BY <2>1, <2>5, <2>6 DEF BlockInv, InBlock, BeforeFrames
<1> QED BY <1>1, <1>2, <1>3, <1>4, <1>5 DEF EngineInv, Parts, SentBehind

LEMMA SendCompleteInv ==
    ASSUME EngineInv, NEW id \in Ids, SendComplete(id)
    PROVE  EngineInv'
<1> USE DEF SendComplete, Goto, shared, coder, cursor, wire
<1>1. SentBehind(id, "COMPLETE", 0, 0)
  <2>1. /\ frames[id] # << >>
        /\ \A j \in 1..Len(frames[id]) : frames[id][j].type # "COMPLETE"
    BY DEF EngineInv, StreamInv, InStream, InBlock
  <2> QED BY <2>1, SendInOrder DEF EngineInv, FrameTypes
<1>2. TypeOK'
  BY <1>1 DEF SentBehind, EngineInv, TypeOK, Steps, SendSteps
<1>3. ASSUME NEW i \in Ids \ {id}  PROVE  Parts(i)' /\ BlockInv(i)'
  BY <1>1, UntouchedParts DEF SentBehind, EngineInv, TypeOK, Untouched, Parts
<1>4. Parts(id)'
  BY <1>1
     DEF SentBehind, EngineInv, TypeOK, Parts, ContextInv, ResourceInv, StreamInv, LateInv,
         LoopInv, BeforeFrames, InBlock, InStream
<1>5. BlockInv(id)'
  <2>1. ASSUME active[id], NEW b \in 0..blockIdx[id] - 1
        PROVE  WhollySent(id, b)'
    BY <1>1, <2>1, WhollySentKept DEF EngineInv, BlockInv, SentBehind
  <2> QED BY <2>1 DEF EngineInv, TypeOK, BlockInv, InBlock, BeforeFrames
<1> QED BY <1>1, <1>2, <1>3, <1>4, <1>5 DEF EngineInv, Parts, SentBehind

LEMMA NextInv == EngineInv /\ [Next]_vars => EngineInv'
<1> SUFFICES ASSUME EngineInv, [Next]_vars  PROVE EngineInv'
  OBVIOUS
<1>1. CASE Calls
  BY <1>1, SendFileInv, ReceiveFileInv, CancelTransferInv, CancelAllInv,
     SetFecModeInv DEF Calls
<1>2. ASSUME NEW id \in Ids, Thread(id)  PROVE EngineInv'
  BY <1>2, OpenSocketInv, SocketFailsInv, MapFileInv, MapFailsInv, PickFecInv,
     SendHeaderInv, EncodeBlockInv, LeaveBlocksInv, NextSymbolInv,
     LeaveSymbolsInv, SendSymbolInv, CountBlockInv, SendCompleteInv,
     EndSendInv, EndReceiveInv DEF Thread, SendThread
<1>3. CASE UNCHANGED vars
  <2> USE <1>3 DEF vars, shared, coder, cursor, wire
  <2>1. TypeOK'
    BY DEF EngineInv, TypeOK
  <2>2. FramesInOrder'
    BY DEF EngineInv, FramesInOrder
  <2>3. ASSUME NEW i \in Ids  PROVE  Parts(i)' /\ BlockInv(i)'
    BY UntouchedParts DEF EngineInv, Untouched, Parts
  <2> QED BY <2>1, <2>2, <2>3 DEF EngineInv, Parts
<1> QED BY <1>1, <1>2, <1>3 DEF Next

(* The inductive invariant holds in every reachable state, whatever calls the
   application makes while the threads run. *)
THEOREM EngineCorrect == Spec => []EngineInv
BY InitInv, NextInv, PTL DEF Spec

-----------------------------------------------------------------------------
(* The properties the runs check *)

(* Every state of the engine has the types of TypeOK: a block counter never
   passes the file, a resource set never holds anything else. *)
THEOREM TypeCorrect == Spec => []TypeOK
<1>1. EngineInv => TypeOK
  BY DEF EngineInv
<1> QED BY <1>1, EngineCorrect, PTL

(* The sequence numbers of every transfer are dense, FILE_HEADER is first and
   nothing follows COMPLETE, under every interleaving. *)
THEOREM FramesAlwaysInOrder == Spec => []FramesInOrder
<1>1. EngineInv => FramesInOrder
  BY DEF EngineInv
<1> QED BY <1>1, EngineCorrect, PTL

(* At most one symbol goes out after a cancel, for any file and any block. *)
THEOREM CancelAlwaysStops == Spec => []CancelStopsSymbols
<1>1. EngineInv => CancelStopsSymbols
  BY DEF EngineInv, LateInv, CancelStopsSymbols
<1> QED BY <1>1, EngineCorrect, PTL

(* While a transfer is not cancelled, every symbol encoded for a counted block
   has been handed to the socket. *)
THEOREM ProgressAlwaysHonest == Spec => []ProgressHonest
<1>1. EngineInv => ProgressHonest
  BY DEF EngineInv, LoopInv, BlockInv, ProgressHonest
<1> QED BY <1>1, EngineCorrect, PTL

(* A thread that has returned holds no socket and no mapping, whichever of its
   return statements it took. *)
THEOREM EndedAlwaysClean == Spec => []EndedIsClean
<1>1. EngineInv => EndedIsClean
  BY DEF EngineInv, ResourceInv, EndedIsClean
<1> QED BY <1>1, EngineCorrect, PTL

(* No call and no thread step reactivates a transfer or forgets it, which is
   what create_transfer's refusal of a known identifier is for. *)
THEOREM CancelAlwaysFinal == Spec => CancelIsFinal
<1>1. EngineInv /\ [Next]_vars => [NoRevival]_vars
  <2> SUFFICES ASSUME EngineInv, Next  PROVE NoRevival
    OBVIOUS
  <2> USE DEF NoRevival, EngineInv, TypeOK, shared, coder, cursor, wire
  <2>1. CASE Calls
    BY <2>1 DEF Calls, SendFile, ReceiveFile, CreateTransfer, CancelTransfer,
                CancelAll, SetFecMode
  <2>2. ASSUME NEW id \in Ids, Thread(id)  PROVE NoRevival
    BY <2>2
       DEF Thread, SendThread, Goto, OpenSocket, SocketFails, MapFile, MapFails,
           PickFec, SendHeader, EncodeBlock, LeaveBlocks, NextSymbol,
           LeaveSymbols, SendSymbol, CountBlock, SendComplete, EndSend,
           EndReceive
  <2> QED BY <2>1, <2>2 DEF Next
<1> QED BY <1>1, EngineCorrect, PTL DEF Spec, CancelIsFinal

-----------------------------------------------------------------------------
(* Refinement *)

LEMMA HandleInit == Init => Handle!Init
BY DEF Init, Handle!Init

LEMMA CallsImplement ==
    ASSUME EngineInv, Calls
    PROVE  [Handle!Next]_(Handle!vars)
<1> USE EngineAssumption
    DEF EngineInv, TypeOK, shared, coder, cursor, wire
<1>1. ASSUME NEW id \in Ids, NEW n \in 1..MaxBlocks, SendFile(id, n)
      PROVE  Handle!Next
  <2>1. Handle!Launch(id, n)
    BY <1>1 DEF SendFile, CreateTransfer, Handle!Launch, ContextInv, LoopInv,
                BeforeFrames
  <2> QED BY <2>1 DEF Handle!Next
<1>2. ASSUME NEW id \in Ids, ReceiveFile(id)  PROVE Handle!Next
  <2>1. Handle!Launch(id, 0)
    BY <1>2 DEF ReceiveFile, CreateTransfer, Handle!Launch, ContextInv, LoopInv,
                BeforeFrames
  <2> QED BY <2>1 DEF Handle!Next
<1>3. ASSUME NEW id \in Ids, CancelTransfer(id)  PROVE Handle!Next
  <2>1. Handle!Stop({id})
    BY <1>3 DEF CancelTransfer, Handle!Stop
  <2> QED BY <1>3, <2>1 DEF CancelTransfer, Handle!Next
<1>4. ASSUME CancelAll  PROVE Handle!Next
  <2>1. Handle!Stop(transfers)
    BY <1>4 DEF CancelAll, Handle!Stop
  <2> QED BY <2>1 DEF Handle!Next
<1>5. ASSUME NEW mode \in Modes, SetFecMode(mode)
      PROVE  UNCHANGED Handle!vars
  BY <1>5 DEF SetFecMode, Handle!vars
<1> QED BY <1>1, <1>2, <1>3, <1>4, <1>5 DEF Calls

LEMMA ThreadImplements ==
    ASSUME EngineInv, NEW id \in Ids, Thread(id)
    PROVE  [Handle!Next]_(Handle!vars)
<1> USE DEF EngineInv, TypeOK, Goto, shared, coder, cursor, wire
<1>1. ASSUME \/ OpenSocket(id) \/ MapFile(id) \/ PickFec(id)
             \/ SendHeader(id) \/ EncodeBlock(id) \/ LeaveBlocks(id)
             \/ NextSymbol(id) \/ LeaveSymbols(id) \/ SendSymbol(id)
             \/ SendComplete(id)
      PROVE  UNCHANGED Handle!vars
  BY <1>1, SMTT(30) DEF OpenSocket, MapFile, PickFec, SendHeader, EncodeBlock,
              LeaveBlocks, NextSymbol, LeaveSymbols, SendSymbol, SendComplete,
              Handle!vars
<1>2. ASSUME CountBlock(id)  PROVE Handle!Count(id)
  BY <1>2 DEF CountBlock, Handle!Count, ContextInv, LoopInv, InBlock
<1>3. ASSUME \/ SocketFails(id) \/ MapFails(id) \/ EndSend(id)
             \/ EndReceive(id)
      PROVE  Handle!End(id)
  <2>1. CASE SocketFails(id)
    BY <2>1 DEF SocketFails, Handle!End, ContextInv, LoopInv, BeforeFrames
  <2>2. CASE MapFails(id)
    BY <2>2 DEF MapFails, Handle!End, ContextInv, LoopInv, BeforeFrames
  <2>3. CASE EndSend(id)
    BY <2>3 DEF EndSend, Handle!End, ContextInv, LoopInv
  <2>4. CASE EndReceive(id)
    BY <2>4 DEF EndReceive, Handle!End, ContextInv, LoopInv, BeforeFrames
  <2> QED BY <1>3, <2>1, <2>2, <2>3, <2>4
<1> QED BY <1>1, <1>2, <1>3 DEF Thread, SendThread, Handle!Next

(* The engine implements the caller's view of turbolink_engine.h: an
   identifier is launched at most once, progress only counts forward up to the
   file's size, a stop is final, and an unstopped transfer ends with all blocks
   counted or none. *)
THEOREM EngineImplementsHandle == Spec => HandleSpec
<1>1. EngineInv /\ [Next]_vars => [Handle!Next]_(Handle!vars)
  <2> SUFFICES ASSUME EngineInv, [Next]_vars
               PROVE  [Handle!Next]_(Handle!vars)
    OBVIOUS
  <2>1. CASE UNCHANGED vars
    BY <2>1 DEF vars, shared, coder, cursor, wire, Handle!vars
  <2> QED BY <2>1, CallsImplement, ThreadImplements DEF Next
<1> QED BY <1>1, HandleInit, EngineCorrect, PTL DEF Spec, HandleSpec, Handle!Spec
=============================================================================
