------------------------------- MODULE BlockPath -------------------------------
(***************************************************************************)
(* What happens to the bytes of a file between the sender's mapping and    *)
(* the receiver's: each block is compressed, encrypted, encoded and sent   *)
(* as DATA_SYMBOL datagrams (steps A to D of send_thread_func), which the  *)
(* network loses, repeats and reorders as it likes, and goes back through  *)
(* rs_decode and tl_decrypt.  TransferEngine has the same loop with its    *)
(* threads and cancels and without the bytes; a cancelled loop is here a   *)
(* loss of the datagrams it does not send.                                 *)
(*                                                                         *)
(* recv_thread_func is a stub, whose comment says that receiving mirrors   *)
(* the send pipeline.  The receiver here is the caller that comment        *)
(* describes: it keeps the symbols of a block in order of arrival, knows   *)
(* the length the block was encoded from, and calls rs_decode when it has  *)
(* at least K of them; rs_decode looks at the first K.                     *)
(***************************************************************************)
EXTENDS ReedSolomon, Cipher, SequencesExt

CONSTANTS Files,      \* the files sent, sequences of bytes
          BlockSize   \* bytes of a block (1 MB)

VARIABLES file,      \* the mapped file
          tableEnd,  \* at each end, what gf_exp[255] reads as, see GaloisField
          next,      \* block_idx of the send loop
          encoded,   \* the compressed form of each block sent
          frames,    \* the DATA_SYMBOL datagrams handed to the socket
          arrived,   \* of each block, the datagrams received, in order
          work,      \* the elimination under way, if any
          result     \* what became of each block at the receiver

vars == <<file, tableEnd, next, encoded, frames, arrived, work, result>>

ASSUME PathAssumption ==
    /\ BlockSize \in Nat \ {0}
    /\ \A f \in Files : f \in Seq(Byte) /\ f # << >>

TotalBlocks(size) == (size + BlockSize - 1) \div BlockSize

Ends == {"sender", "receiver"}

Exact == \A e \in Ends : tableEnd[e] = One

Blocks == 0..TotalBlocks(Len(file)) - 1

GetBlock_OneShort(b) ==
    SubSeq(file, b * BlockSize + 1, Min({Len(file), (b + 1) * BlockSize - 1}))

(* tl_mmap_get_block: the last block may be short. *)
GetBlock(b) == SubSeq(file, b * BlockSize + 1,
                      IF Len(file) - b * BlockSize < BlockSize
                      THEN Len(file) ELSE (b + 1) * BlockSize)

(* tl_compress without zstd copies the block.  Its error, which zstd can
   also report, is the length 0: the sender goes on with an empty block. *)
Compressed(block) == {block, << >>}

Length(b) == Len(encoded[b]) + TagSize

K(b) == SourceCount(Length(b))

Idle == [on |-> FALSE]

Pending == [status |-> "pending", data |-> << >>]

Init ==
    /\ file \in Files
    /\ tableEnd \in [Ends -> {Zero, One}]
    /\ next = 0
    /\ encoded = << >>
    /\ frames = {}
    /\ arrived = [b \in Blocks |-> << >>]
    /\ work = Idle
    /\ result = [b \in Blocks |-> Pending]

SendBlock_CountsFromOne ==
    /\ next \in Blocks
    /\ \E data \in Compressed(GetBlock(next)) :
          LET symbols == Encode(tableEnd["sender"], Encrypt(data, MakeNonce(next)))
          IN  /\ encoded' = [b \in 0..next |-> IF b = next THEN data ELSE encoded[b]]
              /\ frames' = frames \cup
                    {[block |-> next, symbol |-> i + 1, data |-> symbols[i]] :
                        i \in DOMAIN symbols}
    /\ next' = next + 1
    /\ UNCHANGED <<file, tableEnd, arrived, work, result>>

SendBlock ==
    /\ next \in Blocks
    /\ \E data \in Compressed(GetBlock(next)) :
          LET symbols == Encode(tableEnd["sender"], Encrypt(data, MakeNonce(next)))
          IN  /\ encoded' = [b \in 0..next |-> IF b = next THEN data ELSE encoded[b]]
              /\ frames' = frames \cup
                    {[block |-> next, symbol |-> i, data |-> symbols[i]] :
                        i \in DOMAIN symbols}
    /\ next' = next + 1
    /\ UNCHANGED <<file, tableEnd, arrived, work, result>>

(* Any datagram sent so far, in any order and more than once.  Bound: no
   more than the K symbols rs_decode looks at. *)
Arrive(f) ==
    /\ ~work.on
    /\ Len(arrived[f.block]) < K(f.block)
    /\ arrived' = [arrived EXCEPT ![f.block] = Append(@, f)]
    /\ UNCHANGED <<file, tableEnd, next, encoded, frames, work, result>>

Received(b) ==
    LET k == K(b) IN [m |-> [i \in 0..k - 1 |-> Row(arrived[b][i + 1].symbol, k)],
                      id |-> Identity(k)]

(* rs_decode is refused with fewer than K symbols; with K it builds the rows
   of the received symbols ... *)
StartDecode(b) ==
    /\ ~work.on
    /\ result[b] = Pending
    /\ b < next
    /\ Len(arrived[b]) >= K(b)
    /\ work' = [on |-> TRUE, block |-> b, i |-> 0,
                m |-> Received(b).m, id |-> Received(b).id]
    /\ UNCHANGED <<file, tableEnd, next, encoded, frames, arrived, result>>

(* ... inverts them pivot by pivot ... *)
Pivot ==
    /\ work.on
    /\ work.i < K(work.block)
    /\ Candidates(work.m, work.i) # {}
    /\ work' = LET p == Pivoted(tableEnd["receiver"], work.m, work.id, work.i)
               IN  [work EXCEPT !.i = @ + 1, !.m = p.m, !.id = p.id]
    /\ UNCHANGED <<file, tableEnd, next, encoded, frames, arrived, result>>

EndsAs(b, status, data) ==
    /\ work' = Idle
    /\ result' = [result EXCEPT ![b] = [status |-> status, data |-> data]]
    /\ UNCHANGED <<file, tableEnd, next, encoded, frames, arrived>>

Singular ==
    /\ work.on
    /\ work.i < K(work.block)
    /\ Candidates(work.m, work.i) = {}
    /\ EndsAs(work.block, "singular", << >>)

(* ... and applies the inverse; the block is then decrypted, or refused. *)
Finish ==
    LET b        == work.block
        received == [i \in 0..K(b) - 1 |-> arrived[b][i + 1].data]
        plain    == Decrypt(Recovered(tableEnd["receiver"], work.id, received, Length(b)),
                              MakeNonce(b))
    IN  /\ work.on
        /\ work.i = K(b)
        /\ EndsAs(b, IF plain.ok THEN "restored" ELSE "refused", plain.data)

Decode == \/ \E b \in Blocks : StartDecode(b)
          \/ Pivot
          \/ Singular
          \/ Finish

Next == SendBlock \/ (\E f \in frames : Arrive(f)) \/ Decode

Spec == Init /\ [][Next]_vars

-----------------------------------------------------------------------------
(* Properties *)

Frame == [block : Blocks, symbol : 0..FieldLimit - 1,
          data : [1..SymbolSize -> Byte]]

(* Also: every symbol of a block is numbered below its count, which is what
   bounds the row of the matrix the receiver reads. *)
TypeOK ==
    /\ next \in 0..TotalBlocks(Len(file))
    /\ \A b \in 0..next - 1 : encoded[b] \in Seq(Byte)
    /\ \A f \in frames : f \in Frame /\ f.symbol < SymbolCount(Length(f.block))
    /\ \A b \in Blocks : arrived[b] \in Seq(frames)
    /\ work.on => work.block \in Blocks /\ work.i \in 0..K(work.block)
    /\ \A b \in Blocks :
          result[b].status \in {"pending", "singular", "refused", "restored"}

Distinct(b) ==
    \A i, j \in 1..K(b) : arrived[b][i].symbol = arrived[b][j].symbol => i = j

(* Any K distinct symbols of a block, source or repair and in any order of
   arrival, give back the bytes that were compressed, as long as the tables
   are exact (entry 255 is 1).  This is about blocks as small as the run's: with
   four repair symbols, from K = 22 on, some K distinct ones do not
   (ReedSolomonProofs, BlockPathProofs). *)
AnyKIfExact ==
    \A b \in Blocks :
        Exact /\ result[b] # Pending /\ Distinct(b) =>
            result[b] = [status |-> "restored", data |-> encoded[b]]

Product(end, a, b, row, col) ==
    XorOver(DOMAIN a, [j \in DOMAIN a |-> Mul(end, a[row][j], b[j][col])])

Ended(statuses) == {b \in Blocks : result[b].status \in statuses}

Promise == INSTANCE Delivery WITH
    blocks    <- [b \in Blocks |-> GetBlock(b)],
    sent      <- encoded,
    delivered <- {<<b, result[b].data>> : b \in Ended({"restored"})},
    lost      <- Ended({"singular", "refused"})

(* The path implements Delivery: whatever the tables of either end hold, a block
   that decodes to other bytes than were encoded is refused by the tag, never
   passed on, and what has become of a block stays. *)
DeliverySpec == Promise!Spec

(* The loop invariant of rs_invert_matrix: the second matrix times the rows
   received is the first, whose columns before the pivot are unit columns. *)
EliminationSound ==
    work.on /\ tableEnd["receiver"] = One =>
        \A row, col \in 0..K(work.block) - 1 :
            /\ Product(One, work.id, Received(work.block).m, row, col)
                  = work.m[row][col]
            /\ col < work.i =>
                  work.m[row][col] = (IF row = col THEN One ELSE Zero)

(* The blocks put together in order are the file, when the tables are exact
   and no block was lost to a failed compression. *)
FileRestored ==
    /\ Exact
    /\ next = TotalBlocks(Len(file))
    /\ \A b \in Blocks : result[b].status = "restored" /\ encoded[b] # << >>
    => FlattenSeq([i \in 1..next |-> result[i - 1].data]) = file

-----------------------------------------------------------------------------
(* What the documentation says and the code does not do *)

(* fec_interface.h: any K of the N symbols can reconstruct the original
   block. *)
AnyKRecovers ==
    \A b \in Blocks :
        result[b] # Pending /\ Distinct(b) =>
            result[b] = [status |-> "restored", data |-> encoded[b]]
=============================================================================
