--------------------------- MODULE BlockPathProofs ---------------------------
(***************************************************************************)
(* Theorems about BlockPath for every file, size of block and of symbol,   *)
(* number of repair symbols, key stream and tag.                           *)
(***************************************************************************)
EXTENDS BlockPath, ReedSolomonProofs

(* The key stream and the tag are bytes, as many as they should be. *)
PrimitivesTyped ==
    /\ \A i, counter \in Nat : Keystream(MakeNonce(i), counter) \in [1..KeyBlock -> Byte]
    /\ \A key \in [1..KeyBlock -> Byte], ct \in Seq(Byte) :
          Tag(key, ct) \in Seq(Byte) /\ Len(Tag(key, ct)) = TagSize

-----------------------------------------------------------------------------
(* The cipher *)

LEMMA Chacha20XorType ==
    ASSUME PrimitivesTyped, NEW in \in Seq(Byte), NEW i \in Nat
    PROVE  /\ Chacha20Xor(in, MakeNonce(i), 1) \in Seq(Byte)
           /\ Len(Chacha20Xor(in, MakeNonce(i), 1)) = Len(in)
<1> DEFINE counter(p) == 1 + (p - 1) \div KeyBlock
           q(p) == ((p - 1) % KeyBlock) + 1
           out == [p \in 1..Len(in) |-> Xor(in[p], Keystream(MakeNonce(i), counter(p))[q(p)])]
<1>1. ASSUME NEW p \in 1..Len(in)
      PROVE  out[p] \in Byte
  <2>1. KeyBlock \in Nat /\ KeyBlock > 0 /\ p - 1 \in Nat
    BY CipherAssumption
  <2>2. counter(p) \in Nat /\ q(p) \in 1..KeyBlock
    BY <2>1
  <2>3. in[p] \in Byte
    BY ElementOfSeq
  <2> HIDE DEF counter, q
  <2>4. Keystream(MakeNonce(i), counter(p))[q(p)] \in Byte
    BY <2>2 DEF PrimitivesTyped
  <2> QED BY <2>3, <2>4, XorLaws
<1>2. Chacha20Xor(in, MakeNonce(i), 1) = out
  BY DEF Chacha20Xor
<1>3. out \in [1..Len(in) -> Byte] /\ Len(in) \in Nat
  <2>1. out = [p \in 1..Len(in) |-> out[p]]
    OBVIOUS
  <2> HIDE DEF out
  <2> QED BY <1>1, <2>1, LenProperties
<1> HIDE DEF out
<1>4. out \in Seq(Byte) /\ Len(out) = Len(in)
  <2>1. out \in Seq(Byte)
    BY <1>3, SeqDef
  <2>2. DOMAIN out = 1..Len(in) /\ DOMAIN out = 1..Len(out) /\ Len(out) \in Nat
    BY <1>3, <2>1, LenProperties
  <2> QED BY <1>3, <2>1, <2>2
<1> QED BY <1>2, <1>4

(* The key stream is laid over the data twice and is gone. *)
LEMMA Chacha20XorTwice ==
    ASSUME PrimitivesTyped, NEW in \in Seq(Byte), NEW i \in Nat
    PROVE  Chacha20Xor(Chacha20Xor(in, MakeNonce(i), 1), MakeNonce(i), 1) = in
<1> DEFINE key(p) == Keystream(MakeNonce(i), 1 + (p - 1) \div KeyBlock)[((p - 1) % KeyBlock) + 1]
           out == Chacha20Xor(in, MakeNonce(i), 1)
<1>1. Len(out) = Len(in)
  BY Chacha20XorType
<1>2. out = [p \in 1..Len(in) |-> Xor(in[p], key(p))]
  BY DEF Chacha20Xor
<1>3. Chacha20Xor(out, MakeNonce(i), 1) = [p \in 1..Len(in) |-> Xor(out[p], key(p))]
  BY <1>1 DEF Chacha20Xor
<1> HIDE DEF key, out
<1>4. \A p \in 1..Len(in) : Xor(out[p], key(p)) = in[p]
  BY <1>2 DEF Xor
<1>5. in = [p \in 1..Len(in) |-> in[p]]
  BY LenProperties
<1> QED BY <1>3, <1>4, <1>5 DEF out

LEMMA EncryptType ==
    ASSUME PrimitivesTyped, NEW pt \in Seq(Byte), NEW i \in Nat
    PROVE  /\ Encrypt(pt, MakeNonce(i)) \in Seq(Byte)
           /\ Len(Encrypt(pt, MakeNonce(i))) = Len(pt) + TagSize
<1> DEFINE ct == Chacha20Xor(pt, MakeNonce(i), 1)
           tag == Tag(Keystream(MakeNonce(i), 0), ct)
<1>1. ct \in Seq(Byte) /\ Len(ct) = Len(pt)
  BY Chacha20XorType
<1>2. tag \in Seq(Byte) /\ Len(tag) = TagSize
  BY <1>1 DEF PrimitivesTyped
<1>3. Encrypt(pt, MakeNonce(i)) = ct \o tag
  BY DEF Encrypt
<1> HIDE DEF ct, tag
<1>4. ct \o tag \in Seq(Byte) /\ Len(ct \o tag) = Len(ct) + Len(tag)
  BY <1>1, <1>2, ConcatProperties
<1> QED BY <1>1, <1>2, <1>3, <1>4

(* What tl_encrypt made of a block tl_decrypt accepts, and gives it back. *)
THEOREM DecryptUndoesEncrypt ==
    ASSUME PrimitivesTyped, NEW pt \in Seq(Byte), NEW i \in Nat
    PROVE  Decrypt(Encrypt(pt, MakeNonce(i)), MakeNonce(i)) = [ok |-> TRUE, data |-> pt]
<1> DEFINE ct == Chacha20Xor(pt, MakeNonce(i), 1)
           tag == Tag(Keystream(MakeNonce(i), 0), ct)
           c == Encrypt(pt, MakeNonce(i))
<1>1. ct \in Seq(Byte) /\ Len(ct) = Len(pt) /\ Len(pt) \in Nat
  BY Chacha20XorType, LenProperties
<1>2. tag \in Seq(Byte) /\ Len(tag) = TagSize /\ TagSize \in Nat
  BY <1>1, CipherAssumption DEF PrimitivesTyped
<1>3. c = ct \o tag
  BY DEF Encrypt
<1>4. Len(c) = Len(ct) + Len(tag)
  BY <1>1, <1>2, EncryptType
<1>5. Chacha20Xor(ct, MakeNonce(i), 1) = pt
  BY Chacha20XorTwice
<1>6. Tag(Keystream(MakeNonce(i), 0), ct) = tag
  OBVIOUS
<1> HIDE DEF ct, tag, c
<1>7. SubSeq(c, 1, Len(ct)) = ct /\ SubSeq(c, Len(ct) + 1, Len(ct) + Len(tag)) = tag
  BY <1>1, <1>2, <1>3, SubSeqOfConcat1, SubSeqOfConcat2
<1>8. Len(c) - TagSize = Len(ct) /\ ~(Len(ct) < 0)
  BY <1>1, <1>2, <1>4
<1>9. Decrypt(c, MakeNonce(i)) = [ok |-> TRUE, data |-> Chacha20Xor(ct, MakeNonce(i), 1)]
  BY <1>4, <1>6, <1>7, <1>8 DEF Decrypt
<1> QED BY <1>5, <1>9 DEF c

-----------------------------------------------------------------------------
(* The invariant *)

Ciphertext(b) == Encrypt(encoded[b], MakeNonce(b))

(* What was handed to the socket are the symbols of the blocks sent. *)
SenderInv ==
    /\ file \in Files
    /\ tableEnd \in [Ends -> {Zero, One}]
    /\ next \in 0..TotalBlocks(Len(file))
    /\ \A b \in 0..next - 1 : encoded[b] \in Compressed(GetBlock(b))
    /\ \A f \in frames :
          /\ f.block \in 0..next - 1
          /\ f.symbol \in 0..SymbolCount(Length(f.block)) - 1
          /\ f = [block |-> f.block, symbol |-> f.symbol,
                  data |-> Encode(tableEnd["sender"], Ciphertext(f.block))[f.symbol]]

ArrivedInv ==
    /\ arrived \in [Blocks -> Seq(frames)]
    /\ \A b \in Blocks : \A i \in 1..Len(arrived[b]) : arrived[b][i].block = b

(* An elimination under way keeps the loop invariant of rs_invert_matrix. *)
WorkInv ==
    work # Idle =>
        /\ DOMAIN work = {"on", "block", "i", "m", "id"} /\ work.on
        /\ work.block \in 0..next - 1
        /\ work.i \in 0..K(work.block)
        /\ result[work.block] = Pending
        /\ Len(arrived[work.block]) >= K(work.block)
        /\ tableEnd["receiver"] = One =>
              Eliminated(K(work.block), Received(work.block).m, work.m, work.id, work.i)

Fails == [status |-> "singular", data |-> << >>]

Succeeds(b) == [status |-> "restored", data |-> encoded[b]]

(* The symbols that count tell all blocks apart. *)
Decodable(b) == Regular(K(b), Received(b).m)

(* With exact tables at both ends a decode ends in one of two ways: the rows
   have no inverse, or the bytes that were compressed are back. *)
RightOrSingular ==
    \A b \in Blocks : Exact /\ result[b] # Pending => result[b] \in {Fails, Succeeds(b)}

(* The rows are found to have no inverse exactly when they map two blocks to the
   same symbols: neither does rs_invert_matrix give up too early, nor does it miss
   a matrix that cannot be inverted. *)
RegularDecides ==
    \A b \in Blocks :
        result[b] # Pending /\ tableEnd["receiver"] = One
            => (result[b] = Fails <=> ~Decodable(b))

ResultInv ==
    /\ result = [b \in Blocks |-> result[b]]
    /\ \A b \in Blocks :
          /\ result[b].status \in {"pending", "singular", "refused", "restored"}
          /\ result[b] # Pending => b < next /\ Len(arrived[b]) >= K(b)
    /\ RightOrSingular
    /\ RegularDecides

PathInv == SenderInv /\ ArrivedInv /\ WorkInv /\ ResultInv

-----------------------------------------------------------------------------
(* Facts about blocks *)

LEMMA TotalBlocksType ==
    ASSUME NEW size \in Nat
    PROVE  TotalBlocks(size) \in Nat
BY PathAssumption DEF TotalBlocks

(* A block of the file is a sequence of bytes that starts inside the file. *)
LEMMA GetBlockType ==
    ASSUME file \in Seq(Byte), NEW b \in Blocks
    PROVE  /\ GetBlock(b) \in Seq(Byte)
           /\ b * BlockSize \in Nat
           /\ b * BlockSize < Len(file)
<1> DEFINE s == b * BlockSize
           n == Len(file) + BlockSize - 1
           end == IF Len(file) - s < BlockSize THEN Len(file) ELSE (b + 1) * BlockSize
<1>1. Len(file) \in Nat /\ BlockSize \in Nat /\ BlockSize > 0
  BY PathAssumption, LenProperties
<1>2. b \in Nat /\ b < n \div BlockSize
  BY <1>1 DEF Blocks, TotalBlocks
<1>3. s \in Nat /\ (b + 1) * BlockSize = s + BlockSize
  BY <1>1, <1>2
<1>4. n \in Nat
  BY <1>1
<1>5. BlockSize * (n \div BlockSize) <= n
  <2> HIDE DEF n
  <2> QED BY <1>1, <1>4
<1>6. s + BlockSize <= BlockSize * (n \div BlockSize)
  <2> DEFINE q == n \div BlockSize
  <2>1. q \in Nat /\ b + 1 <= q
    BY <1>1, <1>2, <1>4
  <2> HIDE DEF q, s
  <2>2. (b + 1) * BlockSize <= BlockSize * q
    BY <1>1, <1>2, <2>1
  <2> QED BY <1>3, <2>2 DEF q
<1>7. s < Len(file)
  BY <1>1, <1>3, <1>4, <1>5, <1>6
<1>8. end \in Nat /\ end <= Len(file)
  BY <1>1, <1>3, <1>7
<1>9. \A i \in s + 1 .. end : file[i] \in Byte
  BY <1>1, <1>3, <1>8, ElementOfSeq
<1>10. GetBlock(b) = SubSeq(file, s + 1, end)
  BY DEF GetBlock
<1> HIDE DEF s, end
<1>11. SubSeq(file, s + 1, end) \in Seq(Byte)
  BY <1>3, <1>8, <1>9, SubSeqProperties
<1> QED BY <1>3, <1>7, <1>10, <1>11 DEF s

(* The blocks sent are blocks of the file, and their lengths add up. *)
LEMMA SentType ==
    ASSUME PrimitivesTyped, SenderInv, NEW b \in 0..next - 1
    PROVE  /\ b \in Blocks
           /\ encoded[b] \in Seq(Byte)
           /\ Length(b) \in Nat
           /\ K(b) \in Nat
           /\ Ciphertext(b) \in Seq(Byte)
           /\ Len(Ciphertext(b)) = Length(b)
<1>1. file \in Seq(Byte)
  BY PathAssumption DEF SenderInv
<1>2. TotalBlocks(Len(file)) \in Nat /\ next \in 0..TotalBlocks(Len(file))
  BY <1>1, LenProperties, TotalBlocksType DEF SenderInv
<1>3. b \in Blocks /\ b \in Nat
  BY <1>2 DEF Blocks
<1>4. GetBlock(b) \in Seq(Byte)
  BY <1>1, <1>3, GetBlockType
<1>5. encoded[b] \in Seq(Byte)
  BY <1>4, EmptySeq DEF SenderInv, Compressed
<1>6. Length(b) \in Nat
  BY <1>5, LenProperties, CipherAssumption DEF Length
<1>7. K(b) \in Nat
  BY <1>6, SourceCountType DEF K
<1>8. Ciphertext(b) \in Seq(Byte) /\ Len(Ciphertext(b)) = Length(b)
  BY <1>3, <1>5, EncryptType DEF Ciphertext, Length
<1> QED BY <1>3, <1>5, <1>6, <1>7, <1>8

(* What a block's terms depend on. *)
LEMMA SameBlock ==
    ASSUME NEW b, encoded'[b] = encoded[b]
    PROVE  /\ Length(b)' = Length(b)
           /\ K(b)' = K(b)
           /\ Ciphertext(b)' = Ciphertext(b)
           /\ Succeeds(b)' = Succeeds(b)
           /\ arrived'[b] = arrived[b] => /\ Received(b)' = Received(b)
                                          /\ Decodable(b)' <=> Decodable(b)
<1>1. Length(b)' = Length(b)
  BY DEF Length
<1>2. K(b)' = K(b)
  BY <1>1 DEF K
<1>3. Ciphertext(b)' = Ciphertext(b) /\ Succeeds(b)' = Succeeds(b)
  BY DEF Ciphertext, Succeeds
<1>4. ASSUME arrived'[b] = arrived[b]
      PROVE  Received(b)' = Received(b) /\ (Decodable(b)' <=> Decodable(b))
  <2>1. Received(b)' = Received(b)
    BY <1>2, <1>4 DEF Received
  <2> QED BY <1>2, <2>1 DEF Decodable
<1> QED BY <1>1, <1>2, <1>3, <1>4

-----------------------------------------------------------------------------
(* The invariant is inductive *)

LEMMA InitPathInv == Init => PathInv
<1> SUFFICES ASSUME Init
             PROVE  PathInv
  OBVIOUS
<1>1. file \in Seq(Byte) /\ TotalBlocks(Len(file)) \in Nat
  BY PathAssumption, LenProperties, TotalBlocksType DEF Init
<1>2. SenderInv
  BY <1>1 DEF Init, SenderInv
<1>3. ArrivedInv
  <2>1. \A b \in Blocks : arrived[b] = << >>
    BY DEF Init
  <2>2. << >> \in Seq(frames) /\ Len(<< >>) = 0
    BY EmptySeq
  <2>3. arrived \in [Blocks -> Seq(frames)]
    BY <2>2 DEF Init
  <2> QED BY <2>1, <2>2, <2>3 DEF ArrivedInv
<1>4. WorkInv
  BY DEF Init, WorkInv
<1>5. ResultInv
  <2>1. \A b \in Blocks : result[b] = Pending
    BY DEF Init
  <2>2. result = [b \in Blocks |-> result[b]]
    BY DEF Init
  <2>3. Pending.status = "pending"
    BY DEF Pending
  <2> QED BY <2>1, <2>2, <2>3 DEF ResultInv, RightOrSingular, RegularDecides
<1> QED BY <1>2, <1>3, <1>4, <1>5 DEF PathInv

LEMMA SeqOfMore ==
    ASSUME NEW S, NEW T, S \subseteq T, NEW s \in Seq(S)
    PROVE  s \in Seq(T)
<1>1. s \in [1..Len(s) -> S] /\ Len(s) \in Nat
  BY LenProperties
<1>2. s \in [1..Len(s) -> T]
  BY <1>1
<1> QED BY <1>1, <1>2, SeqDef

(* A step that changes nothing of the blocks sent, and neither what is being
   decoded nor what was, keeps the last two parts. *)
LEMMA DecodedKept ==
    ASSUME PathInv, UNCHANGED <<file, tableEnd, work, result>>, next' \in Nat, next' >= next,
           \A b \in 0..next - 1 : encoded'[b] = encoded[b],
           \A b \in 0..next - 1 : work.on \/ result[b] # Pending => arrived'[b] = arrived[b]
    PROVE  WorkInv' /\ ResultInv'
<1>1. next \in Nat /\ Blocks' = Blocks /\ \A b \in Blocks : b \in Nat
  BY PathAssumption, LenProperties, TotalBlocksType DEF PathInv, SenderInv, Blocks
<1>2. WorkInv'
  <2> SUFFICES ASSUME work # Idle
               PROVE  WorkInv'
    BY DEF WorkInv
  <2>1. work.block \in 0..next - 1 /\ work.on
    BY DEF PathInv, WorkInv
  <2>2. PICK w \in 0..next - 1 : w = work.block
    BY <2>1
  <2>3. encoded'[w] = encoded[w] /\ arrived'[w] = arrived[w]
    BY <2>1
  <2>4. K(w)' = K(w) /\ Received(w)' = Received(w)
    BY <2>3, SameBlock
  <2>5. K(work.block)' = K(w)' /\ Received(work.block)' = Received(w)'
    BY <2>2 DEF K, Length, Received
  <2>6. K(work.block)' = K(work.block) /\ Received(work.block)' = Received(work.block)
    BY <2>2, <2>4, <2>5 DEF K, Length, Received
  <2>7. arrived'[work.block] = arrived[work.block]
    BY <2>2, <2>3
  <2> QED BY <1>1, <2>1, <2>6, <2>7 DEF PathInv, WorkInv
<1>3. ResultInv'
  <2>1. ASSUME NEW b \in Blocks, result[b] # Pending
        PROVE  /\ b < next /\ Len(arrived'[b]) >= K(b)'
               /\ Succeeds(b)' = Succeeds(b)
               /\ (Decodable(b)' <=> Decodable(b))
    <3>1. b \in 0..next - 1 /\ Len(arrived[b]) >= K(b)
      BY <1>1, <2>1 DEF PathInv, ResultInv
    <3>2. encoded'[b] = encoded[b] /\ arrived'[b] = arrived[b]
      BY <2>1, <3>1
    <3>3. K(b)' = K(b) /\ Succeeds(b)' = Succeeds(b) /\ (Decodable(b)' <=> Decodable(b))
      BY <3>2, SameBlock
    <3> QED BY <1>1, <3>1, <3>2, <3>3
  <2>2. (Exact' <=> Exact) /\ tableEnd' = tableEnd /\ result' = result
    BY DEF Exact
  <2>3. RightOrSingular'
    BY <1>1, <2>1, <2>2 DEF PathInv, ResultInv, RightOrSingular
  <2>4. RegularDecides'
    BY <1>1, <2>1, <2>2 DEF PathInv, ResultInv, RegularDecides
  <2>5. \A b \in Blocks' : result[b] # Pending => b < next' /\ Len(arrived'[b]) >= K(b)'
    BY <1>1, <2>1
  <2> QED BY <1>1, <2>2, <2>3, <2>4, <2>5 DEF PathInv, ResultInv
<1> QED BY <1>2, <1>3

LEMMA SendBlockPathInv == PrimitivesTyped /\ PathInv /\ SendBlock => PathInv'
<1> SUFFICES ASSUME PrimitivesTyped, PathInv, SendBlock
             PROVE  PathInv'
  OBVIOUS
<1>1. SenderInv /\ ArrivedInv
  BY DEF PathInv
<1>2. file \in Seq(Byte) /\ TotalBlocks(Len(file)) \in Nat /\ next \in Nat /\ next \in Blocks
  BY <1>1, PathAssumption, LenProperties, TotalBlocksType DEF SenderInv, SendBlock
<1> PICK n \in Blocks : n = next
  BY <1>2
<1> DEFINE symbols(data) == Encode(tableEnd["sender"], Encrypt(data, MakeNonce(n)))
<1>3. PICK data \in Compressed(GetBlock(n)) :
          /\ encoded' = [b \in 0..n |-> IF b = n THEN data ELSE encoded[b]]
          /\ frames' = frames \cup
                {[block |-> n, symbol |-> i, data |-> symbols(data)[i]] :
                    i \in DOMAIN symbols(data)}
  BY DEF SendBlock
<1>4. next = n /\ n \in Nat /\ next' = n + 1
      /\ UNCHANGED <<file, tableEnd, arrived, work, result>> /\ Blocks' = Blocks
  BY <1>2 DEF SendBlock, Blocks
<1>5. encoded'[n] = data /\ \A b \in 0..n - 1 : encoded'[b] = encoded[b]
  BY <1>2, <1>3, <1>4
<1>6. \A b \in 0..n : encoded'[b] \in Compressed(GetBlock(b))'
  BY <1>1, <1>2, <1>4, <1>5 DEF SenderInv, Compressed, GetBlock
<1>7. data \in Seq(Byte)
  BY <1>2, GetBlockType, EmptySeq DEF Compressed
<1>8. DOMAIN symbols(data) = 0..SymbolCount(Length(n)') - 1
  <2>1. Len(Encrypt(data, MakeNonce(n))) = Length(n)'
    BY <1>2, <1>4, <1>5, <1>7, EncryptType DEF Length
  <2> QED BY <2>1 DEF Encode
<1>9. symbols(data) = Encode(tableEnd'["sender"], Ciphertext(n)')
  BY <1>4, <1>5 DEF Ciphertext
<1> HIDE DEF symbols
<1>10. ASSUME NEW f \in frames'
       PROVE  /\ f.block \in 0..next' - 1
              /\ f.symbol \in 0..SymbolCount(Length(f.block)') - 1
              /\ f = [block |-> f.block, symbol |-> f.symbol,
                      data |-> Encode(tableEnd'["sender"], Ciphertext(f.block)')[f.symbol]]
  <2>1. CASE f \in frames
    <3> DEFINE b == f.block
    <3>1. b \in 0..n - 1
      BY <1>1, <2>1 DEF SenderInv
    <3>2. encoded'[b] = encoded[b]
      BY <1>5, <3>1
    <3> HIDE DEF b
    <3>3. Length(b)' = Length(b) /\ Ciphertext(b)' = Ciphertext(b)
      BY <3>2, SameBlock
    <3> QED BY <1>1, <1>2, <1>4, <2>1, <3>1, <3>3 DEF SenderInv, b
  <2>2. CASE f \notin frames
    <3>1. PICK i \in DOMAIN symbols(data) :
              f = [block |-> n, symbol |-> i, data |-> symbols(data)[i]]
      BY <1>3, <2>2
    <3> QED BY <1>2, <1>4, <1>8, <1>9, <3>1
  <2> QED BY <2>1, <2>2
<1>11. SenderInv'
  <2>1. next' \in 0..TotalBlocks(Len(file))' /\ 0..next' - 1 = 0..n
    BY <1>2, <1>4 DEF Blocks
  <2>2. file' \in Files /\ tableEnd' \in [Ends -> {Zero, One}]
    BY <1>1, <1>4 DEF SenderInv
  <2> QED BY <1>6, <1>10, <2>1, <2>2 DEF SenderInv
<1>12. ArrivedInv'
  <2>1. \A b \in Blocks : arrived[b] \in Seq(frames')
    BY <1>1, <1>3, SeqOfMore DEF ArrivedInv
  <2>2. arrived \in [Blocks -> Seq(frames')]
    BY <1>1, <2>1 DEF ArrivedInv
  <2> QED BY <1>1, <1>4, <2>2 DEF ArrivedInv
<1>13. WorkInv' /\ ResultInv'
  BY <1>4, <1>5, DecodedKept
<1> QED BY <1>11, <1>12, <1>13 DEF PathInv

LEMMA ArrivePathInv ==
    ASSUME PrimitivesTyped, PathInv, NEW f \in frames, Arrive(f)
    PROVE  PathInv'
<1>1. SenderInv /\ ArrivedInv /\ WorkInv /\ ResultInv
  BY DEF PathInv
<1>2. /\ ~work.on /\ Len(arrived[f.block]) < K(f.block)
      /\ arrived' = [arrived EXCEPT ![f.block] = Append(@, f)]
      /\ UNCHANGED <<file, tableEnd, next, encoded, frames, work, result>>
      /\ Blocks' = Blocks
  BY DEF Arrive, Blocks
<1>3. f.block \in 0..next - 1
  BY <1>1 DEF SenderInv
<1>4. f.block \in Blocks /\ K(f.block) \in Nat /\ next \in Nat
  BY <1>1, <1>3, SentType, PathAssumption, LenProperties, TotalBlocksType DEF SenderInv
<1>5. SenderInv'
  <2>1. \A b \in 0..next - 1 : /\ Length(b)' = Length(b) /\ Ciphertext(b)' = Ciphertext(b)
                               /\ Compressed(GetBlock(b))' = Compressed(GetBlock(b))
    BY <1>2 DEF Length, Ciphertext, Compressed, GetBlock
  <2> QED BY <1>1, <1>2, <2>1 DEF SenderInv
<1>6. ArrivedInv'
  <2> DEFINE b0 == f.block
             s == arrived[b0]
  <2>1. s \in Seq(frames) /\ Len(s) \in Nat
    BY <1>1, <1>4, LenProperties DEF ArrivedInv
  <2>2. /\ Append(s, f) \in Seq(frames) /\ Len(Append(s, f)) = Len(s) + 1
        /\ \A i \in 1..Len(s) : Append(s, f)[i] = s[i]
        /\ Append(s, f)[Len(s) + 1] = f
    <3> HIDE DEF s
    <3> QED BY <2>1, AppendProperties
  <2>3. arrived' \in [Blocks -> Seq(frames)] /\ arrived'[b0] = Append(s, f)
    BY <1>1, <1>2, <1>4, <2>2 DEF ArrivedInv
  <2>4. \A i \in 1..Len(Append(s, f)) : Append(s, f)[i].block = b0
    <3>1. \A i \in 1..Len(s) : s[i].block = b0
      BY <1>1, <1>4 DEF ArrivedInv
    <3> HIDE DEF s
    <3> QED BY <2>1, <2>2, <3>1
  <2>5. \A b \in Blocks : b # b0 => arrived'[b] = arrived[b]
    BY <1>1, <1>2 DEF ArrivedInv
  <2>6. ASSUME NEW b \in Blocks, NEW i \in 1..Len(arrived'[b])
        PROVE  arrived'[b][i].block = b
    <3>1. CASE b = b0
      BY <2>3, <2>4, <3>1
    <3>2. CASE b # b0
      BY <1>1, <2>5, <3>2 DEF ArrivedInv
    <3> QED BY <3>1, <3>2
  <2> QED BY <1>2, <2>3, <2>6 DEF ArrivedInv
<1>7. WorkInv' /\ ResultInv'
  <2>1. \A b \in 0..next - 1 : b # f.block => arrived'[b] = arrived[b]
    BY <1>1, <1>2 DEF ArrivedInv
  <2>2. result[f.block] = Pending
    <3>1. Len(arrived[f.block]) \in Nat
      BY <1>1, <1>4, LenProperties DEF ArrivedInv
    <3>2. result[f.block] # Pending => Len(arrived[f.block]) >= K(f.block)
      BY <1>1, <1>4 DEF ResultInv
    <3> QED BY <1>2, <1>4, <3>1, <3>2
  <2>3. \A b \in 0..next - 1 : work.on \/ result[b] # Pending => arrived'[b] = arrived[b]
    BY <1>2, <2>1, <2>2
  <2>4. next' \in Nat /\ next' >= next /\ \A b \in 0..next - 1 : encoded'[b] = encoded[b]
    BY <1>2, <1>4
  <2>5. UNCHANGED <<file, tableEnd, work, result>>
    BY <1>2
  <2> QED BY <2>3, <2>4, <2>5, DecodedKept
<1> QED BY <1>5, <1>6, <1>7 DEF PathInv

(* The receiver's steps leave what was sent and what arrived alone. *)
LEMMA ChannelKept ==
    SenderInv /\ ArrivedInv /\ UNCHANGED <<file, tableEnd, next, encoded, frames, arrived>>
        => SenderInv' /\ ArrivedInv'
<1> SUFFICES ASSUME SenderInv, ArrivedInv,
                    UNCHANGED <<file, tableEnd, next, encoded, frames, arrived>>
             PROVE  SenderInv' /\ ArrivedInv'
  OBVIOUS
<1>1. \A b : /\ Length(b)' = Length(b) /\ Ciphertext(b)' = Ciphertext(b)
             /\ Compressed(GetBlock(b))' = Compressed(GetBlock(b))
  BY DEF Length, Ciphertext, Compressed, GetBlock
<1>2. Blocks' = Blocks
  BY DEF Blocks
<1> QED BY <1>1, <1>2 DEF SenderInv, ArrivedInv

SymbolsOf(b) == [i \in Indices(K(b)) |-> arrived[b][i + 1].symbol]

(* What rs_decode finds among the first K datagrams of a block. *)
LEMMA ReceivedType ==
    ASSUME PrimitivesTyped, SenderInv, ArrivedInv, NEW b \in 0..next - 1,
           Len(arrived[b]) >= K(b)
    PROVE  /\ SymbolsOf(b) \in [Indices(K(b)) -> 0..SymbolCount(Length(b)) - 1]
           /\ \A i \in Indices(K(b)) : SymbolsOf(b)[i] \in Nat
           /\ Received(b).m = ReceivedRows(K(b), SymbolsOf(b))
           /\ Received(b).id = Identity(K(b))
           /\ Received(b).m \in Matrix(K(b))
           /\ \A i \in Indices(K(b)) :
                 arrived[b][i + 1].data
                     = Encode(tableEnd["sender"], Ciphertext(b))[SymbolsOf(b)[i]]
<1>1. b \in Blocks /\ K(b) \in Nat /\ Length(b) \in Nat
  BY SentType
<1>2. arrived[b] \in Seq(frames) /\ Len(arrived[b]) \in Nat
  BY <1>1, LenProperties DEF ArrivedInv
<1>3. SymbolCount(Length(b)) \in Nat
  BY <1>1, SymbolCountLaws, CodeAssumption
<1>4. ASSUME NEW i \in Indices(K(b))
      PROVE  /\ arrived[b][i + 1].symbol \in 0..SymbolCount(Length(b)) - 1
             /\ arrived[b][i + 1].data = Encode(tableEnd["sender"], Ciphertext(b))
                                               [arrived[b][i + 1].symbol]
  <2>1. i + 1 \in 1..Len(arrived[b])
    BY <1>1, <1>2 DEF Indices
  <2>2. arrived[b][i + 1] \in frames /\ arrived[b][i + 1].block = b
    BY <1>1, <1>2, <2>1, ElementOfSeq DEF ArrivedInv
  <2> QED BY <2>2 DEF SenderInv
<1>5. /\ SymbolsOf(b) \in [Indices(K(b)) -> 0..SymbolCount(Length(b)) - 1]
      /\ \A i \in Indices(K(b)) : SymbolsOf(b)[i] = arrived[b][i + 1].symbol
  BY <1>4 DEF SymbolsOf
<1>6. Received(b).m = ReceivedRows(K(b), SymbolsOf(b)) /\ Received(b).id = Identity(K(b))
  BY <1>5 DEF Received, ReceivedRows, Indices
<1>7. \A i \in Indices(K(b)) : SymbolsOf(b)[i] \in Nat
  BY <1>3, <1>5
<1>8. ReceivedRows(K(b), SymbolsOf(b)) \in Matrix(K(b))
  BY <1>1, <1>7, RowType DEF ReceivedRows, Matrix
<1> QED BY <1>4, <1>5, <1>6, <1>7, <1>8

LEMMA StartDecodePathInv ==
    ASSUME PrimitivesTyped, PathInv, NEW b \in Blocks, StartDecode(b)
    PROVE  PathInv'
<1>1. SenderInv /\ ArrivedInv /\ ResultInv
  BY DEF PathInv
<1>2. /\ result[b] = Pending /\ b < next /\ Len(arrived[b]) >= K(b)
      /\ work' = [on |-> TRUE, block |-> b, i |-> 0, m |-> Received(b).m, id |-> Received(b).id]
      /\ UNCHANGED <<file, tableEnd, next, encoded, frames, arrived, result>>
  BY DEF StartDecode
<1>3. b \in 0..next - 1
  BY <1>1, <1>2, PathAssumption, LenProperties, TotalBlocksType DEF Blocks, SenderInv
<1>4. SenderInv' /\ ArrivedInv'
  BY <1>1, <1>2, ChannelKept
<1>5. K(b) \in Nat /\ Received(b).m \in Matrix(K(b)) /\ Received(b).id = Identity(K(b))
  BY <1>1, <1>2, <1>3, SentType, ReceivedType
<1>6. Eliminated(K(b), Received(b).m, Received(b).m, Received(b).id, 0)
  <2>1. Agrees(K(b), Received(b).m, Received(b).m, Received(b).id)
    BY <1>5, IdentityAgrees
  <2>2. \A col \in Indices(K(b)) : ~(col < 0)
    BY DEF Indices
  <2>3. Regular(K(b), Received(b).id)
    BY <1>5, IdentityRegular
  <2> QED BY <2>1, <2>2, <2>3 DEF Eliminated
<1>7. K(b)' = K(b) /\ Received(b)' = Received(b)
  BY <1>2 DEF K, Length, Received
<1>8. WorkInv'
  <2>1. /\ work'.block = b /\ work'.i = 0 /\ work'.m = Received(b).m /\ work'.id = Received(b).id
        /\ DOMAIN work' = {"on", "block", "i", "m", "id"} /\ work'.on
    BY <1>2
  <2>2. K(work.block)' = K(b) /\ Received(work.block)' = Received(b)
    BY <1>2, <2>1 DEF K, Length, Received
  <2> QED BY <1>2, <1>3, <1>5, <1>6, <2>1, <2>2 DEF WorkInv
<1>9. ResultInv'
  BY <1>1, <1>2 DEF ResultInv, RightOrSingular, RegularDecides, Blocks, K, Length, Exact,
                    Succeeds, Received, Decodable
<1> QED BY <1>4, <1>8, <1>9 DEF PathInv

LEMMA PivotPathInv == PrimitivesTyped /\ PathInv /\ Pivot => PathInv'
<1> SUFFICES ASSUME PrimitivesTyped, PathInv, Pivot
             PROVE  PathInv'
  OBVIOUS
<1>1. SenderInv /\ ArrivedInv /\ WorkInv /\ ResultInv
  BY DEF PathInv
<1>2. /\ work.on /\ work.i < K(work.block) /\ Candidates(work.m, work.i) # {}
      /\ UNCHANGED <<file, tableEnd, next, encoded, frames, arrived, result>>
  BY DEF Pivot
<1> DEFINE p == Pivoted(tableEnd["receiver"], work.m, work.id, work.i)
<1>3. work' = [work EXCEPT !.i = @ + 1, !.m = p.m, !.id = p.id]
  BY DEF Pivot
<1>4. work # Idle
  BY <1>2 DEF Idle
<1>5. /\ DOMAIN work = {"on", "block", "i", "m", "id"}
      /\ work.block \in 0..next - 1 /\ work.i \in 0..K(work.block)
      /\ result[work.block] = Pending /\ Len(arrived[work.block]) >= K(work.block)
  BY <1>1, <1>4 DEF WorkInv
<1>6. PICK w \in 0..next - 1 : w = work.block
  BY <1>5
<1>7. K(w) \in Nat /\ Received(w).m \in Matrix(K(w))
  BY <1>1, <1>5, <1>6, SentType, ReceivedType
<1>8. work.i \in Indices(K(w))
  BY <1>2, <1>5, <1>6, <1>7 DEF Indices
<1>9. /\ DOMAIN work' = {"on", "block", "i", "m", "id"} /\ work'.on
      /\ work'.block = w /\ work'.i = work.i + 1 /\ work'.m = p.m /\ work'.id = p.id
  <2> HIDE DEF p
  <2>1. DOMAIN work' = DOMAIN work
    BY <1>3
  <2>2. work'.on = work.on
    BY <1>3, <1>5
  <2>3. work'.block = work.block
    BY <1>3, <1>5
  <2>4. work'.i = work.i + 1
    BY <1>3, <1>5
  <2>5. work'.m = p.m /\ work'.id = p.id
    BY <1>3, <1>5
  <2> QED BY <1>2, <1>5, <1>6, <2>1, <2>2, <2>3, <2>4, <2>5
<1>10. ASSUME tableEnd["receiver"] = One
       PROVE  Eliminated(K(w), Received(w).m, p.m, p.id, work.i + 1)
  <2>1. Eliminated(K(w), Received(w).m, work.m, work.id, work.i)
    BY <1>1, <1>4, <1>6, <1>10 DEF WorkInv
  <2>2. Eliminated(K(w), Received(w).m, Pivoted(One, work.m, work.id, work.i).m,
                   Pivoted(One, work.m, work.id, work.i).id, work.i + 1)
    BY <1>2, <1>7, <1>8, <2>1, PivotKeeps
  <2> QED BY <1>10, <2>2
<1> HIDE DEF p
<1>11. WorkInv'
  <2>2. K(work.block)' = K(w) /\ Received(work.block)' = Received(w)
    BY <1>2, <1>9 DEF K, Length, Received
  <2>3. work.i + 1 \in 0..K(w)
    BY <1>7, <1>8 DEF Indices
  <2> QED BY <1>2, <1>5, <1>6, <1>9, <1>10, <2>2, <2>3 DEF WorkInv
<1>12. SenderInv' /\ ArrivedInv'
  BY <1>1, <1>2, ChannelKept
<1>13. ResultInv'
  BY <1>1, <1>2 DEF ResultInv, RightOrSingular, RegularDecides, Blocks, K, Length, Exact,
                    Succeeds, Received, Decodable
<1> QED BY <1>11, <1>12, <1>13 DEF PathInv

DecodeEnds(out) ==
    /\ work # Idle
    /\ work' = Idle
    /\ result' = [result EXCEPT ![work.block] = out]
    /\ UNCHANGED <<file, tableEnd, next, encoded, frames, arrived>>

Allowed(out) ==
    /\ out.status \in {"pending", "singular", "refused", "restored"}
    /\ Exact => out \in {Fails, Succeeds(work.block)}
    /\ tableEnd["receiver"] = One => (out = Fails <=> ~Decodable(work.block))

(* A decode may end in any way that its block allows. *)
LEMMA EndPathInv ==
    ASSUME PathInv, NEW out, DecodeEnds(out), Allowed(out)
    PROVE  PathInv'
<1> USE DEF DecodeEnds, Allowed
<1>1. SenderInv /\ ArrivedInv /\ WorkInv /\ ResultInv
  BY DEF PathInv
<1>2. SenderInv' /\ ArrivedInv'
  BY <1>1, ChannelKept
<1>3. WorkInv'
  BY DEF WorkInv
<1>4. PICK w \in 0..next - 1 : w = work.block /\ Len(arrived[w]) >= K(w)
  BY <1>1 DEF WorkInv
<1>5. w < next /\ w \in Blocks
  BY <1>1, <1>4, PathAssumption, LenProperties, TotalBlocksType DEF SenderInv, Blocks
<1>6. \A b \in Blocks : result'[b] = IF b = w THEN out ELSE result[b]
  BY <1>1, <1>4 DEF ResultInv
<1>7. DOMAIN result = Blocks
  BY <1>1 DEF ResultInv
<1>8. result' = [b \in Blocks |-> result'[b]]
  BY <1>7
<1>9. \A b : K(b)' = K(b) /\ Succeeds(b)' = Succeeds(b) /\ (Decodable(b)' <=> Decodable(b))
  BY DEF K, Length, Succeeds, Received, Decodable
<1>10. Blocks' = Blocks /\ (Exact' <=> Exact)
  BY DEF Blocks, Exact
<1>11. \A b \in Blocks :
           /\ result'[b].status \in {"pending", "singular", "refused", "restored"}
           /\ result'[b] # Pending => b < next /\ Len(arrived[b]) >= K(b)
  BY <1>1, <1>4, <1>5, <1>6 DEF ResultInv
<1>12. RightOrSingular'
  <2>1. Exact => out \in {Fails, Succeeds(w)}
    BY <1>4
  <2>2. \A b \in Blocks : Exact /\ result'[b] # Pending => result'[b] \in {Fails, Succeeds(b)}
    BY <1>1, <1>6, <2>1 DEF ResultInv, RightOrSingular
  <2> QED BY <1>9, <1>10, <2>2 DEF RightOrSingular
<1>13. RegularDecides'
  <2>1. tableEnd["receiver"] = One => (out = Fails <=> ~Decodable(w))
    BY <1>4
  <2>2. \A b \in Blocks : result'[b] # Pending /\ tableEnd["receiver"] = One
                              => (result'[b] = Fails <=> ~Decodable(b))
    BY <1>1, <1>6, <2>1 DEF ResultInv, RegularDecides
  <2> QED BY <1>9, <1>10, <2>2 DEF RegularDecides
<1>14. ResultInv'
  BY <1>8, <1>9, <1>10, <1>11, <1>12, <1>13 DEF ResultInv
<1> QED BY <1>2, <1>3, <1>14 DEF PathInv

LEMMA SingularPathInv == PrimitivesTyped /\ PathInv /\ Singular => PathInv'
<1> SUFFICES ASSUME PrimitivesTyped, PathInv, Singular
             PROVE  PathInv'
  OBVIOUS
<1>1. SenderInv /\ ArrivedInv /\ WorkInv
  BY DEF PathInv
<1>2. /\ work # Idle /\ work.i < K(work.block) /\ Candidates(work.m, work.i) = {}
      /\ DecodeEnds(Fails)
  BY DEF Singular, Idle, EndsAs, Fails, DecodeEnds
<1>3. PICK w \in 0..next - 1 : w = work.block /\ Len(arrived[w]) >= K(w)
  BY <1>1, <1>2 DEF WorkInv
<1>4. ASSUME tableEnd["receiver"] = One
      PROVE  ~Decodable(w)
  <2>1. Eliminated(K(w), Received(w).m, work.m, work.id, work.i) /\ work.i \in 0..K(w)
    BY <1>1, <1>2, <1>3, <1>4 DEF WorkInv
  <2>2. K(w) \in Nat /\ Received(w).m \in Matrix(K(w))
    BY <1>1, <1>3, SentType, ReceivedType
  <2>3. work.i \in Indices(K(w))
    BY <1>2, <1>3, <2>1, <2>2 DEF Indices
  <2> QED BY <1>2, <2>1, <2>2, <2>3, NoPivotNoInverse DEF Decodable
<1>5. tableEnd["receiver"] = One => ~Decodable(work.block)
  BY <1>3, <1>4
<1>6. Allowed(Fails)
  BY <1>5 DEF Fails, Allowed
<1> QED BY <1>2, <1>6, EndPathInv

LEMMA FinishPathInv == PrimitivesTyped /\ PathInv /\ Finish => PathInv'
<1> SUFFICES ASSUME PrimitivesTyped, PathInv, Finish
             PROVE  PathInv'
  OBVIOUS
<1>1. SenderInv /\ ArrivedInv /\ WorkInv
  BY DEF PathInv
<1>2. work # Idle /\ work.i = K(work.block)
  BY DEF Finish, Idle
<1>3. PICK w \in 0..next - 1 : w = work.block /\ Len(arrived[w]) >= K(w)
  BY <1>1, <1>2 DEF WorkInv
<1> DEFINE received == [i \in Indices(K(w)) |-> arrived[w][i + 1].data]
           cipher == Recovered(tableEnd["receiver"], work.id, received, Length(w))
           plain == Decrypt(cipher, MakeNonce(w))
<1>4. PICK out : out = [status |-> IF plain.ok THEN "restored" ELSE "refused",
                        data |-> plain.data]
  OBVIOUS
<1>5. DecodeEnds(out)
  BY <1>2, <1>3, <1>4 DEF Finish, EndsAs, Indices, DecodeEnds
<1>6. out.status \in {"pending", "singular", "refused", "restored"}
  BY <1>4
<1>7. /\ K(w) \in Nat /\ K(w) = SourceCount(Length(w))
      /\ w \in Nat /\ encoded[w] \in Seq(Byte)
      /\ Ciphertext(w) \in Seq(Byte) /\ Len(Ciphertext(w)) = Length(w)
  BY <1>1, SentType DEF K, Blocks
<1>8. ASSUME tableEnd["receiver"] = One
      PROVE  Eliminated(K(w), ReceivedRows(K(w), SymbolsOf(w)), work.m, work.id, K(w))
  <2>1. Eliminated(K(w), Received(w).m, work.m, work.id, K(w))
    BY <1>1, <1>2, <1>3, <1>8 DEF WorkInv
  <2> QED BY <1>1, <1>3, <2>1, ReceivedType
<1>9. ASSUME tableEnd["receiver"] = One
      PROVE  Decodable(w)
  <2>1. /\ Received(w).m = ReceivedRows(K(w), SymbolsOf(w))
        /\ Received(w).m \in Matrix(K(w))
    BY <1>1, <1>3, ReceivedType
  <2> QED BY <1>7, <1>8, <1>9, <2>1, InvertedIsRegular DEF Decodable
<1>10. ASSUME Exact
       PROVE  out = Succeeds(w)
  <2>1. tableEnd["receiver"] = One /\ tableEnd["sender"] = One
    BY <1>10 DEF Exact, Ends
  <2>2. cipher = Ciphertext(w)
    <3>1. /\ SymbolsOf(w) \in [Indices(K(w)) -> 0..SymbolCount(Len(Ciphertext(w))) - 1]
          /\ \A i \in Indices(K(w)) :
                received[i] = Encode(One, Ciphertext(w))[SymbolsOf(w)[i]]
      BY <1>1, <1>3, <1>7, <2>1, ReceivedType
    <3>2. DOMAIN received = Indices(K(w))
      OBVIOUS
    <3>3. K(w) = SourceCount(Len(Ciphertext(w)))
      BY <1>7
    <3> HIDE DEF received
    <3>4. Recovered(One, work.id, received, Len(Ciphertext(w))) = Ciphertext(w)
      BY <1>7, <1>8, <2>1, <3>1, <3>2, <3>3, EliminatedRestores
    <3> QED BY <1>7, <2>1, <3>4
  <2> HIDE DEF cipher
  <2>3. plain = [ok |-> TRUE, data |-> encoded[w]]
    BY <1>7, <2>2, DecryptUndoesEncrypt DEF Ciphertext
  <2> HIDE DEF plain
  <2> QED BY <1>4, <2>3 DEF Succeeds
<1> HIDE DEF plain
<1>11. Exact => out \in {Fails, Succeeds(work.block)}
  BY <1>3, <1>10
<1>12. tableEnd["receiver"] = One => (out = Fails <=> ~Decodable(work.block))
  <2>1. out # Fails
    BY <1>4 DEF Fails
  <2>2. tableEnd["receiver"] = One => Decodable(work.block)
    BY <1>3, <1>9
  <2> QED BY <2>1, <2>2
<1>13. Allowed(out)
  BY <1>6, <1>11, <1>12 DEF Allowed
<1> QED BY <1>5, <1>13, EndPathInv

LEMMA PathInvStep == PrimitivesTyped /\ PathInv /\ [Next]_vars => PathInv'
<1> SUFFICES ASSUME PrimitivesTyped, PathInv, [Next]_vars
             PROVE  PathInv'
  OBVIOUS
<1>1. CASE SendBlock
  BY <1>1, SendBlockPathInv
<1>2. ASSUME NEW f \in frames, Arrive(f)
      PROVE  PathInv'
  BY <1>2, ArrivePathInv
<1>3. ASSUME NEW b \in Blocks, StartDecode(b)
      PROVE  PathInv'
  BY <1>3, StartDecodePathInv
<1>4. CASE Pivot
  BY <1>4, PivotPathInv
<1>5. CASE Singular
  BY <1>5, SingularPathInv
<1>6. CASE Finish
  BY <1>6, FinishPathInv
<1>7. CASE UNCHANGED vars
  <2>1. UNCHANGED <<file, tableEnd, next, encoded, frames, arrived, work, result>>
    BY <1>7 DEF vars
  <2>2. SenderInv' /\ ArrivedInv'
    BY <2>1, ChannelKept DEF PathInv
  <2>3. next \in Nat
    BY PathAssumption, LenProperties, TotalBlocksType DEF PathInv, SenderInv
  <2>4. /\ UNCHANGED <<file, tableEnd, work, result>>
    BY <2>1
  <2>5. /\ next' \in Nat /\ next' >= next
        /\ \A b \in 0..next - 1 : encoded'[b] = encoded[b]
        /\ \A b \in 0..next - 1 : work.on \/ result[b] # Pending => arrived'[b] = arrived[b]
    BY <2>1, <2>3
  <2>6. WorkInv' /\ ResultInv'
    BY <2>4, <2>5, DecodedKept
  <2> QED BY <2>2, <2>6 DEF PathInv
<1> QED BY <1>1, <1>2, <1>3, <1>4, <1>5, <1>6, <1>7 DEF Next, Decode

-----------------------------------------------------------------------------
(* The theorems *)

(* The invariant of the data path: every datagram carries the symbol of a block
   that was sent, the elimination of rs_invert_matrix keeps its loop invariant,
   and every decode that ended ended as its symbols and the tables allow. *)
THEOREM PathCorrect == ASSUME PrimitivesTyped PROVE Spec => []PathInv
<1>1. Init => PathInv
  BY InitPathInv
<1>2. PathInv /\ [Next]_vars => PathInv'
  BY PathInvStep
<1> QED BY <1>1, <1>2, PTL DEF Spec

LEMMA TypeFollows == PrimitivesTyped /\ PathInv => TypeOK
<1> SUFFICES ASSUME PrimitivesTyped, PathInv
             PROVE  TypeOK
  OBVIOUS
<1>1. SenderInv /\ ArrivedInv /\ WorkInv /\ ResultInv
  BY DEF PathInv
<1>2. next \in 0..TotalBlocks(Len(file)) /\ \A b \in 0..next - 1 : encoded[b] \in Seq(Byte)
  BY <1>1, SentType DEF SenderInv
<1>3. ASSUME NEW f \in frames
      PROVE  f \in Frame /\ f.symbol < SymbolCount(Length(f.block))
  <2> DEFINE b == f.block
  <2>1. /\ b \in 0..next - 1 /\ f.symbol \in 0..SymbolCount(Length(b)) - 1
        /\ f = [block |-> b, symbol |-> f.symbol,
                data |-> Encode(tableEnd["sender"], Ciphertext(b))[f.symbol]]
    BY <1>1 DEF SenderInv
  <2> HIDE DEF b
  <2>2. /\ b \in Blocks /\ Length(b) \in Nat
        /\ Ciphertext(b) \in Seq(Byte) /\ Len(Ciphertext(b)) = Length(b)
    BY <1>1, <2>1, SentType
  <2>3. SymbolCount(Length(b)) \in 0..FieldLimit /\ FieldLimit \in Nat
    BY <2>2, SymbolCountLaws, CodeAssumption
  <2>4. Encode(tableEnd["sender"], Ciphertext(b))
            \in [0..SymbolCount(Length(b)) - 1 -> [1..SymbolSize -> Byte]]
    BY <2>2, EncodeType
  <2>5. Encode(tableEnd["sender"], Ciphertext(b))[f.symbol] \in [1..SymbolSize -> Byte]
    BY <2>1, <2>4
  <2>6. f.symbol \in 0..FieldLimit - 1 /\ f.symbol < SymbolCount(Length(b))
    BY <2>1, <2>3
  <2>7. f \in Frame
    BY <2>1, <2>2, <2>5, <2>6 DEF Frame
  <2> QED BY <2>6, <2>7 DEF b
<1>4. \A b \in Blocks : arrived[b] \in Seq(frames)
  BY <1>1 DEF ArrivedInv
<1>5. work.on => work.block \in Blocks /\ work.i \in 0..K(work.block)
  <2>1. work.on => work # Idle
    BY DEF Idle
  <2>2. work # Idle => work.block \in 0..next - 1 /\ work.i \in 0..K(work.block)
    BY <1>1 DEF WorkInv
  <2>3. \A b \in 0..next - 1 : b \in Blocks
    BY <1>1, SentType
  <2> QED BY <2>1, <2>2, <2>3
<1>6. \A b \in Blocks : result[b].status \in {"pending", "singular", "refused", "restored"}
  BY <1>1 DEF ResultInv
<1> QED BY <1>2, <1>3, <1>4, <1>5, <1>6 DEF TypeOK

(* Every datagram of send_thread_func is numbered below the symbol count of its
   block, so the rows rs_decode builds are rows of the encoding matrix. *)
THEOREM PathTypeCorrect == ASSUME PrimitivesTyped PROVE Spec => []TypeOK
<1>1. Spec => []PathInv
  BY PathCorrect
<1>2. PathInv => TypeOK
  BY TypeFollows
<1> QED BY <1>1, <1>2, PTL

LEMMA SoundFollows == PrimitivesTyped /\ PathInv => EliminationSound
<1> SUFFICES ASSUME PrimitivesTyped, PathInv, work.on, tableEnd["receiver"] = One,
                    NEW row \in 0..K(work.block) - 1, NEW col \in 0..K(work.block) - 1
             PROVE  /\ Product(One, work.id, Received(work.block).m, row, col)
                          = work.m[row][col]
                    /\ col < work.i =>
                          work.m[row][col] = (IF row = col THEN One ELSE Zero)
  BY DEF EliminationSound
<1> DEFINE k == K(work.block)
           r == Received(work.block).m
<1>1. Eliminated(k, r, work.m, work.id, work.i)
  BY DEF PathInv, WorkInv, Idle
<1>2. row \in Indices(k) /\ col \in Indices(k)
  BY DEF Indices
<1> HIDE DEF k, r
<1>3. Dot(k, work.id[row], Column(k, r, col)) = work.m[row][col] /\ DOMAIN work.id = Indices(k)
  BY <1>1, <1>2 DEF Eliminated, Agrees, Matrix
<1>4. \A j \in Indices(k) : Column(k, r, col)[j] = r[j][col]
  BY DEF Column
<1>5. Product(One, work.id, r, row, col) = Dot(k, work.id[row], Column(k, r, col))
  <2>1. [j \in Indices(k) |-> Mul(One, work.id[row][j], Column(k, r, col)[j])]
          = [j \in Indices(k) |-> Mul(One, work.id[row][j], r[j][col])]
    BY <1>4
  <2> QED BY <1>3, <2>1 DEF Product, Dot, Sum, Indices
<1>6. col < work.i => work.m[row][col] = Delta(row, col)
  BY <1>1, <1>2 DEF Eliminated
<1> QED BY <1>3, <1>5, <1>6 DEF r, Delta

(* The loop invariant of rs_invert_matrix holds before every pivot: the second
   matrix times the rows received is the first, whose columns before the pivot
   are unit columns. *)
THEOREM EliminationAlwaysSound == ASSUME PrimitivesTyped PROVE Spec => []EliminationSound
<1>1. Spec => []PathInv
  BY PathCorrect
<1>2. PathInv => EliminationSound
  BY SoundFollows
<1> QED BY <1>1, <1>2, PTL

(* With exact tables rs_decode followed by tl_decrypt either finds the rows
   singular or gives back the bytes that tl_compress put out, whichever K symbols
   of the block arrived, in whatever order and however often. *)
THEOREM AlwaysRightOrSingular == ASSUME PrimitivesTyped PROVE Spec => []RightOrSingular
<1>1. Spec => []PathInv
  BY PathCorrect
<1>2. PathInv => RightOrSingular
  BY DEF PathInv, ResultInv
<1> QED BY <1>1, <1>2, PTL

(* With exact tables a block is given back exactly when the rows of the first K
   symbols that arrived tell all blocks apart: rs_decode fails for no other reason
   and is never fooled. *)
DecodedExactly ==
    \A b \in Blocks :
        Exact /\ result[b] # Pending
            => result[b] = IF Decodable(b) THEN Succeeds(b) ELSE Fails

(* What tl_fec_decode and tl_decrypt make of a block depends on its rows alone. *)
THEOREM AlwaysDecodedExactly == ASSUME PrimitivesTyped PROVE Spec => []DecodedExactly
<1>1. Spec => []PathInv
  BY PathCorrect
<1>2. PathInv => DecodedExactly
  <2>1. ASSUME PathInv, NEW b \in Blocks, Exact, result[b] # Pending
        PROVE  result[b] = IF Decodable(b) THEN Succeeds(b) ELSE Fails
    <3>1. tableEnd["receiver"] = One
      BY <2>1 DEF Exact, Ends
    <3>2. result[b] \in {Fails, Succeeds(b)} /\ (result[b] = Fails <=> ~Decodable(b))
      BY <2>1, <3>1 DEF PathInv, ResultInv, RightOrSingular, RegularDecides
    <3> QED BY <3>2
  <2> QED BY <2>1 DEF DecodedExactly
<1> QED BY <1>1, <1>2, PTL

(* What was decoded is a block that was sent, of which K symbols had arrived. *)
LEMMA DecodedType ==
    ASSUME PrimitivesTyped, PathInv, NEW b \in Blocks, result[b] # Pending
    PROVE  /\ K(b) \in Nat
           /\ SymbolsOf(b) \in [Indices(K(b)) -> Nat]
           /\ \A i \in Indices(K(b)) : SymbolsOf(b)[i] < K(b) + RepairCount(K(b))
           /\ RepairCount(K(b)) \in Nat
           /\ K(b) \in 0..255
           /\ Received(b).m = ReceivedRows(K(b), SymbolsOf(b))
           /\ \A i \in Indices(K(b)) : SymbolsOf(b)[i] = arrived[b][i + 1].symbol
<1>1. SenderInv /\ ArrivedInv /\ ResultInv
  BY DEF PathInv
<1>2. b < next /\ Len(arrived[b]) >= K(b)
  BY <1>1 DEF ResultInv
<1>3. b \in 0..next - 1
  BY <1>1, <1>2, PathAssumption, LenProperties, TotalBlocksType DEF Blocks, SenderInv
<1>4. K(b) \in Nat /\ Length(b) \in Nat /\ K(b) = SourceCount(Length(b))
  BY <1>1, <1>3, SentType DEF K
<1>5. /\ SymbolCount(Length(b)) \in Nat /\ RepairCount(K(b)) \in Nat
      /\ SymbolCount(Length(b)) <= K(b) + RepairCount(K(b))
  BY <1>4, SymbolCountLaws, CodeAssumption
<1>6. \A i \in Indices(K(b)) : SymbolsOf(b)[i] \in 0..SymbolCount(Length(b)) - 1
  BY <1>1, <1>2, <1>3, ReceivedType
<1>7. \A i \in Indices(K(b)) : SymbolsOf(b)[i] < K(b) + RepairCount(K(b))
  BY <1>4, <1>5, <1>6
<1>8. /\ \A i \in Indices(K(b)) : SymbolsOf(b)[i] \in Nat
      /\ DOMAIN SymbolsOf(b) = Indices(K(b))
      /\ SymbolsOf(b) = [i \in Indices(K(b)) |-> SymbolsOf(b)[i]]
      /\ Received(b).m = ReceivedRows(K(b), SymbolsOf(b))
  BY <1>1, <1>2, <1>3, ReceivedType DEF SymbolsOf
<1>9. K(b) \in 0..255
  <2>1. CASE K(b) = 0
    BY <2>1
  <2>2. CASE K(b) # 0
    <3>1. 0 \in Indices(K(b))
      BY <1>4, <2>2 DEF Indices
    <3>2. SymbolCount(Length(b)) # 0
      BY <1>5, <1>6, <3>1
    <3>3. K(b) <= FieldLimit
      BY <1>4, <3>2, SymbolCountLaws
    <3> QED BY <1>4, <3>3, CodeAssumption
  <2> QED BY <2>1, <2>2
<1> QED BY <1>4, <1>5, <1>7, <1>8, <1>9 DEF SymbolsOf

(* All symbols that count are blind to the same two source symbols. *)
BlindBlock(b) ==
    \E c \in 0..K(b) - 52 : \A i \in 1..K(b) : Blind(arrived[b][i].symbol, K(b), c)

(* Symbols that are all blind to the same two source symbols, though they be K
   distinct ones and the tables exact, do not give the block back. *)
BlindNeverDecodes ==
    \A b \in Blocks :
        result[b] # Pending /\ tableEnd["receiver"] = One /\ BlindBlock(b)
            => result[b] = Fails

(* The limit of rs_build_encode_matrix: K symbols that are blind to the same two
   source symbols are refused by rs_decode, even when they are K distinct ones. *)
THEOREM BlindAlwaysFail == ASSUME PrimitivesTyped PROVE Spec => []BlindNeverDecodes
<1>1. Spec => []PathInv
  BY PathCorrect
<1>2. PathInv => BlindNeverDecodes
  <2>1. ASSUME PathInv, NEW b \in Blocks, result[b] # Pending, tableEnd["receiver"] = One,
               BlindBlock(b)
        PROVE  result[b] = Fails
    <3>1. PICK c \in 0..K(b) - 52 : \A i \in 1..K(b) : Blind(arrived[b][i].symbol, K(b), c)
      BY <2>1 DEF BlindBlock
    <3>2. /\ K(b) \in Nat /\ SymbolsOf(b) \in [Indices(K(b)) -> Nat]
          /\ Received(b).m = ReceivedRows(K(b), SymbolsOf(b))
          /\ \A i \in Indices(K(b)) : SymbolsOf(b)[i] = arrived[b][i + 1].symbol
      BY <2>1, DecodedType
    <3>3. c \in Nat /\ c + 51 < K(b)
      BY <3>2
    <3>4. \A i \in Indices(K(b)) : Blind(SymbolsOf(b)[i], K(b), c)
      <4> SUFFICES ASSUME NEW i \in Indices(K(b))
                   PROVE  Blind(SymbolsOf(b)[i], K(b), c)
        OBVIOUS
      <4>1. i + 1 \in 1..K(b)
        BY <3>2 DEF Indices
      <4>2. Blind(arrived[b][i + 1].symbol, K(b), c)
        BY <3>1, <4>1
      <4> QED BY <3>2, <4>2
    <3>5. ~Decodable(b)
      BY <3>2, <3>3, <3>4, BlindIsSingular DEF Decodable
    <3> QED BY <2>1, <3>5 DEF PathInv, ResultInv, RegularDecides
  <2> QED BY <2>1 DEF BlindNeverDecodes
<1> QED BY <1>1, <1>2, PTL

(* The symbols that count are all source symbols but one, and that one or a
   repair symbol. *)
OneLossBlock(b) == \E q \in Indices(K(b)) : OneLost(K(b), SymbolsOf(b), q)

(* With exact tables the loss of one source symbol is made up for by any repair
   symbol, for blocks of any number of symbols. *)
OneLossRepaired ==
    \A b \in Blocks :
        Exact /\ result[b] # Pending /\ OneLossBlock(b) => result[b] = Succeeds(b)

(* What the code does promise: tl_fec_decode gives a block back that lost one
   source symbol, whichever one and whichever repair symbol came in its place. *)
THEOREM OneLossAlwaysRepaired == ASSUME PrimitivesTyped PROVE Spec => []OneLossRepaired
<1>1. Spec => []PathInv
  BY PathCorrect
<1>2. PathInv => OneLossRepaired
  <2>1. ASSUME PathInv, NEW b \in Blocks, Exact, result[b] # Pending, OneLossBlock(b)
        PROVE  result[b] = Succeeds(b)
    <3>1. PICK q \in Indices(K(b)) : OneLost(K(b), SymbolsOf(b), q)
      BY <2>1 DEF OneLossBlock
    <3>2. /\ K(b) \in Nat /\ SymbolsOf(b) \in [Indices(K(b)) -> Nat]
          /\ Received(b).m = ReceivedRows(K(b), SymbolsOf(b))
      BY <2>1, DecodedType
    <3>3. Decodable(b)
      BY <3>1, <3>2, OneLostIsRegular DEF Decodable
    <3>4. tableEnd["receiver"] = One
      BY <2>1 DEF Exact, Ends
    <3> QED BY <2>1, <3>3, <3>4 DEF PathInv, ResultInv, RightOrSingular, RegularDecides
  <2> QED BY <2>1 DEF OneLossRepaired
<1> QED BY <1>1, <1>2, PTL

(* The symbols that count are all source symbols but two, and two repair symbols. *)
TwoLossBlock(b) ==
    \E q1, q2 \in Indices(K(b)) : q1 < q2 /\ AllButTwo(K(b), SymbolsOf(b), q1, q2)

(* With exact tables, and no more than 51 source and 15 repair symbols, the loss of
   two source symbols is made up for by any two repair symbols. *)
TwoLossesRepaired ==
    \A b \in Blocks :
        /\ Exact /\ result[b] # Pending
        /\ K(b) <= 51 /\ RepairCount(K(b)) <= 15
        /\ TwoLossBlock(b)
        => result[b] = Succeeds(b)

(* For two losses fec_interface.h is right that any K symbols reconstruct a block of
   at most 51 source symbols, to which the ratio of 20% adds 10 repair symbols; of
   more it is not, see BlindAlwaysFail. *)
THEOREM TwoLossesAlwaysRepaired == ASSUME PrimitivesTyped PROVE Spec => []TwoLossesRepaired
<1>1. Spec => []PathInv
  BY PathCorrect
<1>2. PathInv => TwoLossesRepaired
  <2>1. ASSUME PathInv, NEW b \in Blocks, Exact, result[b] # Pending,
               K(b) <= 51, RepairCount(K(b)) <= 15, TwoLossBlock(b)
        PROVE  result[b] = Succeeds(b)
    <3>1. PICK q1 \in Indices(K(b)), q2 \in Indices(K(b)) :
              q1 < q2 /\ AllButTwo(K(b), SymbolsOf(b), q1, q2)
      BY <2>1 DEF TwoLossBlock
    <3>2. /\ K(b) \in Nat /\ SymbolsOf(b) \in [Indices(K(b)) -> Nat]
          /\ \A i \in Indices(K(b)) : SymbolsOf(b)[i] < K(b) + RepairCount(K(b))
          /\ RepairCount(K(b)) \in Nat
          /\ Received(b).m = ReceivedRows(K(b), SymbolsOf(b))
      BY <2>1, DecodedType
    <3>3. SymbolsOf(b) \in [Indices(K(b)) -> 0..K(b) + 14]
      <4>1. \A i \in Indices(K(b)) : SymbolsOf(b)[i] \in 0..K(b) + 14
        BY <2>1, <3>2
      <4> QED BY <3>2, <4>1
    <3>4. K(b) \in 0..51
      BY <2>1, <3>2
    <3>5. TwoLost(K(b), SymbolsOf(b), q1, q2)
      BY <3>1, <3>3, <3>4, SmallBlocksLoseTwo
    <3>6. Decodable(b)
      BY <3>1, <3>2, <3>5, TwoLostIsRegular DEF Decodable
    <3>7. tableEnd["receiver"] = One
      BY <2>1 DEF Exact, Ends
    <3> QED BY <2>1, <3>6, <3>7 DEF PathInv, ResultInv, RightOrSingular, RegularDecides
  <2> QED BY <2>1 DEF TwoLossesRepaired
<1> QED BY <1>1, <1>2, PTL

(* The symbols that count are all source symbols but some, and as many repair
   symbols in a row. *)
BurstBlock(b) ==
    \E lost \in SUBSET Indices(K(b)) : LostBurst(K(b), SymbolsOf(b), lost)

(* With exact tables any number of lost source symbols is made up for by as many
   consecutive repair symbols. *)
BurstRepaired ==
    \A b \in Blocks :
        Exact /\ result[b] # Pending /\ BurstBlock(b) => result[b] = Succeeds(b)

(* A network that keeps the order of the datagrams and loses source symbols only, in
   a block of any size rs_encode accepts: the repair symbols that count are then the
   first ones, and tl_fec_decode gives the block back. *)
THEOREM BurstAlwaysRepaired == ASSUME PrimitivesTyped PROVE Spec => []BurstRepaired
<1>1. Spec => []PathInv
  BY PathCorrect
<1>2. PathInv => BurstRepaired
  <2>1. ASSUME PathInv, NEW b \in Blocks, Exact, result[b] # Pending, BurstBlock(b)
        PROVE  result[b] = Succeeds(b)
    <3>1. PICK lost \in SUBSET Indices(K(b)) : LostBurst(K(b), SymbolsOf(b), lost)
      BY <2>1 DEF BurstBlock
    <3>2. /\ K(b) \in 0..255 /\ SymbolsOf(b) \in [Indices(K(b)) -> Nat]
          /\ Received(b).m = ReceivedRows(K(b), SymbolsOf(b))
      BY <2>1, DecodedType
    <3>3. Decodable(b)
      BY <3>1, <3>2, LostBurstIsRegular DEF Decodable
    <3>4. tableEnd["receiver"] = One
      BY <2>1 DEF Exact, Ends
    <3> QED BY <2>1, <3>3, <3>4 DEF PathInv, ResultInv, RightOrSingular, RegularDecides
  <2> QED BY <2>1 DEF BurstRepaired
<1> QED BY <1>1, <1>2, PTL

(* Three repair symbols have taken the place of three source symbols, see Masked. *)
MaskedBlock(b) ==
    \E q \in 0..K(b) - 22, r \in Nat :
        r >= K(b) /\ \A i \in 1..K(b) : Masked(arrived[b][i].symbol, K(b), q, r)

(* Even when K distinct symbols are masked, and the tables exact, they do not give
   the block back. *)
MaskedNeverDecodes ==
    \A b \in Blocks :
        result[b] # Pending /\ tableEnd["receiver"] = One /\ MaskedBlock(b)
            => result[b] = Fails

(* Three losses are enough for rs_decode to refuse K distinct symbols, in any block
   of 22 source and 4 repair symbols or more. *)
THEOREM MaskedAlwaysFail == ASSUME PrimitivesTyped PROVE Spec => []MaskedNeverDecodes
<1>1. Spec => []PathInv
  BY PathCorrect
<1>2. PathInv => MaskedNeverDecodes
  <2>1. ASSUME PathInv, NEW b \in Blocks, result[b] # Pending, tableEnd["receiver"] = One,
               MaskedBlock(b)
        PROVE  result[b] = Fails
    <3>1. PICK q \in 0..K(b) - 22, r \in Nat :
              /\ r >= K(b)
              /\ \A i \in 1..K(b) : Masked(arrived[b][i].symbol, K(b), q, r)
      BY <2>1 DEF MaskedBlock
    <3>2. /\ K(b) \in Nat /\ SymbolsOf(b) \in [Indices(K(b)) -> Nat]
          /\ Received(b).m = ReceivedRows(K(b), SymbolsOf(b))
          /\ \A i \in Indices(K(b)) : SymbolsOf(b)[i] = arrived[b][i + 1].symbol
      BY <2>1, DecodedType
    <3>3. q \in Nat /\ q + 21 < K(b)
      BY <3>2
    <3>4. \A i \in Indices(K(b)) : Masked(SymbolsOf(b)[i], K(b), q, r)
      <4> SUFFICES ASSUME NEW i \in Indices(K(b))
                   PROVE  Masked(SymbolsOf(b)[i], K(b), q, r)
        OBVIOUS
      <4>1. i + 1 \in 1..K(b)
        BY <3>2 DEF Indices
      <4>2. Masked(arrived[b][i + 1].symbol, K(b), q, r)
        BY <3>1, <4>1
      <4> QED BY <3>2, <4>2
    <3>5. ~Decodable(b)
      BY <3>1, <3>2, <3>3, <3>4, MaskedIsSingular DEF Decodable
    <3> QED BY <2>1, <3>5 DEF PathInv, ResultInv, RegularDecides
  <2> QED BY <2>1 DEF MaskedNeverDecodes
<1> QED BY <1>1, <1>2, PTL

(* A block of k source symbols has too few symbols to be masked. *)
TooSmallToMask(k) == RepairCount(k) <= 3 \/ (k <= 21 /\ RepairCount(k) <= 4)

(* With exact tables any K distinct symbols give back a block too small to be
   masked. *)
AnyKOfSmallBlocks ==
    \A b \in Blocks :
        Exact /\ result[b] # Pending /\ Distinct(b) /\ TooSmallToMask(K(b))
            => result[b] = Succeeds(b)

LEMMA AnyKOfSmallFollows == PrimitivesTyped /\ PathInv => AnyKOfSmallBlocks
<1> SUFFICES ASSUME PrimitivesTyped, PathInv, NEW b \in Blocks, Exact, result[b] # Pending,
                    Distinct(b), TooSmallToMask(K(b))
             PROVE  result[b] = Succeeds(b)
  BY DEF AnyKOfSmallBlocks
<1>1. /\ K(b) \in Nat /\ K(b) \in 0..255 /\ SymbolsOf(b) \in [Indices(K(b)) -> Nat]
      /\ \A i \in Indices(K(b)) : SymbolsOf(b)[i] < K(b) + RepairCount(K(b))
      /\ RepairCount(K(b)) \in Nat
      /\ Received(b).m = ReceivedRows(K(b), SymbolsOf(b))
      /\ \A i \in Indices(K(b)) : SymbolsOf(b)[i] = arrived[b][i + 1].symbol
  BY DecodedType
<1>2. DistinctSymbols(K(b), SymbolsOf(b))
  <2> SUFFICES ASSUME NEW i \in Indices(K(b)), NEW j \in Indices(K(b)),
                      SymbolsOf(b)[i] = SymbolsOf(b)[j]
               PROVE  i = j
    BY DEF DistinctSymbols
  <2>1. i + 1 \in 1..K(b) /\ j + 1 \in 1..K(b) /\ i \in Nat /\ j \in Nat
    BY <1>1 DEF Indices
  <2>2. i + 1 = j + 1
    BY <1>1, <2>1 DEF Distinct
  <2> QED BY <2>1, <2>2
<1>3. FewEnough(K(b), SymbolsOf(b))
  <2>1. \A i \in Indices(K(b)) : SymbolsOf(b)[i] \in Nat
    BY <1>1
  <2> QED BY <1>1, <2>1 DEF FewEnough, TooSmallToMask
<1>4. Decodable(b)
  BY <1>1, <1>2, <1>3, AnyKIsRegular DEF Decodable
<1>5. tableEnd["receiver"] = One
  BY DEF Exact, Ends
<1> QED BY <1>4, <1>5 DEF PathInv, ResultInv, RightOrSingular, RegularDecides

(* fec_interface.h is right that any K symbols reconstruct the block, given exact
   tables, of blocks that small; at 20% of repair symbols these are the blocks of up
   to 21 source symbols (AnyKAtTwentyPercent). *)
THEOREM SmallBlocksAnyK == ASSUME PrimitivesTyped PROVE Spec => []AnyKOfSmallBlocks
<1>1. Spec => []PathInv
  BY PathCorrect
<1>2. Spec => []AnyKOfSmallBlocks
  BY <1>1, AnyKOfSmallFollows, PTL
<1> QED BY <1>2

(* A block is no longer than the block size. *)
LEMMA BlockLength ==
    ASSUME PrimitivesTyped, SenderInv, NEW b \in 0..next - 1
    PROVE  Length(b) \in 0..BlockSize + TagSize
<1> DEFINE s == b * BlockSize
           end == IF Len(file) - s < BlockSize THEN Len(file) ELSE (b + 1) * BlockSize
<1>1. file \in Seq(Byte) /\ Len(file) \in Nat /\ BlockSize \in Nat /\ TagSize \in Nat
  BY PathAssumption, CipherAssumption, LenProperties DEF SenderInv
<1>2. b \in Blocks /\ b \in Nat /\ Length(b) \in Nat
  BY SentType DEF Blocks
<1>3. s \in Nat /\ s < Len(file) /\ (b + 1) * BlockSize = s + BlockSize
  BY <1>1, <1>2, GetBlockType
<1>4. end \in Nat /\ end <= Len(file) /\ end - s <= BlockSize /\ s < end
  BY <1>1, <1>3, PathAssumption
<1>5. GetBlock(b) = SubSeq(file, s + 1, end)
  BY DEF GetBlock
<1> HIDE DEF s, end
<1>6. Len(GetBlock(b)) = end - s
  <2>1. \A i \in s + 1 .. end : file[i] \in Byte
    BY <1>1, <1>3, <1>4, ElementOfSeq
  <2>2. Len(SubSeq(file, s + 1, end)) = end - (s + 1) + 1
    BY <1>3, <1>4, <2>1, SubSeqProperties
  <2> QED BY <1>3, <1>4, <1>5, <2>2
<1>7. Len(encoded[b]) <= BlockSize
  <2>1. encoded[b] \in {GetBlock(b), << >>}
    BY DEF SenderInv, Compressed
  <2>2. Len(<< >>) = 0
    BY EmptySeq
  <2> QED BY <1>1, <1>3, <1>4, <1>6, <2>1, <2>2
<1> QED BY <1>1, <1>2, <1>7 DEF Length

(* When the block size leaves no block that can be masked, any K distinct symbols
   give any block back, as long as the tables are exact: what fec_interface.h says
   of every block size. *)
THEOREM AnyKAlwaysIfExact ==
    ASSUME PrimitivesTyped,
           \A len \in 0..BlockSize + TagSize : TooSmallToMask(SourceCount(len))
    PROVE  Spec => []AnyKIfExact
<1>1. Spec => []PathInv
  BY PathCorrect
<1>2. PathInv => AnyKIfExact
  <2> SUFFICES ASSUME PathInv, NEW b \in Blocks, Exact, result[b] # Pending, Distinct(b)
               PROVE  result[b] = Succeeds(b)
    BY DEF AnyKIfExact, Succeeds
  <2>1. SenderInv /\ b < next
    BY DEF PathInv, ResultInv
  <2>2. b \in 0..next - 1
    BY <2>1, PathAssumption, LenProperties, TotalBlocksType DEF Blocks, SenderInv
  <2>3. Length(b) \in 0..BlockSize + TagSize
    BY <2>1, <2>2, BlockLength
  <2>4. TooSmallToMask(K(b))
    BY <2>3 DEF K
  <2> QED BY <2>4, AnyKOfSmallFollows DEF AnyKOfSmallBlocks
<1> QED BY <1>1, <1>2, PTL

-----------------------------------------------------------------------------
(* The table that gf_init leaves *)

(* An elimination under way has lost its first row to the first pivot, and a block
   that was passed on begins with the key stream: its ciphertext with zeros. *)
ClearedInv ==
    tableEnd["receiver"] = Zero =>
        /\ work # Idle /\ work.i = 0 =>
              work.m = Received(work.block).m /\ work.id = Identity(K(work.block))
        /\ work # Idle /\ work.i # 0 =>
              FirstCleared(K(work.block), work.m) /\ FirstCleared(K(work.block), work.id)
        /\ \A b \in Blocks : result[b].status = "restored" =>
              \A p \in 1..Len(result[b].data) :
                 p <= SymbolSize => Chacha20Xor(result[b].data, MakeNonce(b), 1)[p] = Zero

(* What tl_decrypt makes of a ciphertext that begins with zeros. *)
LEMMA DecryptedFirst ==
    ASSUME PrimitivesTyped, NEW c \in Seq(Byte), NEW i \in Nat, Decrypt(c, MakeNonce(i)).ok,
           \A p \in 1..Len(c) : p <= SymbolSize => c[p] = Zero
    PROVE  \A p \in 1..Len(Decrypt(c, MakeNonce(i)).data) :
              p <= SymbolSize => Chacha20Xor(Decrypt(c, MakeNonce(i)).data, MakeNonce(i), 1)[p] = Zero
<1> DEFINE len == Len(c) - TagSize
           body == SubSeq(c, 1, len)
<1>1. Len(c) \in Nat /\ TagSize \in Nat
  BY LenProperties, CipherAssumption
<1>2. ~(len < 0) /\ Decrypt(c, MakeNonce(i)).data = Chacha20Xor(body, MakeNonce(i), 1)
  BY DEF Decrypt, Refused
<1>3. len \in Nat /\ len <= Len(c)
  BY <1>1, <1>2
<1>4. body \in Seq(Byte) /\ Len(body) = len /\ \A p \in 1..len : body[p] = c[p]
  <2>1. \A p \in 1..len : c[p] \in Byte
    BY <1>1, <1>3, ElementOfSeq
  <2> HIDE DEF len
  <2> QED BY <1>3, <2>1, SubSeqProperties
<1> HIDE DEF len, body
<1>5. /\ Len(Chacha20Xor(body, MakeNonce(i), 1)) = len
      /\ Chacha20Xor(Chacha20Xor(body, MakeNonce(i), 1), MakeNonce(i), 1) = body
  BY <1>4, Chacha20XorType, Chacha20XorTwice
<1>6. \A p \in 1..len : p <= SymbolSize => body[p] = Zero
  BY <1>1, <1>3, <1>4
<1> QED BY <1>2, <1>5, <1>6

LEMMA PivotClearedInv ==
    ASSUME PrimitivesTyped, PathInv, ClearedInv, Pivot
    PROVE  ClearedInv'
<1>1. SenderInv /\ ArrivedInv /\ WorkInv
  BY DEF PathInv
<1>2. /\ work.on /\ work.i < K(work.block) /\ Candidates(work.m, work.i) # {}
      /\ UNCHANGED <<file, tableEnd, next, encoded, frames, arrived, result>>
  BY DEF Pivot
<1> DEFINE p == Pivoted(tableEnd["receiver"], work.m, work.id, work.i)
<1>3. work' = [work EXCEPT !.i = @ + 1, !.m = p.m, !.id = p.id]
  BY DEF Pivot
<1>4. work # Idle
  BY <1>2 DEF Idle
<1>5. DOMAIN work = {"on", "block", "i", "m", "id"} /\ work.i \in 0..K(work.block)
  BY <1>1, <1>4 DEF WorkInv
<1>6. PICK w \in 0..next - 1 : w = work.block /\ Len(arrived[w]) >= K(w)
  BY <1>1, <1>4 DEF WorkInv
<1>7. /\ K(w) \in Nat /\ work.i \in Indices(K(w)) /\ 0 \in Indices(K(w))
      /\ Received(w).m = ReceivedRows(K(w), SymbolsOf(w))
      /\ SymbolsOf(w) \in [Indices(K(w)) -> Nat]
  <2>1. K(w) \in Nat
    BY <1>1, SentType
  <2>2. /\ \A i \in Indices(K(w)) : SymbolsOf(w)[i] \in Nat
        /\ Received(w).m = ReceivedRows(K(w), SymbolsOf(w))
    BY <1>1, <1>6, ReceivedType
  <2>3. SymbolsOf(w) \in [Indices(K(w)) -> Nat]
    BY <2>2 DEF SymbolsOf
  <2> QED BY <1>2, <1>5, <1>6, <2>1, <2>2, <2>3 DEF Indices
<1>8. /\ work'.block = w /\ work'.i = work.i + 1 /\ work'.m = p.m /\ work'.id = p.id
  <2> HIDE DEF p
  <2>1. work'.block = work.block
    BY <1>3, <1>5
  <2>2. work'.i = work.i + 1
    BY <1>3, <1>5
  <2>3. work'.m = p.m /\ work'.id = p.id
    BY <1>3, <1>5
  <2> QED BY <1>6, <2>1, <2>2, <2>3
<1>9. ASSUME tableEnd["receiver"] = Zero
      PROVE  FirstCleared(K(w), p.m) /\ FirstCleared(K(w), p.id)
  <2>1. CASE work.i = 0
    <3>1. work.m = ReceivedRows(K(w), SymbolsOf(w)) /\ work.id = Identity(K(w))
      BY <1>4, <1>6, <1>7, <1>9, <2>1 DEF ClearedInv
    <3>2. PICK k \in Nat : k = K(w)
      BY <1>7
    <3>3. PICK symbol \in [Indices(k) -> Nat] : symbol = SymbolsOf(w)
      BY <1>7, <3>2
    <3>4. /\ FirstCleared(k, Pivoted(Zero, work.m, Identity(k), 0).m)
          /\ FirstCleared(k, Pivoted(Zero, work.m, Identity(k), 0).id)
      BY <1>2, <1>7, <2>1, <3>1, <3>2, <3>3, FirstPivotClears
    <3> QED BY <1>9, <2>1, <3>1, <3>2, <3>4
  <2>2. CASE work.i # 0
    <3>1. FirstCleared(K(w), work.m) /\ FirstCleared(K(w), work.id)
      BY <1>4, <1>6, <1>9, <2>2 DEF ClearedInv
    <3>2. /\ FirstCleared(K(w), Pivoted(Zero, work.m, work.id, work.i).m)
          /\ FirstCleared(K(w), Pivoted(Zero, work.m, work.id, work.i).id)
      BY <1>2, <1>7, <2>2, <3>1, PivotLeavesCleared
    <3> QED BY <1>9, <3>2
  <2> QED BY <2>1, <2>2
<1> HIDE DEF p
<1>10. K(work.block)' = K(w) /\ Blocks' = Blocks
  BY <1>2, <1>8 DEF K, Length, Blocks
<1>11. work'.i # 0
  BY <1>5, <1>7, <1>8 DEF Indices
<1> QED BY <1>2, <1>8, <1>9, <1>10, <1>11 DEF ClearedInv

LEMMA FinishClearedInv ==
    ASSUME PrimitivesTyped, PathInv, ClearedInv, Finish
    PROVE  ClearedInv'
<1>1. SenderInv /\ ArrivedInv /\ WorkInv /\ ResultInv
  BY DEF PathInv
<1>2. work # Idle /\ work.i = K(work.block) /\ work' = Idle
      /\ UNCHANGED <<file, tableEnd, next, encoded, frames, arrived>>
  BY DEF Finish, Idle, EndsAs
<1>3. PICK w \in 0..next - 1 : w = work.block
  BY <1>1, <1>2 DEF WorkInv
<1> DEFINE received == [i \in 0..K(w) - 1 |-> arrived[w][i + 1].data]
           cipher == Recovered(tableEnd["receiver"], work.id, received, Length(w))
           plain == Decrypt(cipher, MakeNonce(w))
<1>4. result' = [result EXCEPT ![w] = [status |-> IF plain.ok THEN "restored" ELSE "refused",
                                       data |-> plain.data]]
  BY <1>3 DEF Finish, EndsAs
<1>5. w \in Blocks /\ w \in Nat /\ Length(w) \in Nat /\ K(w) = SourceCount(Length(w))
  BY <1>1, SentType DEF K, Blocks
<1>6. cipher \in Seq(Byte) /\ Len(cipher) = Length(w)
  <2>1. \A p \in 1..Length(w) : cipher[p] \in Byte
    BY DEF Recovered, Combined, XorOver, Byte
  <2>2. cipher = [p \in 1..Length(w) |-> cipher[p]]
    BY DEF Recovered
  <2> HIDE DEF cipher
  <2>3. cipher \in [1..Length(w) -> Byte]
    BY <2>1, <2>2
  <2>4. cipher \in Seq(Byte)
    BY <1>5, <2>3, SeqDef
  <2>5. DOMAIN cipher = 1..Length(w) /\ DOMAIN cipher = 1..Len(cipher) /\ Len(cipher) \in Nat
    BY <2>3, <2>4, LenProperties
  <2> QED BY <1>5, <2>4, <2>5
<1>7. ASSUME tableEnd["receiver"] = Zero, NEW p \in 1..Length(w), p <= SymbolSize
      PROVE  cipher[p] = Zero
  <2>1. K(w) # 0
    <3>1. (p - 1) \div SymbolSize \in Indices(SourceCount(Length(w)))
      BY <1>5, BytePosition
    <3> QED BY <1>5, <3>1 DEF Indices
  <2>2. FirstCleared(K(w), work.id) /\ K(w) \in Nat
    BY <1>2, <1>3, <1>5, <1>7, <2>1, SourceCountType DEF ClearedInv
  <2>3. PICK len \in Nat, k \in Nat : len = Length(w) /\ k = K(w)
    BY <1>5, <2>2
  <2>4. PICK inverse, symbols : inverse = work.id /\ symbols = received
    OBVIOUS
  <2>5. Recovered(Zero, inverse, symbols, len)[p] = Zero
    BY <1>7, <2>2, <2>3, <2>4, FirstSymbolZero
  <2> QED BY <1>7, <2>3, <2>4, <2>5
<1> HIDE DEF cipher
<1>8. ASSUME tableEnd["receiver"] = Zero, plain.ok
      PROVE  \A p \in 1..Len(plain.data) :
                p <= SymbolSize => Chacha20Xor(plain.data, MakeNonce(w), 1)[p] = Zero
  <2>1. PICK c \in Seq(Byte) : c = cipher
    BY <1>6
  <2>2. \A p \in 1..Len(c) : p <= SymbolSize => c[p] = Zero
    BY <1>6, <1>7, <1>8, <2>1
  <2>3. Decrypt(c, MakeNonce(w)).ok
    BY <1>8, <2>1
  <2>4. \A p \in 1..Len(Decrypt(c, MakeNonce(w)).data) :
            p <= SymbolSize => Chacha20Xor(Decrypt(c, MakeNonce(w)).data, MakeNonce(w), 1)[p] = Zero
    BY <1>5, <2>2, <2>3, DecryptedFirst
  <2> QED BY <2>1, <2>4
<1> HIDE DEF plain
<1>9. Blocks' = Blocks /\ DOMAIN result = Blocks
  BY <1>1, <1>2 DEF Blocks, ResultInv
<1>10. ASSUME tableEnd["receiver"] = Zero, NEW b \in Blocks, result'[b].status = "restored"
       PROVE  \A p \in 1..Len(result'[b].data) :
                 p <= SymbolSize => Chacha20Xor(result'[b].data, MakeNonce(b), 1)[p] = Zero
  <2>1. CASE b = w
    <3>1. result'[b].data = plain.data /\ plain.ok
      BY <1>4, <1>9, <1>10, <2>1
    <3> QED BY <1>8, <1>10, <2>1, <3>1
  <2>2. CASE b # w
    BY <1>4, <1>9, <1>10, <2>2 DEF ClearedInv
  <2> QED BY <2>1, <2>2
<1> QED BY <1>2, <1>9, <1>10 DEF ClearedInv

LEMMA ClearedInvStep == PrimitivesTyped /\ PathInv /\ ClearedInv /\ [Next]_vars => ClearedInv'
<1> SUFFICES ASSUME PrimitivesTyped, PathInv, ClearedInv, [Next]_vars
             PROVE  ClearedInv'
  OBVIOUS
<1>1. WorkInv /\ ResultInv
  BY DEF PathInv
<1>2. ASSUME UNCHANGED <<file, tableEnd, work, result>>,
             work # Idle => /\ encoded'[work.block] = encoded[work.block]
                            /\ arrived'[work.block] = arrived[work.block]
      PROVE  ClearedInv'
  <2>1. work # Idle => /\ K(work.block)' = K(work.block)
                       /\ Received(work.block)' = Received(work.block)
    BY <1>2 DEF K, Length, Received
  <2> QED BY <1>2, <2>1 DEF ClearedInv, Blocks
<1>3. CASE SendBlock
  <2>1. UNCHANGED <<file, tableEnd, arrived, work, result>>
    BY <1>3 DEF SendBlock
  <2>2. ASSUME work # Idle
        PROVE  encoded'[work.block] = encoded[work.block]
    <3>1. PICK data, n :
              n = next /\ encoded' = [b \in 0..n |-> IF b = n THEN data ELSE encoded[b]]
      BY <1>3 DEF SendBlock
    <3>2. work.block \in 0..n - 1 /\ n \in Nat
      BY <1>1, <2>2, <3>1, PathAssumption, LenProperties, TotalBlocksType
         DEF WorkInv, PathInv, SenderInv
    <3> QED BY <3>1, <3>2
  <2> QED BY <1>2, <2>1, <2>2
<1>4. ASSUME NEW f \in frames, Arrive(f)
      PROVE  ClearedInv'
  <2>1. UNCHANGED <<file, tableEnd, work, result>> /\ ~work.on
    BY <1>4 DEF Arrive
  <2>2. work = Idle
    BY <1>1, <2>1 DEF WorkInv
  <2> QED BY <1>2, <2>1, <2>2
<1>5. ASSUME NEW b \in Blocks, StartDecode(b)
      PROVE  ClearedInv'
  <2>1. /\ work'.i = 0 /\ work'.block = b
        /\ work'.m = Received(b).m /\ work'.id = Received(b).id
        /\ UNCHANGED <<file, tableEnd, next, encoded, frames, arrived, result>>
    BY <1>5 DEF StartDecode
  <2>2. Received(b).id = Identity(K(b))
    BY DEF Received
  <2>3. K(work.block)' = K(b) /\ Received(work.block)' = Received(b) /\ Blocks' = Blocks
    BY <2>1 DEF K, Length, Received, Blocks
  <2> QED BY <2>1, <2>2, <2>3 DEF ClearedInv
<1>6. CASE Pivot
  BY <1>6, PivotClearedInv
<1>7. CASE Singular
  <2>1. /\ work' = Idle /\ UNCHANGED <<file, tableEnd>>
        /\ result' = [result EXCEPT ![work.block] = Fails]
    BY <1>7 DEF Singular, EndsAs, Fails
  <2>2. \A b \in Blocks : result'[b].status = "restored" => result'[b] = result[b]
    BY <1>1, <2>1 DEF ResultInv, Fails
  <2>3. Blocks' = Blocks
    BY <2>1 DEF Blocks
  <2> QED BY <2>1, <2>2, <2>3 DEF ClearedInv
<1>8. CASE Finish
  BY <1>8, FinishClearedInv
<1>9. CASE UNCHANGED vars
  <2>1. UNCHANGED <<file, tableEnd, next, encoded, frames, arrived, work, result>>
    BY <1>9 DEF vars
  <2> QED BY <1>2, <2>1
<1> QED BY <1>3, <1>4, <1>5, <1>6, <1>7, <1>8, <1>9 DEF Next, Decode

(* A receiver whose entry 255 reads 0, as gf_init leaves it, gives no block back:
   not one of which nothing was lost, and whatever the sender's tables hold.  Left
   out are the blocks whose ciphertext begins with a symbol of zeros. *)
NeverRestored ==
    \A b \in Blocks :
        /\ result[b] # Pending /\ tableEnd["receiver"] = Zero
        /\ \E p \in 1..Len(encoded[b]) : p <= SymbolSize /\ Ciphertext(b)[p] # Zero
        => result[b] # Succeeds(b)

(* reed_solomon_fec.h:46 undoes the decoder: the first pivot is 1, whose inverse
   gf_inv reads from entry 255, so the first row of both matrices is scaled to zero,
   and the first symbol of whatever is recovered is lost. *)
THEOREM ClearedTableNeverRestores == ASSUME PrimitivesTyped PROVE Spec => []NeverRestored
<1>1. Spec => []PathInv
  BY PathCorrect
<1>2. Init => ClearedInv
  <2> SUFFICES ASSUME Init
               PROVE  ClearedInv
    OBVIOUS
  <2>1. work = Idle /\ \A b \in Blocks : result[b].status = "pending"
    BY DEF Init, Pending
  <2> QED BY <2>1 DEF ClearedInv
<1>3. PathInv /\ ClearedInv /\ [Next]_vars => ClearedInv'
  BY ClearedInvStep
<1>4. PathInv /\ ClearedInv => NeverRestored
  <2> SUFFICES ASSUME PathInv, ClearedInv, NEW b \in Blocks, result[b] = Succeeds(b),
                      result[b] # Pending, tableEnd["receiver"] = Zero,
                      NEW p \in 1..Len(encoded[b]), p <= SymbolSize
               PROVE  Ciphertext(b)[p] = Zero
    BY DEF NeverRestored
  <2>1. SenderInv /\ b < next
    BY DEF PathInv, ResultInv
  <2>2. b \in 0..next - 1 /\ b \in Nat
    BY <2>1, PathAssumption, LenProperties, TotalBlocksType DEF Blocks, SenderInv
  <2>3. PICK pt \in Seq(Byte) : pt = encoded[b]
    BY <2>1, <2>2, SentType
  <2>4. Chacha20Xor(pt, MakeNonce(b), 1)[p] = Zero
    BY <2>3 DEF ClearedInv, Succeeds
  <2>5. PICK ct \in Seq(Byte) : ct = Chacha20Xor(pt, MakeNonce(b), 1) /\ Len(ct) = Len(pt)
    BY <2>2, Chacha20XorType
  <2>6. Tag(Keystream(MakeNonce(b), 0), ct) \in Seq(Byte)
    <3>1. 0 \in Nat
      OBVIOUS
    <3> QED BY <2>2, <3>1 DEF PrimitivesTyped
  <2>7. PICK tag \in Seq(Byte) : tag = Tag(Keystream(MakeNonce(b), 0), ct)
    BY <2>6
  <2>8. Ciphertext(b) = ct \o tag
    BY <2>3, <2>5, <2>7 DEF Ciphertext, Encrypt
  <2>9. (ct \o tag)[p] = ct[p]
    BY <2>3, <2>5, LenProperties, ConcatProperties
  <2> QED BY <2>4, <2>5, <2>8, <2>9
<1> QED BY <1>1, <1>2, <1>3, <1>4, PTL DEF Spec

-----------------------------------------------------------------------------
(* The file put together again *)

(* Element i of W is the first i sequences of s, one after the other. *)
Joined(W, s, n) ==
    /\ W = [i \in 1..n |-> W[i]]
    /\ \A i \in 1..n : W[i] = IF i = 1 THEN s[i] ELSE W[i - 1] \o s[i]

(* FlattenSeq appends the sequences one by one. *)
LEMMA FlattenAppends ==
    ASSUME NEW n \in Nat \ {0}, NEW s, Len(s) = n, NEW W, Joined(W, s, n)
    PROVE  FlattenSeq(s) = W[n]
<1> DEFINE Appends(f) == f = [i \in 1..n |-> IF i = 1 THEN s[i] ELSE f[i - 1] \o s[i]]
           g == CHOOSE f : Appends(f)
<1>1. FlattenSeq(s) = g[n]
  <2>1. Len(s) # 0
    OBVIOUS
  <2> QED BY <2>1, Zenon DEF FlattenSeq
<1>2. Appends(g)
  <2>1. Appends(W)
    BY DEF Joined
  <2> HIDE DEF Appends
  <2> QED BY <2>1, Zenon
<1> HIDE DEF g
<1>3. \A i \in 1..n : g[i] = IF i = 1 THEN s[i] ELSE g[i - 1] \o s[i]
  BY <1>2, Zenon
<1> HIDE DEF Appends
<1> DEFINE P == {i \in 0..n : i > 0 => g[i] = W[i]}
<1>4. ASSUME NEW i \in 0..n, i < n, i \in P
      PROVE  i + 1 \in P
  <2>1. i + 1 \in 1..n /\ (i + 1) - 1 = i
    BY <1>4
  <2>2. CASE i = 0
    BY <1>3, <2>1, <2>2 DEF Joined
  <2>3. CASE i > 0
    <3>1. g[i] = W[i] /\ i + 1 # 1
      BY <1>4, <2>3
    <3>2. g[i + 1] = g[i] \o s[i + 1]
      BY <1>3, <2>1, <3>1
    <3>3. W[i + 1] = W[i] \o s[i + 1]
      BY <2>1, <3>1 DEF Joined
    <3>4. g[i + 1] = W[i + 1]
      BY <3>1, <3>2, <3>3
    <3>5. i + 1 \in 0..n
      BY <2>1
    <3> QED BY <3>4, <3>5
  <2> QED BY <2>2, <2>3
<1>5. 0 \in P
  OBVIOUS
<1> HIDE DEF P
<1>6. \A i \in 0..n : i \in P
  BY <1>4, <1>5, UpTo
<1>7. n \in 0..n /\ n > 0
  OBVIOUS
<1> QED BY <1>1, <1>6, <1>7 DEF P

(* The blocks of a file in order are the file. *)
LEMMA BlocksOfFile ==
    ASSUME file \in Seq(Byte), file # << >>, NEW n, n = TotalBlocks(Len(file))
    PROVE  FlattenSeq([i \in 1..n |-> GetBlock(i - 1)]) = file
<1> DEFINE s == [i \in 1..n |-> GetBlock(i - 1)]
           End(i) == IF i * BlockSize < Len(file) THEN i * BlockSize ELSE Len(file)
           W == [i \in 1..n |-> SubSeq(file, 1, End(i))]
<1>1. Len(file) \in Nat /\ Len(file) > 0 /\ BlockSize \in Nat /\ BlockSize > 0
  BY PathAssumption, EmptySeq, LenProperties
<1>2. n \in Nat /\ BlockSize * n >= Len(file)
  <2> DEFINE a == Len(file) + BlockSize - 1
  <2>1. a \in Nat /\ n = a \div BlockSize
    BY <1>1 DEF TotalBlocks
  <2> HIDE DEF a
  <2>2. n \in Nat /\ BlockSize * n + (a % BlockSize) = a /\ (a % BlockSize) < BlockSize
        /\ (a % BlockSize) \in Nat
    BY <1>1, <2>1
  <2>3. BlockSize * n \in Nat
    <3>1. n \in Nat
      BY <2>2
    <3> QED BY <1>1, <3>1
  <2> QED BY <1>1, <2>2, <2>3 DEF a
<1>3. n \in Nat \ {0}
  BY <1>1, <1>2
<1>4. \A i \in 1..n : i - 1 \in Blocks
  BY <1>2 DEF Blocks
<1>5. s \in Seq(Seq(Byte)) /\ Len(s) = n
  <2>1. \A i \in 1..n : GetBlock(i - 1) \in Seq(Byte)
    BY <1>4, GetBlockType
  <2>2. s \in [1..n -> Seq(Byte)]
    BY <2>1
  <2> HIDE DEF s
  <2>3. s \in Seq(Seq(Byte))
    BY <1>2, <2>2, SeqDef
  <2> QED BY <1>2, <2>2, <2>3, LenProperties
<1>6. ASSUME NEW i \in 1..n
      PROVE  /\ (i - 1) * BlockSize \in 0..Len(file) /\ End(i - 1) = (i - 1) * BlockSize
             /\ End(i) \in (i - 1) * BlockSize..Len(file)
             /\ GetBlock(i - 1) = SubSeq(file, (i - 1) * BlockSize + 1, End(i))
  <2>1. (i - 1) * BlockSize \in Nat /\ (i - 1) * BlockSize < Len(file)
    BY <1>4, GetBlockType
  <2>2. i * BlockSize = (i - 1) * BlockSize + BlockSize /\ i - 1 + 1 = i
    BY <1>1, <1>2
  <2>3. GetBlock(i - 1) = SubSeq(file, (i - 1) * BlockSize + 1,
                                 IF Len(file) - (i - 1) * BlockSize < BlockSize
                                 THEN Len(file) ELSE i * BlockSize)
    BY <2>2 DEF GetBlock
  <2> DEFINE t == (i - 1) * BlockSize
  <2>4. End(i - 1) = t /\ t \in 0..Len(file)
    BY <1>1, <2>1
  <2> HIDE DEF t
  <2>5. End(i) = IF Len(file) - t < BlockSize THEN Len(file) ELSE i * BlockSize
    BY <1>1, <2>1, <2>2 DEF t
  <2>6. End(i) \in t..Len(file)
    BY <1>1, <2>1, <2>2 DEF t
  <2> QED BY <2>3, <2>4, <2>5, <2>6 DEF t
<1>7. ASSUME NEW i \in 1..n
      PROVE  W[i] = IF i = 1 THEN s[i] ELSE W[i - 1] \o s[i]
  <2> DEFINE t == (i - 1) * BlockSize
             e == End(i)
  <2>1. s[i] = SubSeq(file, t + 1, e) /\ W[i] = SubSeq(file, 1, e)
    BY <1>6
  <2>2. CASE i = 1
    <3>1. t = 0
      BY <1>1, <2>2
    <3> HIDE DEF e, t
    <3>2. t + 1 = 1
      BY <3>1
    <3> QED BY <2>1, <2>2, <3>2
  <2>3. CASE i # 1
    <3>1. W[i - 1] = SubSeq(file, 1, t)
      BY <1>2, <1>6, <2>3
    <3>2. t \in 0..Len(file) /\ e \in t..Len(file)
      BY <1>6
    <3> HIDE DEF e, t, s, W
    <3>3. SubSeq(file, 1, t) \o SubSeq(file, t + 1, e) = SubSeq(file, 1, e)
      <4>1. 1 \in 1..Len(file) + 1 /\ t \in 1 - 1..Len(file)
        BY <1>1, <3>2
      <4> QED BY <3>2, <4>1, ConcatAdjacentSubSeq
    <3> QED BY <2>1, <2>3, <3>1, <3>3
  <2> QED BY <2>2, <2>3
<1>8. Joined(W, s, n)
  <2>1. W = [i \in 1..n |-> W[i]]
    OBVIOUS
  <2> HIDE DEF W, s
  <2> QED BY <1>7, <2>1 DEF Joined
<1>9. W[n] = file
  <2>1. End(n) = Len(file)
    BY <1>1, <1>2
  <2>2. W[n] = SubSeq(file, 1, Len(file))
    BY <1>3, <2>1
  <2> QED BY <2>2, SubSeqFull
<1> HIDE DEF s, W
<1>10. FlattenSeq(s) = W[n]
  BY <1>3, <1>5, <1>8, FlattenAppends
<1> QED BY <1>9, <1>10 DEF s

LEMMA RestoredFollows == PrimitivesTyped /\ PathInv => FileRestored
<1> SUFFICES ASSUME PrimitivesTyped, PathInv, Exact, next = TotalBlocks(Len(file)),
                    \A b \in Blocks : result[b].status = "restored" /\ encoded[b] # << >>
             PROVE  FlattenSeq([i \in 1..next |-> result[i - 1].data]) = file
  BY DEF FileRestored
<1>1. file \in Seq(Byte) /\ file # << >> /\ next \in Nat /\ Blocks = 0..next - 1
  BY PathAssumption, LenProperties, TotalBlocksType DEF PathInv, SenderInv, Blocks
<1>2. ASSUME NEW b \in Blocks
      PROVE  result[b].data = GetBlock(b)
  <2>1. result[b] # Pending /\ result[b] # Fails
    BY DEF Pending, Fails
  <2>2. result[b] = Succeeds(b)
    BY <2>1 DEF PathInv, ResultInv, RightOrSingular
  <2>3. encoded[b] = GetBlock(b)
    BY <1>1 DEF PathInv, SenderInv, Compressed
  <2> QED BY <2>2, <2>3 DEF Succeeds
<1>3. \A i \in 1..next : i - 1 \in Blocks
  BY <1>1
<1>4. [i \in 1..next |-> result[i - 1].data] = [i \in 1..next |-> GetBlock(i - 1)]
  BY <1>2, <1>3
<1>5. PICK n : n = next
  OBVIOUS
<1>6. FlattenSeq([i \in 1..n |-> GetBlock(i - 1)]) = file
  BY <1>1, <1>5, BlocksOfFile
<1> QED BY <1>4, <1>5, <1>6

(* When every block came through, the blocks put together in order are the file
   that tl_send_file mapped: tl_mmap_get_block cuts it without gap or overlap. *)
THEOREM FileAlwaysRestored == ASSUME PrimitivesTyped PROVE Spec => []FileRestored
<1>1. Spec => []PathInv
  BY PathCorrect
<1>2. PathInv => FileRestored
  BY RestoredFollows
<1> QED BY <1>1, <1>2, PTL

-----------------------------------------------------------------------------
(* The path implements Delivery *)

EncodedInv == DOMAIN encoded = 0..next - 1

(* What Delivery calls the end of a block. *)
LEMMA EndImplements ==
    ASSUME PathInv, EncodedInv, NEW out, DecodeEnds(out),
           \/ out.status \in {"singular", "refused"}
           \/ out = Succeeds(work.block)
    PROVE  Promise!Next
<1>1. SenderInv /\ WorkInv /\ ResultInv
  BY DEF PathInv
<1>2. PICK w \in 0..next - 1 : w = work.block /\ result[w] = Pending
  BY <1>1 DEF WorkInv, DecodeEnds
<1>3. w \in Blocks /\ w \in DOMAIN encoded
  BY <1>1, <1>2, PathAssumption, LenProperties, TotalBlocksType DEF SenderInv, Blocks, EncodedInv
<1>4. /\ UNCHANGED <<file, encoded>> /\ DOMAIN result = Blocks
      /\ result' = [result EXCEPT ![w] = out]
  BY <1>1, <1>2 DEF DecodeEnds, ResultInv
<1>5. \A b \in Blocks : result'[b] = IF b = w THEN out ELSE result[b]
  BY <1>4
<1>6. Blocks' = Blocks /\ \A b : GetBlock(b)' = GetBlock(b)
  BY <1>4 DEF Blocks, GetBlock
<1>7. result[w].status = "pending"
  BY <1>2 DEF Pending
<1>8. Promise!Open(w)
  BY <1>3, <1>7 DEF Promise!Open, Ended
<1>9. UNCHANGED [b \in Blocks |-> GetBlock(b)]
  BY <1>6
<1>10. CASE out.status \in {"singular", "refused"}
  <2>1. Ended({"singular", "refused"})' = Ended({"singular", "refused"}) \cup {w}
    BY <1>3, <1>5, <1>6, <1>10 DEF Ended
  <2>2. Ended({"restored"})' = Ended({"restored"})
    BY <1>3, <1>5, <1>6, <1>7, <1>10 DEF Ended
  <2>3. \A b \in Ended({"restored"}) : result'[b].data = result[b].data
    BY <1>5, <1>7 DEF Ended
  <2>4. UNCHANGED {<<b, result[b].data>> : b \in Ended({"restored"})}
    BY <2>2, <2>3
  <2>5. Promise!Lose(w)
    BY <1>4, <1>8, <1>9, <2>1, <2>4 DEF Promise!Lose
  <2> QED BY <1>3, <2>5 DEF Promise!Next
<1>11. CASE out = Succeeds(w)
  <2>1. out.status = "restored" /\ out.data = encoded[w]
    BY <1>11 DEF Succeeds
  <2>2. Ended({"singular", "refused"})' = Ended({"singular", "refused"})
    BY <1>3, <1>5, <1>6, <1>7, <2>1 DEF Ended
  <2>3. Ended({"restored"})' = Ended({"restored"}) \cup {w}
    BY <1>3, <1>5, <1>6, <2>1 DEF Ended
  <2>4. \A b \in Ended({"restored"}) : result'[b].data = result[b].data
    BY <1>5, <1>7 DEF Ended
  <2>5. result'[w].data = encoded[w]
    BY <1>3, <1>5, <2>1
  <2>6. {<<b, result[b].data>> : b \in Ended({"restored"})}'
            = {<<b, result[b].data>> : b \in Ended({"restored"})} \cup {<<w, encoded[w]>>}
    BY <2>3, <2>4, <2>5
  <2>7. Promise!Deliver(w)
    BY <1>4, <1>8, <1>9, <2>2, <2>6 DEF Promise!Deliver
  <2> QED BY <1>3, <2>7 DEF Promise!Next
<1> QED BY <1>2, <1>10, <1>11

LEMMA SendImplements ==
    ASSUME PathInv, EncodedInv, SendBlock
    PROVE  Promise!Next
<1>1. PICK n \in Nat : n = next /\ n \in Blocks
  BY DEF SendBlock, Blocks
<1>2. PICK data \in {GetBlock(n), << >>} :
          encoded' = [b \in 0..n |-> IF b = n THEN data ELSE encoded[b]]
  BY <1>1 DEF SendBlock, Compressed
<1>3. Cardinality(DOMAIN encoded) = n
  <2>1. DOMAIN encoded = 0..n - 1
    BY <1>1 DEF EncodedInv
  <2>2. Cardinality(0..n - 1) = n
    BY <1>1, FS_Interval
  <2> QED BY <2>1, <2>2
<1>4. UNCHANGED <<file, result>>
  BY DEF SendBlock
<1>5. Blocks' = Blocks /\ \A b : GetBlock(b)' = GetBlock(b)
  BY <1>4 DEF Blocks, GetBlock
<1>6. UNCHANGED <<[b \in Blocks |-> GetBlock(b)],
                  {<<b, result[b].data>> : b \in Ended({"restored"})},
                  Ended({"singular", "refused"})>>
  BY <1>4, <1>5 DEF Ended
<1>7. Promise!Send
  BY <1>1, <1>2, <1>3, <1>6 DEF Promise!Send
<1> QED BY <1>7 DEF Promise!Next

LEMMA FinishEnds ==
    ASSUME Finish
    PROVE  \E out : DecodeEnds(out) /\ out.status \in {"restored", "refused"}
<1> DEFINE received == [i \in 0..K(work.block) - 1 |-> arrived[work.block][i + 1].data]
           plain == Decrypt(Recovered(tableEnd["receiver"], work.id, received,
                                      Length(work.block)), MakeNonce(work.block))
<1>1. /\ work.on
      /\ EndsAs(work.block, IF plain.ok THEN "restored" ELSE "refused", plain.data)
  BY DEF Finish
<1>2. PICK out : out = [status |-> IF plain.ok THEN "restored" ELSE "refused",
                        data |-> plain.data]
  OBVIOUS
<1>3. out.status \in {"restored", "refused"}
  BY <1>2
<1>4. DecodeEnds(out)
  <2> HIDE DEF plain
  <2> QED BY <1>1, <1>2 DEF EndsAs, Idle, DecodeEnds
<1> QED BY <1>3, <1>4

(* A step of the path is one of Delivery or none, as long as a block that passes
   the tag is the block that was sent. *)
LEMMA StepImplements ==
    ASSUME PathInv, EncodedInv, [Next]_vars,
           Finish => \/ result'[work.block].status = "refused"
                     \/ result'[work.block] = Succeeds(work.block)
    PROVE  [Promise!Next]_(Promise!vars)
<1>1. WorkInv /\ ResultInv /\ SenderInv
  BY DEF PathInv
<1>2. CASE SendBlock
  BY <1>2, SendImplements
<1>3. ASSUME UNCHANGED <<file, encoded, result>>
      PROVE  UNCHANGED Promise!vars
  BY <1>3 DEF Promise!vars, Blocks, GetBlock, Ended
<1>4. ASSUME NEW f \in frames, Arrive(f)  PROVE UNCHANGED Promise!vars
  BY <1>3, <1>4 DEF Arrive
<1>5. ASSUME NEW b \in Blocks, StartDecode(b)  PROVE UNCHANGED Promise!vars
  BY <1>3, <1>5 DEF StartDecode
<1>6. CASE Pivot
  BY <1>3, <1>6 DEF Pivot
<1>7. CASE Singular
  <2>1. DecodeEnds(Fails) /\ Fails.status = "singular"
    BY <1>7 DEF Singular, Idle, EndsAs, Fails, DecodeEnds
  <2> QED BY <2>1, EndImplements
<1>8. CASE Finish
  <2>1. PICK out : DecodeEnds(out)
    BY <1>8, FinishEnds
  <2>2. work.block \in DOMAIN result
    <3>1. work.block \in 0..next - 1
      BY <1>1, <2>1 DEF WorkInv, DecodeEnds
    <3>2. work.block \in Blocks
      BY <1>1, <3>1, PathAssumption, LenProperties, TotalBlocksType DEF SenderInv, Blocks
    <3> QED BY <1>1, <3>2 DEF ResultInv
  <2>3. result'[work.block] = out
    BY <2>1, <2>2 DEF DecodeEnds
  <2>4. out.status = "refused" \/ out = Succeeds(work.block)
    BY <1>8, <2>3
  <2> QED BY <2>1, <2>4, EndImplements
<1>9. CASE UNCHANGED vars
  BY <1>3, <1>9 DEF vars
<1> QED BY <1>2, <1>4, <1>5, <1>6, <1>7, <1>8, <1>9 DEF Next, Decode

LEMMA InitImplements == Init => Promise!Init
<1> SUFFICES ASSUME Init
             PROVE  Promise!Init
  OBVIOUS
<1>1. file \in Seq(Byte)
  BY PathAssumption DEF Init
<1>2. PICK n \in Nat : n = TotalBlocks(Len(file))
  <2>1. Len(file) \in Nat
    BY <1>1, LenProperties
  <2> QED BY <2>1, TotalBlocksType
<1>3. DOMAIN [b \in Blocks |-> GetBlock(b)] = 0..n - 1
  BY <1>2 DEF Blocks
<1>4. Cardinality(0..n - 1) = n
  BY <1>2, FS_Interval
<1>5. DOMAIN [b \in Blocks |-> GetBlock(b)]
          = 0..Cardinality(DOMAIN [b \in Blocks |-> GetBlock(b)]) - 1
  BY <1>3, <1>4
<1>6. \A b \in Blocks : result[b].status = "pending"
  BY DEF Init, Pending
<1>7. Ended({"singular", "refused"}) = {} /\ Ended({"restored"}) = {}
  BY <1>6 DEF Ended
<1>8. {<<b, result[b].data>> : b \in Ended({"restored"})} = {}
  BY <1>7
<1>9. encoded = << >>
  BY DEF Init
<1> QED BY <1>5, <1>7, <1>8, <1>9 DEF Promise!Init, Promise!Cardinality, Cardinality

LEMMA EncodedInvStep == EncodedInv /\ [Next]_vars => EncodedInv'
<1> SUFFICES ASSUME EncodedInv, [Next]_vars
             PROVE  EncodedInv'
  OBVIOUS
<1>1. CASE SendBlock
  <2>1. PICK n \in Nat : n = next /\ next' = n + 1 /\ n \in Blocks
    BY <1>1 DEF SendBlock, Blocks
  <2>2. PICK data \in {GetBlock(n), << >>} :
            encoded' = [b \in 0..n |-> IF b = n THEN data ELSE encoded[b]]
    BY <1>1, <2>1 DEF SendBlock, Compressed
  <2>3. next' - 1 = n
    BY <2>1
  <2> QED BY <2>2, <2>3 DEF EncodedInv
<1>2. CASE UNCHANGED <<next, encoded>>
  BY <1>2 DEF EncodedInv
<1> QED BY <1>1, <1>2 DEF Next, Decode, Arrive, StartDecode, Pivot, Singular, Finish,
                         EndsAs, vars

LEMMA EncodedAlways == Spec => []EncodedInv
<1>1. Init => EncodedInv
  BY DEF Init, EncodedInv
<1> QED BY <1>1, EncodedInvStep, PTL DEF Spec

(* With exact tables the path implements Delivery: a block sent ends once, and is
   then given up or passed on as it was sent. *)
THEOREM PathImplementsDelivery ==
    ASSUME PrimitivesTyped
    PROVE  Spec /\ Exact => DeliverySpec
<1>1. Exact /\ [Next]_vars => Exact'
  BY DEF Next, SendBlock, Decode, Arrive, StartDecode, Pivot, Singular, Finish, EndsAs, vars,
         Exact
<1>2. PathInv /\ PathInv' /\ EncodedInv /\ Exact /\ [Next]_vars
          => [Promise!Next]_(Promise!vars)
  <2> SUFFICES ASSUME PathInv, PathInv', EncodedInv, Exact, [Next]_vars
               PROVE  [Promise!Next]_(Promise!vars)
    OBVIOUS
  <2>1. ASSUME Finish
        PROVE  result'[work.block] = Succeeds(work.block)
    <3>1. PICK out : DecodeEnds(out) /\ out.status \in {"restored", "refused"}
      BY <2>1, FinishEnds
    <3>2. PICK w \in 0..next - 1 : w = work.block
      BY <3>1 DEF PathInv, WorkInv, DecodeEnds
    <3>3. w \in Blocks /\ DOMAIN result = Blocks
      <4>1. SenderInv /\ ResultInv
        BY DEF PathInv
      <4>2. w \in Blocks
        BY <3>2, <4>1, PathAssumption, LenProperties, TotalBlocksType DEF SenderInv, Blocks
      <4> QED BY <4>1, <4>2 DEF ResultInv
    <3>4. result'[w] = out /\ Blocks' = Blocks /\ Succeeds(w)' = Succeeds(w)
      BY <3>1, <3>2, <3>3 DEF DecodeEnds, Blocks, Succeeds
    <3>5. result'[w] \in {Fails, Succeeds(w)}
      <4>1. result'[w] # Pending /\ Exact'
        BY <1>1, <3>1, <3>4 DEF Pending
      <4> QED BY <3>3, <3>4, <4>1 DEF PathInv, ResultInv, RightOrSingular
    <3> QED BY <3>1, <3>2, <3>4, <3>5 DEF Fails
  <2> QED BY <2>1, StepImplements
<1> QED BY <1>1, <1>2, InitImplements, EncodedAlways, PathCorrect, PTL
    DEF Spec, DeliverySpec, Promise!Spec

(* What the decoder leaves in tl_decrypt's buffer, if it passes the tag, is what was
   sent: what Poly1305 is there for.  With exact tables it is true of any tag. *)
NoForgery ==
    work.on /\ work.i = K(work.block) =>
        LET b        == work.block
            received == [i \in 0..K(b) - 1 |-> arrived[b][i + 1].data]
            plain    == Decrypt(Recovered(tableEnd["receiver"], work.id, received, Length(b)),
                                MakeNonce(b))
        IN  plain.ok => plain.data = encoded[b]

(* Whatever the tables hold at either end, a tag that lets nothing else pass makes
   the path implement Delivery; TLC finds that the tag of the run is such a one. *)
THEOREM TagGuardsDelivery ==
    ASSUME PrimitivesTyped
    PROVE  Spec /\ []NoForgery => DeliverySpec
<1>1. PathInv /\ EncodedInv /\ NoForgery /\ [Next]_vars => [Promise!Next]_(Promise!vars)
  <2> SUFFICES ASSUME PathInv, EncodedInv, NoForgery, [Next]_vars
               PROVE  [Promise!Next]_(Promise!vars)
    OBVIOUS
  <2>1. ASSUME Finish
        PROVE  \/ result'[work.block].status = "refused"
               \/ result'[work.block] = Succeeds(work.block)
    <3> DEFINE received == [i \in 0..K(work.block) - 1 |-> arrived[work.block][i + 1].data]
               plain == Decrypt(Recovered(tableEnd["receiver"], work.id, received,
                                          Length(work.block)), MakeNonce(work.block))
    <3>1. work.on /\ work.i = K(work.block)
      BY <2>1 DEF Finish
    <3>2. result' = [result EXCEPT ![work.block] =
                        [status |-> IF plain.ok THEN "restored" ELSE "refused",
                         data |-> plain.data]]
      BY <2>1 DEF Finish, EndsAs
    <3>3. plain.ok => plain.data = encoded[work.block]
      BY <3>1 DEF NoForgery
    <3> HIDE DEF plain
    <3>4. work.block \in DOMAIN result
      <4>1. work.block \in 0..next - 1
        BY <3>1 DEF PathInv, WorkInv, Idle
      <4>2. work.block \in Blocks
        BY <4>1, PathAssumption, LenProperties, TotalBlocksType DEF PathInv, SenderInv, Blocks
      <4> QED BY <4>2 DEF PathInv, ResultInv
    <3> QED BY <3>2, <3>3, <3>4 DEF Succeeds
  <2> QED BY <2>1, StepImplements
<1> QED BY <1>1, InitImplements, EncodedAlways, PathCorrect, PTL
    DEF Spec, DeliverySpec, Promise!Spec
=============================================================================
