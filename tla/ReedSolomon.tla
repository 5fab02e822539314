----------------------------- MODULE ReedSolomon -----------------------------
(***************************************************************************)
(* The erasure code of reed_solomon_fec.h: the encoding matrix, systematic *)
(* encoding, one pivot of the Gaussian elimination that decoding does, and *)
(* the application of the inverse.                                         *)
(***************************************************************************)
EXTENDS GaloisField, Sequences, FiniteSetsExt

CONSTANTS SymbolSize,  \* bytes of a symbol (1400)
          RepairNum,   \* repair_ratio, as a fraction
          RepairDen,
          FieldLimit   \* the most symbols of a block (255)

ASSUME CodeAssumption ==
    /\ SymbolSize \in Nat \ {0}
    /\ RepairNum \in Nat
    /\ RepairDen \in Nat \ {0}
    /\ FieldLimit \in 0..255

-----------------------------------------------------------------------------
(* Encoding *)

SourceCount(len) == (len + SymbolSize - 1) \div SymbolSize

RepairCount(k) == Max({1, (k * RepairNum) \div RepairDen})

(* rs_encode refuses a block that outgrows the field. *)
SymbolCount(len) ==
    LET n == SourceCount(len) + RepairCount(SourceCount(len))
    IN  IF n > FieldLimit THEN 0 ELSE n

(* Row `row' of the encoding matrix of k columns. *)
Row(row, k) ==
    [col \in 0..k - 1 |->
        IF row < k THEN IF row = col THEN One ELSE Zero
        ELSE Power[((row - k + 1) * col) % 255]]

(* The last source symbol is padded with zero bytes. *)
Source(block, i) ==
    [p \in 1..SymbolSize |->
        IF i * SymbolSize + p <= Len(block)
        THEN block[i * SymbolSize + p] ELSE Zero]

(* Byte p of sum_j coeffs[j] * symbols[j], as gf_mul_xor_region adds it up. *)
Combined(end, coeffs, symbols, p) ==
    XorOver(DOMAIN coeffs,
            [j \in DOMAIN coeffs |-> Mul(end, coeffs[j], symbols[j][p])])

Encode(end, block) ==
    LET k      == SourceCount(Len(block))
        source == [i \in 0..k - 1 |-> Source(block, i)]
    IN  [i \in 0..SymbolCount(Len(block)) - 1 |->
            IF i < k THEN source[i]
            ELSE [p \in 1..SymbolSize |-> Combined(end, Row(i, k), source, p)]]

-----------------------------------------------------------------------------
(* Decoding: rs_invert_matrix turns <<m, id>>, first <<the rows received,
   the identity>>, pivot by pivot into <<the identity, the inverse>>. *)

Identity(k) == [row \in 0..k - 1 |-> [col \in 0..k - 1 |->
                                         IF row = col THEN One ELSE Zero]]

Candidates_Diagonal(m, i) == {i} \cap {j \in DOMAIN m : m[j][i] # Zero}

(* The rows that can supply pivot i; with none the matrix is singular. *)
Candidates(m, i) == {j \in DOMAIN m : j >= i /\ m[j][i] # Zero}

Swap(a, i, j) == [a EXCEPT ![i] = a[j], ![j] = a[i]]

Scale(end, a, i, c) ==
    [a EXCEPT ![i] = [col \in DOMAIN @ |-> Mul(end, @[col], c)]]

Eliminate_Below(end, a, i, factor) ==
    [j \in DOMAIN a |->
        IF j <= i THEN a[j]
        ELSE [col \in DOMAIN a[j] |->
                 Xor(a[j][col], Mul(end, a[i][col], factor[j]))]]

Eliminate(end, a, i, factor) ==
    [j \in DOMAIN a |->
        IF j = i THEN a[j]
        ELSE [col \in DOMAIN a[j] |->
                 Xor(a[j][col], Mul(end, a[i][col], factor[j]))]]

(* Pivot i of both matrices: swap, scale, eliminate. *)
Pivoted(end, m, id, i) ==
    LET from   == Min(Candidates(m, i))
        m1     == Swap(m, i, from)
        inv    == Inv(end, m1[i][i])
        m2     == Scale(end, m1, i, inv)
        id2    == Scale(end, Swap(id, i, from), i, inv)
        factor == [j \in DOMAIN m2 |-> m2[j][i]]
    IN  [m |-> Eliminate(end, m2, i, factor), id |-> Eliminate(end, id2, i, factor)]

(* The first len bytes of the inverse applied to the received symbols. *)
Recovered(end, inverse, received, len) ==
    [p \in 1..len |->
        Combined(end, inverse[(p - 1) \div SymbolSize], received,
                 ((p - 1) % SymbolSize) + 1)]
=============================================================================
