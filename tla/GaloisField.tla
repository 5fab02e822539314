----------------------------- MODULE GaloisField -----------------------------
(***************************************************************************)
(* Arithmetic in GF(2^8) as reed_solomon_fec.h does it, through the        *)
(* exponent and logarithm tables that gf_init fills.  A byte is the set of *)
(* its one bits.                                                           *)
(*                                                                         *)
(* Entry 255 of gf_exp is 0 once gf_init has returned, and 1 while some    *)
(* thread is in gf_init's loop, which any first user of the tables runs;   *)
(* every other store of that loop writes what is there already.  What a    *)
(* reader finds there is the parameter `end' of the operators that read    *)
(* the table.                                                              *)
(***************************************************************************)
EXTENDS Integers, FiniteSets

Byte == SUBSET (0..7)
Zero == {}
One  == {0}

Xor(a, b) == (a \ b) \cup (b \ a)

(* The xor of f[j] over j \in S: the bits an odd number of them have. *)
XorOver(S, f) == {bit \in 0..7 : Cardinality({j \in S : bit \in f[j]}) % 2 = 1}

(* x <<= 1, and x ^= 0x11D when bit 8 comes up. *)
Twice(a) ==
    LET shifted == {bit + 1 : bit \in a}
    IN  IF 8 \in shifted THEN Xor(shifted, {0, 2, 3, 4, 8}) ELSE shifted

Shifted[n \in 0..16, a \in Byte] == IF n = 0 THEN a ELSE Twice(Shifted[n - 1, a])

Sixteenth[q \in 0..15] == IF q = 0 THEN One ELSE Shifted[16, Sixteenth[q - 1]]

(* x after i turns of gf_init's loop, counted in sixteens. *)
Power == [i \in 0..254 |-> Shifted[i % 16, Sixteenth[i \div 16]]]

(* What TLC can look up in the finished tables, and the algebra of the field
   rests on: the powers run through every byte but zero once, each is twice
   the one before, and the last one's successor is the first. *)
ASSUME TableAssumption ==
    /\ Power[0] = One
    /\ \A i \in 0..254 : Power[i] \in Byte \ {Zero}
    /\ \A i \in 0..254 : Twice(Power[i]) = Power[(i + 1) % 255]
    /\ \A a \in Byte \ {Zero} : \E i \in 0..254 : Power[i] = a
    /\ \A i, j \in 0..254 : Power[i] = Power[j] => i = j

Exp(end, i) == IF i = 255 THEN end ELSE Power[i % 255]

Log == [a \in Byte |-> IF a = Zero THEN 0 ELSE CHOOSE i \in 0..254 : Power[i] = a]

Mul(end, a, b) ==
    IF a = Zero \/ b = Zero THEN Zero ELSE Exp(end, Log[a] + Log[b])

Inv(end, a) == IF a = Zero THEN Zero ELSE Exp(end, 255 - Log[a])
==============================================================================
