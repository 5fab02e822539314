------------------------------ MODULE MCBlockPath ------------------------------
(* A key stream and a tag of a few bytes.  142 is the byte whose logarithm is
   254, one short of the end of the table. *)
EXTENDS BlockPath

MCKeystream(nonce, counter) ==
    [p \in 1..KeyBlock |-> Power[(50 * nonce[2] + 7 * counter + p) % 255]]

MCTag(key, ct) ==
    << Xor(key[1], XorOver(DOMAIN ct,
            [i \in DOMAIN ct |-> Mul(One, Power[i], ct[i])])) >>

MCFiles == {<<{1, 2, 3, 7}, {}, {0}, {1, 2, 3, 7}, {0, 5}, {4}>>}
===============================================================================
