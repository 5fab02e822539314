-------------------------------- MODULE Cipher --------------------------------
(***************************************************************************)
(* The authenticated cipher of crypto_pipe.h around its two primitives:    *)
(* how blocks of key stream are numbered and consumed, what the tag covers *)
(* and what decryption refuses.  chacha20_block and poly1305_auth are      *)
(* parameters; the key of the transfer is part of Keystream.               *)
(***************************************************************************)
EXTENDS GaloisField, Sequences

CONSTANTS Keystream(_, _),  \* nonce, counter: one block of key stream
          KeyBlock,         \* bytes of it (64)
          Tag(_, _),        \* one-time key, ciphertext: the tag
          TagSize           \* bytes of it (16)

ASSUME CipherAssumption == KeyBlock \in Nat \ {0} /\ TagSize \in Nat

(* tl_make_nonce: four zero bytes and the counter. *)
MakeNonce(counter) == <<0, counter>>

(* chacha20_xor; the counter of a block is far from its wrap at 2^32. *)
Chacha20Xor(in, nonce, counter) ==
    [i \in 1..Len(in) |->
        Xor(in[i], Keystream(nonce, counter + (i - 1) \div KeyBlock)
                           [((i - 1) % KeyBlock) + 1])]

(* tl_encrypt: block 0 of the key stream keys the tag, which covers the
   ciphertext; the data takes the blocks from 1 on. *)
Encrypt(pt, nonce) ==
    LET ct == Chacha20Xor(pt, nonce, 1)
    IN  ct \o Tag(Keystream(nonce, 0), ct)

Refused == [ok |-> FALSE, data |-> << >>]

Decrypt_Unverified(ct, nonce) ==
    LET len == Len(ct) - TagSize
    IN  IF len < 0 THEN Refused
        ELSE [ok |-> TRUE, data |-> Chacha20Xor(SubSeq(ct, 1, len), nonce, 1)]

(* tl_decrypt *)
Decrypt(ct, nonce) ==
    LET len == Len(ct) - TagSize
        body == SubSeq(ct, 1, len)
    IN  IF len < 0 \/ Tag(Keystream(nonce, 0), body) # SubSeq(ct, len + 1, Len(ct))
        THEN Refused
        ELSE [ok |-> TRUE, data |-> Chacha20Xor(body, nonce, 1)]
=============================================================================
