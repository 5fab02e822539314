------------------------------- MODULE Delivery -------------------------------
(***************************************************************************)
(* What the data path promises of the blocks of a file, with the coding,   *)
(* the network and the elimination hidden: blocks are sent in order, as    *)
(* they are or empty after a failed compression, and a block sent ends     *)
(* once, delivered as it was sent or lost, never as anything else.         *)
(***************************************************************************)
EXTENDS Integers, FiniteSets

VARIABLES blocks,     \* the blocks of the file, from 0
          sent,       \* what was sent of each block
          delivered,  \* the blocks passed on, each with its content
          lost        \* the blocks given up

vars == <<blocks, sent, delivered, lost>>

Init ==
    /\ DOMAIN blocks = 0..Cardinality(DOMAIN blocks) - 1
    /\ sent = << >>
    /\ delivered = {}
    /\ lost = {}

(* A turn of the send loop. *)
Send ==
    LET b == Cardinality(DOMAIN sent)
    IN  /\ b \in DOMAIN blocks
        /\ \E data \in {blocks[b], << >>} :
              sent' = [c \in 0..b |-> IF c = b THEN data ELSE sent[c]]
        /\ UNCHANGED <<blocks, delivered, lost>>

Open(b) == b \in DOMAIN sent /\ b \notin lost /\ \A d \in delivered : d[1] # b

(* rs_decode finds an inverse and tl_decrypt accepts what it gives. *)
Deliver(b) ==
    /\ Open(b)
    /\ delivered' = delivered \cup {<<b, sent[b]>>}
    /\ UNCHANGED <<blocks, sent, lost>>

(* rs_decode or tl_decrypt returns an error. *)
Lose(b) ==
    /\ Open(b)
    /\ lost' = lost \cup {b}
    /\ UNCHANGED <<blocks, sent, delivered>>

Next == Send \/ \E b \in DOMAIN blocks : Deliver(b) \/ Lose(b)

Spec == Init /\ [][Next]_vars
=============================================================================
