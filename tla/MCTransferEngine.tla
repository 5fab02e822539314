-------------------------- MODULE MCTransferEngine --------------------------
(***************************************************************************)
(* TransferEngine on a few transfers.  The identifiers are interchangeable *)
(* for the engine, so runs without liveness use their permutations.        *)
(***************************************************************************)
EXTENDS TransferEngine, TLC

Symmetry == Permutations(Ids)
=============================================================================
