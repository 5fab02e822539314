--------------------------- MODULE TransferHandle ---------------------------
(***************************************************************************)
(* What turbolink_engine.h promises to a caller of the native engine, with *)
(* the pipeline hidden: a transfer is a handle that is launched at most    *)
(* once per identifier, counts blocks while its thread runs, can be told   *)
(* to stop at any time, and ends once.  The caller sees `handles' through  *)
(* the return code of tl_get_stats and `counted' through its out_progress. *)
(***************************************************************************)
EXTENDS Naturals

CONSTANTS Ids,       \* the transfer identifiers callers use
          MaxBlocks  \* bound: the most 1 MB blocks a file has

VARIABLES handles,   \* the identifiers in g_transfers
          live,      \* ctx->active of each handle
          size,      \* blocks in the file of each handle, 0 for a receive
          counted,   \* blocks counted in ctx->progress
          ended      \* the thread of the handle has returned

vars == <<handles, live, size, counted, ended>>

TypeOK ==
    /\ handles \in SUBSET Ids
    /\ live \in [Ids -> BOOLEAN]
    /\ size \in [Ids -> 0..MaxBlocks]
    /\ counted \in [Ids -> 0..MaxBlocks]
    /\ ended \in [Ids -> BOOLEAN]

Init ==
    /\ handles = {}
    /\ live = [id \in Ids |-> FALSE]
    /\ size = [id \in Ids |-> 0]
    /\ counted = [id \in Ids |-> 0]
    /\ ended = [id \in Ids |-> FALSE]

(* tl_send_file (n > 0) or tl_receive_file (n = 0) returning 0. *)
Launch(id, n) ==
    /\ id \notin handles
    /\ handles' = handles \cup {id}
    /\ live' = [live EXCEPT ![id] = TRUE]
    /\ size' = [size EXCEPT ![id] = n]
    /\ UNCHANGED <<counted, ended>>

(* tl_cancel_transfer (one identifier) or tl_cancel_all (all of them). *)
Stop(S) ==
    /\ live' = [id \in Ids |-> live[id] /\ id \notin S]
    /\ UNCHANGED <<handles, size, counted, ended>>

(* One more block of the file is counted in the progress. *)
Count(id) ==
    /\ id \in handles
    /\ ~ended[id]
    /\ counted[id] < size[id]
    /\ counted' = [counted EXCEPT ![id] = @ + 1]
    /\ UNCHANGED <<handles, live, size, ended>>

(* The thread returns.  A transfer nobody stopped has either counted every
   block or met an error before the first. *)
End(id) ==
    /\ id \in handles
    /\ ~ended[id]
    /\ live[id] => counted[id] \in {0, size[id]}
    /\ live' = [live EXCEPT ![id] = FALSE]
    /\ ended' = [ended EXCEPT ![id] = TRUE]
    /\ UNCHANGED <<handles, size, counted>>

Next ==
    \/ \E id \in Ids, n \in 0..MaxBlocks : Launch(id, n)
    \/ \E S \in SUBSET handles : Stop(S)
    \/ \E id \in Ids : Count(id) \/ End(id)

Spec == Init /\ [][Next]_vars
=============================================================================
