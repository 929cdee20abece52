------------------------------ MODULE EmbedAll ------------------------------
(***************************************************************************)
(* What IngestFile and ReindexDocument rely on when they embed a document  *)
(* and replace its chunks: the index gets every batch, in the order of the *)
(* text, or it is left alone.                                              *)
(***************************************************************************)
EXTENDS Naturals

CONSTANT N      \* batches of the document

VARIABLES
    index,      \* index[i]: the batch stored at place i, 0 before this run
    outcome     \* "pending", then "stored" or "failed"

Init ==
    /\ index = [i \in 1 .. N |-> 0]
    /\ outcome = "pending"

StoreAll ==
    /\ outcome = "pending"
    /\ index' = [i \in 1 .. N |-> i]
    /\ outcome' = "stored"

Fail ==
    /\ outcome = "pending"
    /\ outcome' = "failed"
    /\ UNCHANGED index

Next == StoreAll \/ Fail

Spec == Init /\ [][Next]_<<index, outcome>>
=============================================================================
