---------------------------- MODULE MCEmbedPool ----------------------------
(* embedChunks with four batches and two at a time. *)
EXTENDS EmbedPool
=============================================================================
