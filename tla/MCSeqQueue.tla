----------------------------- MODULE MCSeqQueue -----------------------------
(* SeqQueue for TLC, by itself. *)
EXTENDS SeqQueue
=============================================================================
