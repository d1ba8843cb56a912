----------------------------- MODULE MCSeqPvReq -----------------------------
(* Instances of SeqPvReq for TLC. *)
EXTENDS SeqPvReq
============================================================================
