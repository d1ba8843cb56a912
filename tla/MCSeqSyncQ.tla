----------------------------- MODULE MCSeqSyncQ -----------------------------
(* SeqSyncQ for TLC, with the invariants of the proofs: which anonymous channel *)
(* each state set puts to.                                                      *)
EXTENDS SeqQueueProofs

CONSTANTS c1

OneChannel == [w \in Writers \ Named |-> c1]
=============================================================================
