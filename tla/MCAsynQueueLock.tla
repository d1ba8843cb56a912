-------------------------- MODULE MCAsynQueueLock --------------------------
(* AsynQueueLock for TLC, with the inductive invariant of its proofs. *)
EXTENDS AsynQueueLockProofs
=============================================================================
