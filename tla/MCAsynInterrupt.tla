-------------------------- MODULE MCAsynInterrupt --------------------------
(* AsynInterrupt for TLC, with the inductive invariant of its proofs. *)
EXTENDS AsynInterruptProofs
=============================================================================
