-------------------------- MODULE MCAsynException --------------------------
(* AsynException for TLC, with the inductive invariant of its proofs. *)
EXTENDS AsynExceptionProofs
=============================================================================
