--------------------------- MODULE MCAutosaveTask ---------------------------
(* Instances of AutosaveTask for TLC. *)
EXTENDS AutosaveTask
============================================================================
