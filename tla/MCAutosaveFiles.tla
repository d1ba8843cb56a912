-------------------------- MODULE MCAutosaveFiles --------------------------
(* Values for TLC: the names of two sequence files.                        *)
EXTENDS AutosaveFiles

MCSequenceFiles == <<"sav0", "sav1">>
============================================================================
