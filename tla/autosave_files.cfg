SPECIFICATION Spec

CONSTANTS
  SequenceFiles <- MCSequenceFiles
  ManualSaves = {"named", "unnamed"}
  MaxSaves = 3
  MaxErrors = 2
  MaxCrashes = 2
  Nothing = Nothing

CHECK_DEADLOCK FALSE

PROPERTIES
  OverwriteProtected
  RestoreFresh
