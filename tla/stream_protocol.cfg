SPECIFICATION FairSpec

CONSTANTS
  Streams = {s1}
  None = None
  Protocols <- MCLossyProtocols
  MaxDrops = 2

CHECK_DEADLOCK FALSE

CONSTRAINT Undisturbed

INVARIANTS
  OneResult
  AlwaysDriven

PROPERTIES
  ProcessCompletes
