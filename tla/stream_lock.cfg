SPECIFICATION Spec

CONSTANTS
  Streams = {s1, s2}
  None = None
  Protocols <- MCProtocols
  MaxDrops = 0

CHECK_DEADLOCK FALSE

INVARIANTS
  OwnerBlocks
  ExclusiveAccess
