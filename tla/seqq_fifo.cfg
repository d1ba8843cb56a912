SPECIFICATION Spec

CONSTANTS
  numElems = 3
  Readers = {r1}
  Writers = {w1}
  Nothing = nothing
  MaxPuts = 8
  MaxFlushes = 2

CHECK_DEADLOCK FALSE

INVARIANTS
  RoomForStore

PROPERTIES
  ImplementsQueue
