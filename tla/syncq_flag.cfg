SPECIFICATION SyncSpec

CONSTANTS
  numElems = 2
  Readers = {r1}
  Writers = {w1, w2, w3}
  Nothing = nothing
  MaxPuts = 4
  MaxFlushes = 1
  Named = {w1}
  Channels = {c1}
  chan <- OneChannel
  c1 = c1

CHECK_DEADLOCK FALSE

PROPERTIES
  FlagLostByFlushOnly
