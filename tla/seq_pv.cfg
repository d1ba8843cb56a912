SPECIFICATION FairSpec

CONSTANTS
  Addresses = {a1, a2}
  MaxLinks = 2
  MaxAssigns = 1
  NoReq = NoReq

INVARIANTS
  PoolSound
  SlotFree

PROPERTIES
  SyncReturns
  RequestEnds
