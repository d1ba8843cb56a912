SPECIFICATION FairSpec

CONSTANTS
  Threads = {t1, t2}
  Users = {u1}
  Lockers = {l1}
  None = None
  MaxNest = 2
  MaxLocks = 2
  MaxDrops = 2

CHECK_DEADLOCK FALSE

INVARIANTS
  EventExpected

PROPERTIES
  ImplementsLock
  CallsReturn
  OthersServed
