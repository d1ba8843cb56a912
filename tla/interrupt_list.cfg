SPECIFICATION FairSpec

CONSTANTS
  Clients = {c1, c2, c3}
  Nodes = {n1, n2}
  Sources = {s1, s2}
  None = none
  MaxInterrupts = 3

CHECK_DEADLOCK FALSE

INVARIANTS
  ListedOnce
  AllCalled

PROPERTIES
  ListDelayed
  CallReturns
