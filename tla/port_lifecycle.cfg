SPECIFICATION FairSpec

CONSTANTS
  Users = {u1, u2}
  Port = port
  Devices = {}
  None = none
  TimeoutUsers = {u1}
  MaxBlock = 1
  Priorities = {0, 3}
  ClientOps <- LifecycleClients
  CallbackOps <- RequeueingCallbacks
  EnvOps = {}

CHECK_DEADLOCK FALSE

INVARIANTS
  FreeListUnused
  CancelWaitsForCallback
  TimeoutArmed

PROPERTIES
  CancelReturns
  RequestServed
  FreedReachesFreeList
