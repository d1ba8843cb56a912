SPECIFICATION Spec

CONSTANTS
  Users = {u1, u2}
  Port = port
  Devices = {d1}
  None = none
  TimeoutUsers = {}
  MaxBlock = 1
  Priorities = {0, 2}
  ClientOps <- RestlessClients
  CallbackOps <- BlockingCallbacks
  EnvOps = {"enable", "connect", "autoConnect"}

VIEW WithoutHistory

SYMMETRY Symmetry

CONSTRAINT OneFault

CHECK_DEADLOCK FALSE

INVARIANTS
  QueueConsistent
  QueuedIsConnected
  ScanSound
  BlockExclusion
  NoLostWakeup

PROPERTIES
  PriorityOrder
