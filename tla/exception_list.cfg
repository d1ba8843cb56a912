SPECIFICATION FairSpec

CONSTANTS
  Users = {u1, u2, u3}
  Announcers = {a1, a2}
  None = none
  CallbackOps = {"remove"}
  MaxAnnouncements = 2

CHECK_DEADLOCK FALSE

INVARIANTS
  NoLostNotify
  AllTold

PROPERTIES
  ListStable
  CallReturns
