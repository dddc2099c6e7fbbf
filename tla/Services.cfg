SPECIFICATION ServicesSpec
CONSTANTS
  Messages = {m1, m2}
  MaxPolls = 2
  Upserts = {w1, w2}
  Readings = {g1, g2}
  MaxIterations = 3
  MaxEntries = 3
  MaxUnpruned = 3
  Requests = {r1, r2}
  BookingSlots = {s1}
  OtherSlots = {o1}
  None = None
  SuspendedDepth = 1
  ConfirmationTimeoutTurns = 1
  MaxInFlight = 2
  Faults = {"error", "expire"}
INVARIANTS
  PageTypeOK LockHeldByOne ButtonFollowsLock OverlapNeedsGivingUp
  MemoryBounded
PROPERTIES
  Answered LockReleased PreferencesNotOutdated
CHECK_DEADLOCK FALSE
