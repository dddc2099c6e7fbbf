SPECIFICATION Spec
CONSTANTS
  Requests = {r1, r2}
  BookingSlots = {s1}
  OtherSlots = {o1}
  None = None
  SuspendedDepth = 1
  ConfirmationTimeoutTurns = 2
  MaxRetries = 2
SYMMETRY Symmetry
INVARIANT ExpiredNotReleased
CHECK_DEADLOCK FALSE
