SPECIFICATION Spec
CONSTANTS
  Requests = {r1, r2, r3, r4}
  BookingSlots = {s1, s2}
  OtherSlots = {o1}
  None = None
  SuspendedDepth = 2
  ConfirmationTimeoutTurns = 2
  MaxInFlight = 1
  Faults = {}
SYMMETRY Symmetry
PROPERTY SideQuestionKeepsActive
