SPECIFICATION Spec
CONSTANTS
  Requests = {r1, r2, r3, r4, r5}
  BookingSlots = {s1, s2}
  OtherSlots = {o1, o2}
  None = None
  SuspendedDepth = 2
  ConfirmationTimeoutTurns = 2
  MaxInFlight = 1
  Faults = {"expire"}
SYMMETRY Symmetry
INVARIANTS PendingBelongsToTask PendingFollowsSlots MemoryBelongsToTask SideQuestionTransparent NothingStashedAtRest UnansweredExpires
