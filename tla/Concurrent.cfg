SPECIFICATION Spec
CONSTANTS
  Requests = {r1, r2, r3}
  BookingSlots = {s1}
  OtherSlots = {o1}
  None = None
  SuspendedDepth = 1
  ConfirmationTimeoutTurns = 2
  MaxInFlight = 2
  Faults = {"error", "crash"}
SYMMETRY RequestSymmetry
INVARIANTS TypeOK TokensFlow OneHome ExecutedOnce ExecutedAsSeen
PROPERTIES DeadTokensStayDead ImplementsConfirmation
