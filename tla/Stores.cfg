SPECIFICATION StoresSpec
CONSTANTS
  Requests = {r1, r2, r3}
  BookingSlots = {s1}
  OtherSlots = {o1}
  None = None
  SuspendedDepth = 1
  ConfirmationTimeoutTurns = 2
  MaxRetries = 2
  ApiRequests = {a1, a2}
  MaxInstant = 1
  MaxRestarts = 1
SYMMETRY Symmetry
INVARIANTS
  TypeOK RetriesHaveRivals
  UpstreamTypeOK RefusedNeedsRival ServedAsService CancelHitsTarget
PROPERTIES
  ImplementsAtomic ImplementsLedger
CHECK_DEADLOCK FALSE
