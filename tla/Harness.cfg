SPECIFICATION Spec
CONSTANTS
  Calls = {c1, c2, c3, c4}
  MaxInFlight = 2
  MaxAttempts = 2
  MinSample = 2
  ThresholdPct = 50
SYMMETRY Symmetry
INVARIANTS TypeOK WriteSentOnce
PROPERTIES ErrorsAreTruthful BreakerIsAtomic
