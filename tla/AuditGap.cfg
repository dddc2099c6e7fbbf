SPECIFICATION Spec
CONSTANTS
  Calls = {c1, c2}
  MaxInFlight = 1
  MaxAttempts = 2
  MinSample = 2
  ThresholdPct = 50
SYMMETRY Symmetry
PROPERTY EffectsAudited
