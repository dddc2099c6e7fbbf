SPECIFICATION PolicySpec
CONSTANTS
  ToolCalls = {c1}
  Updates = {}
  ConfirmRules = {rc}
  HourlyRules = {rh}
  PoolSize = 2
  MaxPatched = 1
  MaxStarted = 1
  Keep = Keep
INVARIANT BookingsAreAsked
CHECK_DEADLOCK FALSE
