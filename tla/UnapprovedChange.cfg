SPECIFICATION PolicySpec
CONSTANTS
  ToolCalls = {}
  Updates = {u1, u2}
  ConfirmRules = {rc}
  HourlyRules = {rh}
  PoolSize = 2
  MaxPatched = 1
  MaxStarted = 2
  Keep = Keep
PROPERTY EveryCriticalChangeApproved
CHECK_DEADLOCK FALSE
