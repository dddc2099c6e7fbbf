SPECIFICATION PolicySpec
CONSTANTS
  ToolCalls = {c1, c2}
  Updates = {u1, u2}
  ConfirmRules = {rc}
  HourlyRules = {rh}
  PoolSize = 2
  MaxPatched = 1
  MaxStarted = 3
  Keep = Keep
SYMMETRY Symmetry
INVARIANTS PolicyTypeOK NoRuleOverlooked BookingsStayConfirmed CacheFollowsStore
PROPERTY CriticalChangesApproved
CHECK_DEADLOCK FALSE
