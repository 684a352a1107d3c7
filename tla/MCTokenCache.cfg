SPECIFICATION Spec
CONSTANTS
  Run = {r1, r2}
  Lifetime = 9
  Margin = 4
  Delay = 1
  FetchTime = 6
  Horizon = 16
  None = None
INVARIANTS CachedIsFresh FetchesWithLiveToken
CHECK_DEADLOCK FALSE
