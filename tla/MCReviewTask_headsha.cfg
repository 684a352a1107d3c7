SPECIFICATION Spec
CONSTANTS
  Sha = {s1, s2}
  Slot = {w1, w2}
  MaxRedeliveries = 0
  PushBack = FALSE
  RedisRestarts = FALSE
  None = None
INVARIANT HeadShaIsReviewed
CHECK_DEADLOCK FALSE
