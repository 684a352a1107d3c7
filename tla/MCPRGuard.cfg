\* One commit is delivered; the branch moves between two, back included.
SPECIFICATION FairSystemSpec
CONSTANTS
  Sha = {s1, s2}
  Slot = {w1}
  MaxRedeliveries = 1
  PushBack = TRUE
  RedisRestarts = TRUE
  None = None
  Delivery = {d1}
  Request <- MCRequest
  SkipDrafts = TRUE
  SkipBots = TRUE
INVARIANTS NeverMissing InSomeHands
PROPERTIES WorkersSeeTheirSpec QueuedIsSettled
CHECK_DEADLOCK FALSE
