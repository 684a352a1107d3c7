\* PostgreSQL answers and the process lives: only a publish is lost.
SPECIFICATION OnlyRedisFails
CONSTANTS
  Delivery = {d1, d2, d3}
  k1 = k1
  k2 = k2
  Key = {k1, k2}
  NoKey = NoKey
  Request <- MCRequest
  SkipDrafts = TRUE
  SkipBots = TRUE
INVARIANT DuplicateMeansQueued
CHECK_DEADLOCK FALSE
