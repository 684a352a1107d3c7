\* Three deliveries of one commit, contending for its row over a pool of two connections.
SPECIFICATION FairApiSpec
CONSTANTS
  Delivery = {d1, d2, d3}
  Key = {k1}
  Request <- MCRequest
  SkipDrafts = TRUE
  SkipBots = TRUE
  NoKey = NoKey
  PoolSize = 2
  Timeout = 1
  Nobody = Nobody
INVARIANT PoolHolds
PROPERTIES EndpointKeepsGoing EveryoneAnswered ProbeAnswered
CHECK_DEADLOCK FALSE
