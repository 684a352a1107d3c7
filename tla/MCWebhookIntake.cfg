SPECIFICATION FairSpec
CONSTANTS
  Delivery = {d1, d2, d3}
  k1 = k1
  k2 = k2
  Key = {k1, k2}
  NoKey = NoKey
  Request <- MCRequest
  SkipDrafts = TRUE
  SkipBots = TRUE
INVARIANTS TypeOK AtMostOneSend Accounted AnswersAreTrue
PROPERTIES Admitted RecordedIsSent
CHECK_DEADLOCK FALSE
