SPECIFICATION Spec
CONSTANTS
  Sha = {s1, s2}
  Slot = {w1, w2}
  MaxRedeliveries = 2
  PushBack = FALSE
  RedisRestarts = TRUE
  None = None
SYMMETRY MCSymmetry
CONSTRAINT OneReview
INVARIANTS TypeOK Accounted OneMessage OneOwner PaidOncePerDelivery OneStory SupersededIsHistory
PROPERTY Lifecycle
CHECK_DEADLOCK FALSE
