SPECIFICATION Spec
CONSTANTS
  One = 10
  FeeRate = 1
  Threshold = 2
  Evaluator = "ev"
  w1 = w1
  w2 = w2
  m1 = m1
  m2 = m2
  Workers = {w1, w2}
  Markets = {m1, m2}
  Prices = {4, 5, 9}
  Estimates = {7, 12}
  MaxClock = 1
  MaxSnapshots = 2
  MaxRequests = 3
  StoreMayFail = TRUE
  NoPrice = NoPrice
  NoModel = NoModel
  NoSnapshot = NoSnapshot
  NoFrame = NoFrame
SYMMETRY Symmetric
INVARIANTS TypeOK SignalsFollowTheirData SignalsNeverStale
           RecentIsNewest
CHECK_DEADLOCK FALSE
