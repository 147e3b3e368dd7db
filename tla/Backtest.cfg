SPECIFICATION Spec
CONSTANTS
  Scale = 10
  SlippageRate = 1
  FeeRate = 1
  MaxPositionSize = 2
  MaxPortfolioExposure = 4
  MidExecution = FALSE
  Quotes <- CheapAndDear
  Times = {1, 2}
  Quantities = {0, 1, 2}
  MaxSnapshots = 4
  FeeScale = 10
  CostScale = 288
  Certainty = 10
  NumBuckets = 10
  OneSided = OneSided
  NoEntry = NoEntry
  NoRun = NoRun
  NoMetric = NoMetric
INVARIANTS TypeOK NoLookahead EntryIsOpening DrawdownIsWorstDecline CashBacksReturn
  CalibrationPartitions CalibrationWithinBrier HitRateExplainsReturn
CHECK_DEADLOCK FALSE
