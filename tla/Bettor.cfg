SPECIFICATION Spec
CONSTANTS
  One = 3
  KellyFraction <- Half
  MaxFraction <- AThird
  Overrounds = {0, 3, 4}
  Smoothings = {0, 1}
  Opinions <- SomeOpinions
  MaxLikelihood = 2
  MaxEvidence = 2
  MaxMarkets = 2
  NoUpdater = NoUpdater
  NoBet = NoBet
INVARIANTS TypeOK BatchUpdate CertaintyIsFinal CromwellsRule BetsAreFavourable
           NeverOverbets NeverRuined BaseRateIsBestForecast
CHECK_DEADLOCK FALSE
