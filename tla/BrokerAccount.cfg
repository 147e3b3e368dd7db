SPECIFICATION Spec
CONSTANTS
  Scale = 10
  SlippageRate = 1
  FeeRate = 1
  FeeScale = 50
  Credit = 4000
  MaxPositionSize = 2
  MaxPortfolioExposure = 4
  MidExecution = TRUE
  Quotes <- UncrossedQuotes
  Quantities = {0, 1, 2, 3}
PROPERTIES EquityNeverRises
