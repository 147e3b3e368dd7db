SPECIFICATION Spec
CONSTANTS
  Scale = 10
  SlippageRate = 1
  FeeRate = 1
  MaxPositionSize = 2
  MaxPortfolioExposure = 3
  CostScale = 2
  MidExecution = FALSE
  w1 = w1
  w2 = w2
  p1 = p1
  p2 = p2
  m1 = m1
  m2 = m2
  Workers = {w1, w2}
  Portfolios = {p1}
  Markets = {m1, m2}
  Quotes <- Quote1
  Quantities = {1, 2}
  MaxRequests = 3
  StoreMayFail = TRUE
  NoQuote = NoQuote
  NoOrder = NoOrder
  NoPosition = NoPosition
  NoFill = NoFill
  NoFrame = NoFrame
SYMMETRY Symmetric
INVARIANTS TypeOK PositionsBackedByFills FillsCounted PositionIsSumOfFills
