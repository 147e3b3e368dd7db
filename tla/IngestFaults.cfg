SPECIFICATION Spec
CONSTANTS
  a = a
  b = b
  e = e
  f = f
  q = q
  SourceMarkets = {a, b}
  SourceEvents = {e, f}
  Quotes = {q}
  Faults = {"none", "key", "title", "mtype", "venue", "quote"}
  KeepPayloads = TRUE
  StoreMayFail = TRUE
  MaxBatch = 2
  MaxRuns = 2
  Ticks <- AnyTicks
  NoRecord = NoRecord
SYMMETRY Symmetric
INVARIANTS TypeOK NoDuplicateMarkets MarketHasItsEvent SnapshotsOfSavedMarkets
           PayloadsBackedBySnapshots SummaryBrackets
PROPERTY LatestNeverGoesBack
CHECK_DEADLOCK FALSE
