SPECIFICATION Spec
CONSTANTS
  a = a
  b = b
  e = e
  f = f
  q = q
  SourceMarkets = {a, b}
  SourceEvents = {e}
  Quotes = {q}
  Faults = {"none"}
  KeepPayloads = TRUE
  StoreMayFail = FALSE
  MaxBatch = 3
  MaxRuns = 2
  Ticks = {1}
  NoRecord = NoRecord
INVARIANT NoDuplicateEvents
CHECK_DEADLOCK FALSE
