SPECIFICATION Spec
CONSTANTS
  MaxOverflows = 1
  MaxRead = 2
  RfSize = 4
  MaxReceived = 14
  MaxCount = 3
  Decims = {1}
  TapCounts = {1, 3}
  InitialCapacity = 2
  MaxChunks = 2
  QuadSize = 4
  RateUp = 4
  RateDowns = {3}
  NumFilters = 2
  TapTotals = {3, 6}
  Base = 2
  Guard = 1
  MaxPfbChunks = 2
  MaxAudio = 16
  MaxChanges = 2
CHECK_DEADLOCK FALSE
INVARIANT NothingSkipped
