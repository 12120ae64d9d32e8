SPECIFICATION Spec
CONSTANTS
  MaxOverflows = 1
  MaxRead = 2
  RfSize = 4
  MaxReceived = 8
  MaxCount = 3
  Decims = {0, 1, 2}
  TapCounts = {1, 3}
  InitialCapacity = 2
  MaxChunks = 2
  QuadSize = 4
  RateUp = 4
  RateDowns = {2, 3, 5}
  NumFilters = 2
  TapTotals = {3, 6}
  Base = 2
  Guard = 1
  MaxPfbChunks = 2
  MaxAudio = 12
  MaxChanges = 4
CHECK_DEADLOCK FALSE
INVARIANTS OneDevice EvenlySpaced LosesOnlyIfRounded
PROPERTIES GivesUpAtLimit DecimatesRegularly
