CONSTANTS
  b1 = b1
  b2 = b2
  b3 = b3
  MaxThreads = 2
  Blocks = {b1, b2, b3}
  InitialGraph <- TwoBlocks
  MessageRatio = 2
  InitialBackoff = 2
  MaxBackoff = 5
  ActiveSpinCount = 0
  MaxMessages = 1
  Statuses = {"PROGRESS", "IDLE", "ERROR"}
  Environment = {"restart", "quiesce", "emplace", "remove"}
SPECIFICATION Spec
INVARIANTS
  BlocksRunOnce
  EveryBlockHasRunner
  BackoffSchedule
  PollBoundsBackoff
SYMMETRY BlockSymmetry
