CONSTANTS
  Files <- MCFiles
  Fallbacks <- MCFallbacks
  Silence = Silence
  NoTag = NoTag
  NoFile = NoFile
  EdgeSize = 3
  Offsets = {1}
  Lengths = {0, 3}
  IgnoreTagRate = FALSE
  FifoFrames = 2
  CallbackFrames = 1
  MaxPasses = 1
  MaxStarts = 2
  MaxChanges = 1
  MaxSinkStarts = 2
CHECK_DEADLOCK FALSE
SPECIFICATION FairSpec
PROPERTIES
  PassesInOrder
  QueueSafety
  FallsOutOfStepOnly
  Completes
