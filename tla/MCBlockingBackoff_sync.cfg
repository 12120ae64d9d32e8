CONSTANTS
  b1 = b1
  b2 = b2
  b3 = b3
  MaxThreads = 2
  Blocks = {b1, b2}
  InitialGraph <- TwoBlocks
  MessageRatio = 2
  InitialBackoff = 0
  MaxBackoff = 0
  ActiveSpinCount = 0
  MaxMessages = 1
  Statuses = {"PROGRESS", "DONE", "ERROR"}
  Environment = {"lifecycle", "quiesce"}
SPECIFICATION FairSpec
INVARIANTS
  IInv
  QuiescedExclusive
  SingleMessageReader
  AtMostOneLateTraversal
PROPERTIES
  QuiescenceGranted
  WorkersDrain
  MessagesServed
