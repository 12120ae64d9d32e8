CONSTANTS
  Kinds = {"scalar", "vector", "pmt"}
  Patterns = {"push", "pub"}
  StreamTags <- MCTags
  MaxRoom = 3
  MaxItems = 5
  MaxSpan = 3
  HighWater = 2
  Defects = {"header", "payload"}
  MaxDefects = 1
SPECIFICATION FairSpec
INVARIANTS
  NothingLost
PROPERTIES
  TaggedStreamSafety
  EverythingArrives
