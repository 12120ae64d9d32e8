CONSTANTS
  Kinds = {"scalar", "vector", "pmt"}
  StreamTags <- MCTags
  MaxRoom = 3
  MaxItems = 5
  MaxSpan = 3
  OtherCounts = {0, 4}
  MaxOthers = 1
  MaxRestarts = 2
SPECIFICATION FairSpec
INVARIANTS
  OneRequestOutstanding
  SplitAmongClients
PROPERTIES
  TaggedStreamSafety
  RequestsAnswered
