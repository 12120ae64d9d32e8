SPECIFICATION FairSpec
CONSTANTS
  Events <- MCEvents
  StartEvent = "start"
  StableSort <- MCStableSort
  FileLen = 4
  Offsets = {0, 1, 4}
  Lengths = {0, 1, 2}
  MaxSpan = 3
  MaxOut = 5
INVARIANTS
  TypeOK
  TagsWithTheirSamples
  FailsOnlyIfCutShort
PROPERTIES
  OkFillsSpan
  PlaysSelectedWindow
  Completes
