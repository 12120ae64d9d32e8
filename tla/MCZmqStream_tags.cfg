CONSTANTS
  Kinds = {"vector"}
  Patterns = {"push"}
  StreamTags <- MCTags
  MaxRoom = 2
  MaxItems = 5
  MaxSpan = 2
  HighWater = 2
  Defects = {}
  MaxDefects = 0
SPECIFICATION Spec
INVARIANTS
  TagsOnTheirItems
