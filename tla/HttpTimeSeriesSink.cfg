CONSTANTS
  DefaultChannels = 1
  DefaultWindow = 2
  MaxChunk = 4
  MaxSamples = 11
  Addresses = {"a1", "a2"}
  NoAddress = "none"
  Channels = {0, 2, 3}
  WindowSizes = {1, 3}
  MaxHandlers = 2
SPECIFICATION FairSpec
INVARIANTS
  SnapshotIsNewestFrames
  NoHandlerWithoutServer
  ServesItsSettings
PROPERTIES
  CallsReturn
