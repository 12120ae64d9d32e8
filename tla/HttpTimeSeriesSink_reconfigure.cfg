CONSTANTS
  DefaultChannels = 2
  DefaultWindow = 2
  MaxChunk = 2
  MaxSamples = 6
  Addresses = {"a1"}
  NoAddress = "none"
  Channels = {2}
  WindowSizes = {2, 3}
  MaxHandlers = 0
SPECIFICATION Spec
INVARIANTS
  SamplesOnTheirChannel
