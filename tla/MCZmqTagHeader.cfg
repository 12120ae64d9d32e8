SPECIFICATION Spec
CONSTANTS
  Radix = 16
  FirstTags <- MCFirstTags
  LaterTags <- MCLaterTags
  MaxTags = 2
  MaxHops = 3
  Payload <- MCPayload
CHECK_DEADLOCK FALSE
INVARIANTS HeaderRoundTrip PartRefused
PROPERTIES RelayUnchanged
