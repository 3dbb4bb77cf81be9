\* Small capacities, so that the bus drops and the outbox overflows: five events
\* against a bus of two, an outbox of one and a wire of one.
SPECIFICATION FairSpec
CONSTANTS
  BusCap = 2
  OutboxCap = 1
  WireCap = 1
  MaxVer = 5
  Fetch = {f1}
  FetchMayFail = TRUE
INVARIANTS
  TypeOK
  FramesInOrder
  NewestIsNotLost
PROPERTIES
  OverflowEnds
