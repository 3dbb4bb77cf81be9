\* Each of the five specifications by itself.
SPECIFICATION PartsSpec
CHECK_DEADLOCK FALSE
CONSTANTS
  PAGE = 2
  History = 4
  Refetch = {r1, r2}
  NoOffset = NoOffset
  Request = {q}
  Deposit = {d1, d2}
  Claims = 2
  Openings = 3
  Payment = {p1, p2}
  Renders = 4
  Toast = 2
  None = None
  Call = {h1, opt}
  Handler = {h1}
  Optimizer = opt
  Events = 3
INVARIANTS
  PartsTypeOK
  NoGapUnlessRaced
  OneAddressRequest
  OneClaimAwaited
  CameraOffUnlessLost
  NoInvisibleOverlay
  AckedIsSynced
PROPERTIES
  SkeletonEndsUnlessStalled
  NoticesGo
