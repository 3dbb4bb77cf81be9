\* Refetches one at a time, none failing, no overflow: what is left is the gap
\* between the upgrade and the subscription.
SPECIFICATION Spec
CONSTANTS
  BusCap = 2
  OutboxCap = 2
  WireCap = 1
  MaxVer = 2
  Fetch = {f1}
  FetchMayFail = FALSE
INVARIANTS
  QuietViewIsCurrent
