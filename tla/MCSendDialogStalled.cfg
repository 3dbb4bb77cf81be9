\* One send, whose answers may stall in the body.
SPECIFICATION FairSpec
CHECK_DEADLOCK FALSE
CONSTANTS
  Request = {a}
  NoRequest = NoRequest
  NoPayment = NoPayment
  Opens = 1
  Legs = 1
PROPERTIES
  WaitsEnd
