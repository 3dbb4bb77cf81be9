\* Two requests, so that the text can differ from the reviewed one.
SPECIFICATION Spec
CHECK_DEADLOCK FALSE
CONSTANTS
  Request = {a, b}
  NoRequest = NoRequest
  NoPayment = NoPayment
  Opens = 1
  Legs = 2
INVARIANTS
  SubmitsReviewed
