\* Two opens of the dialog, two requests, one round of swap before the send.
SPECIFICATION FairSpec
CHECK_DEADLOCK FALSE
CONSTANTS
  Request = {a, b}
  NoRequest = NoRequest
  NoPayment = NoPayment
  Opens = 2
  Legs = 2
INVARIANTS
  TypeOK
  EveryPaymentTapped
  SubmitsReviewedOrTyped
PROPERTIES
  ImplementsIdeal
  OnlyBodiesStall
