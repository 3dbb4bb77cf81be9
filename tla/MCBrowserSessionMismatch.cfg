\* A wallet of the other signer mode whose refetch answers late.
SPECIFICATION Spec
CHECK_DEADLOCK FALSE
CONSTANTS
  Wallet = {w1}
  Foreign = {f}
  Sender = {s1}
  Exit = {x1}
  Keys = 1
  None = None
PROPERTIES
  DropsOnlyTheseCreds
