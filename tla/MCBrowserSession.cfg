\* Two wallets and one of the other signer mode, two sends at once.
SPECIFICATION Spec
CHECK_DEADLOCK FALSE
CONSTANTS
  Wallet = {w1, w2}
  Foreign = {f}
  Sender = {s1, s2}
  Exit = {x1}
  Keys = 2
  None = None
SYMMETRY Symmetry
INVARIANTS
  TypeOK
  EnsuredKeyKnown
  RefusalsExplained
