\* One sign-up whose INSERT fails.
SPECIFICATION Spec
CONSTANTS
  SignUp = {a1}
  Login = {l1}
  Device = {d1}
  NoRow = NoRow
  NoCreds = NoCreds
  NoRequest = NoRequest
INVARIANTS
  FailedSignUpIs502
