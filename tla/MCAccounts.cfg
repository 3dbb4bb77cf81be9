\* Two sign-ups, one login and one browser that makes them one after the other while
\* the server may still be busy with the earlier ones.
SPECIFICATION FairSpec
CONSTANTS
  SignUp = {a1, a2}
  Login = {l1}
  Device = {d1}
  NoRow = NoRow
  NoCreds = NoCreds
  NoRequest = NoRequest
INVARIANTS
  TypeOK
  RowsAreProvisioned
  DelegatedIsScoped
  CredsNameTheirWallet
  OneBackend
PROPERTIES
  ProvisioningEnds
