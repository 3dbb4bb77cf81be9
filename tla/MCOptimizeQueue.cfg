\* Three users contend for one permit through two handlers: two jobs can be parked at
\* once, so the order of the semaphore's line matters, and a finished job can still have
\* its permit while its user is accepted again.
SPECIFICATION FairSpec
CONSTANTS
  User = {u1, u2, u3}
  Caller = {c1, c2}
  Job = {j1, j2, j3}
  Concurrency = 1
  NoUser = NoUser
INVARIANTS
  TypeOK
  OneJobPerUser
  ClaimsAreHeld
  PermitsConserved
PROPERTIES
  ImplementsSlots
  NobodyStuck
