\* Two users, two requests at a time, and ids for two attempts at an intent.  The
\* clock runs one tick past the TTL of an entry made at its start.
SPECIFICATION FairSpec
CONSTANTS
  User = {alice, bob}
  PrepareId = {ps1, ps2}
  Intent = {keyed, plain}
  KeyedIntent = {keyed}
  Req = {r1, r2}
  TTL = 1
  MaxNow = 2
  MaxPaid = 2
  NoEntry = NoEntry
  Asleep = Asleep
  NoKey = NoKey
INVARIANTS
  TypeOK
  OneAttemptByOwner
  QuoteHonoured
  PaymentsAreQuoted
  KeyedPaidOnce
PROPERTIES
  ExpiredAreSwept
