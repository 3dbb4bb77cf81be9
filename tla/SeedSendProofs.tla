--------------------------- MODULE SeedSendProofs ---------------------------
(***************************************************************************)
(* Proofs about SeedSend for any users, ids, requests, TTL and clock       *)
(* bound.  They rest on one inductive invariant: what the cache            *)
(* holds is what was issued and not yet attempted, and the cutoff a sweep  *)
(* works with never overtakes the clock by which take judges an entry.     *)
(***************************************************************************)
EXTENDS SeedSend, FiniteSetTheorems, TLAPS

\* The part of the type invariant that the cache's invariant relies on.
Typed ==
    /\ cache \in [PrepareId -> Entry \cup {NoEntry}]
    /\ now \in 0..MaxNow
    /\ issued \in [PrepareId -> Entry \cup {NoEntry}]
    /\ attempts \in [PrepareId -> Seq(User)]
    /\ \A r \in Req : req[r].pc = "preparing" => req[r].user \in User /\ req[r].intent \in Intent
    /\ req \in [Req -> ReqState]

\* A sweep's cutoff was computed by a clock that has only moved on since.
CutoffPast == cutoff # Asleep => cutoff \in Int /\ cutoff <= now - TTL

\* Whatever is in the cache was issued, has not expired unseen, and was not attempted.
CachedIsIssued ==
    \A id \in PrepareId : cache[id] # NoEntry => cache[id] = issued[id] /\ attempts[id] = <<>>

SendInv == Typed /\ CutoffPast /\ CachedIsIssued /\ OneAttemptByOwner /\ QuoteHonoured

LEMMA SendInvInit == Init => SendInv
<1> SUFFICES ASSUME Init PROVE SendInv
  OBVIOUS
<1> USE DEF Init, CacheInit
<1>1. Typed
  BY MaxNowAssumption DEF Typed, NoReq, ReqState
<1>2. CutoffPast /\ CachedIsIssued /\ OneAttemptByOwner /\ QuoteHonoured
  BY DEF CutoffPast, CachedIsIssued, OneAttemptByOwner, QuoteHonoured
<1> QED BY <1>1, <1>2 DEF SendInv

\* A step that takes id out of the cache, and touches nothing else of the invariant,
\* preserves it if the quote is gone by right: expired, or voided.
LEMMA Removal ==
    ASSUME SendInv, NEW id \in PrepareId, Take(id),
           cache[id] # NoEntry => Expired(cache[id]) \/ id \in voided',
           voided \subseteq voided', UNCHANGED <<now, cutoff, req, issued, attempts>>
    PROVE  SendInv'
<1> USE DEF SendInv
<1>1. Typed'
  BY DEF Typed, Take
<1>2. CutoffPast'
  BY DEF CutoffPast
<1>3. \A x \in PrepareId : cache'[x] = IF x = id THEN NoEntry ELSE cache[x]
  BY DEF Typed, Take
<1>4. CachedIsIssued' /\ OneAttemptByOwner'
  BY <1>3 DEF CachedIsIssued, OneAttemptByOwner
<1>5. ASSUME NEW x \in PrepareId, issued[x] # NoEntry, ~Expired(issued[x]), attempts[x] = <<>>,
             x \notin voided'
      PROVE  cache'[x] = issued[x]
  <2>1. cache[x] = issued[x]
    BY <1>5 DEF QuoteHonoured
  <2>2. x # id
    BY <1>5, <2>1 DEF CachedIsIssued
  <2> QED BY <1>3, <2>1, <2>2
<1>6. QuoteHonoured'
  BY <1>5 DEF QuoteHonoured, Expired
<1> QED BY <1>1, <1>2, <1>4, <1>6

\* A request step that leaves the cache and its history alone.
LEMMA OnlyRequest ==
    ASSUME SendInv, req' \in [Req -> ReqState],
           \A r \in Req : req'[r].pc = "preparing" =>
               req'[r].user \in User /\ req'[r].intent \in Intent,
           UNCHANGED <<cacheVars, issued, attempts, voided>>
    PROVE  SendInv'
BY DEF SendInv, Typed, CutoffPast, CachedIsIssued, OneAttemptByOwner, QuoteHonoured, Expired,
       cacheVars

LEMMA PrepareKeepsInv ==
    ASSUME SendInv, NEW r \in Req, PrepareStep(r)
    PROVE  SendInv'
<1>1. ASSUME NEW u \in User, NEW i \in Intent, Prepare(r, u, i)
      PROVE  SendInv'
  <2>1. /\ req' \in [Req -> ReqState]
        /\ \A x \in Req : req'[x].pc = "preparing" => req'[x].user \in User /\ req'[x].intent \in Intent
    BY <1>1 DEF Prepare, SendInv, Typed, ReqState
  <2> QED BY <1>1, <2>1, OnlyRequest DEF Prepare
<1>2. CASE NoQuote(r)
  <2>1. /\ req' \in [Req -> ReqState]
        /\ \A x \in Req : req'[x].pc = "preparing" => req'[x].user \in User /\ req'[x].intent \in Intent
    BY <1>2 DEF NoQuote, SendInv, Typed, ReqState, NoReq
  <2> QED BY <1>2, <2>1, OnlyRequest DEF NoQuote
<1>3. CASE Quote(r)
  <2> DEFINE id == FreshId
             e == [user |-> req[r].user, intent |-> req[r].intent, created |-> now]
  <2>1. id \in PrepareId /\ issued[id] = NoEntry
    BY <1>3 DEF Quote, FreshId, Unissued
  <2>2. e \in Entry
    BY <1>3 DEF Quote, SendInv, Typed, Entry
  <2>3. /\ \A x \in PrepareId : cache'[x] = IF x = id THEN e ELSE cache[x]
        /\ \A x \in PrepareId : issued'[x] = IF x = id THEN e ELSE issued[x]
    BY <1>3, <2>1 DEF Quote, Put, SendInv, Typed
  <2>4. UNCHANGED <<now, cutoff, attempts, voided>>
    BY <1>3 DEF Quote
  <2>5. attempts[id] = <<>>
    BY <2>1 DEF SendInv, OneAttemptByOwner
  <2>6. Typed'
    <3>1. /\ cache' \in [PrepareId -> Entry \cup {NoEntry}]
          /\ issued' \in [PrepareId -> Entry \cup {NoEntry}]
      BY <1>3, <2>1, <2>2 DEF Quote, Put, SendInv, Typed
    <3>2. /\ req' \in [Req -> ReqState]
          /\ \A x \in Req : req'[x].pc = "preparing" => req'[x].user \in User /\ req'[x].intent \in Intent
      BY <1>3 DEF Quote, SendInv, Typed, ReqState, NoReq
    <3> QED BY <2>4, <3>1, <3>2 DEF SendInv, Typed
  <2>7. CutoffPast'
    BY <2>4 DEF SendInv, CutoffPast
  <2>8. CachedIsIssued'
    BY <2>1, <2>3, <2>4, <2>5 DEF SendInv, CachedIsIssued
  <2>9. OneAttemptByOwner'
    BY <2>1, <2>3, <2>4, <2>5 DEF SendInv, OneAttemptByOwner
  <2>10. QuoteHonoured'
    BY <2>1, <2>3, <2>4, <2>5 DEF SendInv, QuoteHonoured, Expired
  <2> QED BY <2>6, <2>7, <2>8, <2>9, <2>10 DEF SendInv
<1> QED BY <1>1, <1>2, <1>3 DEF PrepareStep

LEMMA SendKeepsInv ==
    ASSUME SendInv, NEW r \in Req, SendStep(r)
    PROVE  SendInv'
<1>1. ASSUME NEW u \in User, NEW id \in PrepareId, SendTaken(r, u, id)
      PROVE  SendInv'
  <2>1. /\ cache[id] # NoEntry /\ cache[id] = issued[id] /\ attempts[id] = <<>>
        /\ issued[id].user = u
    BY <1>1 DEF SendTaken, Taken, SendInv, CachedIsIssued
  <2>2. /\ \A x \in PrepareId : cache'[x] = IF x = id THEN NoEntry ELSE cache[x]
        /\ \A x \in PrepareId : attempts'[x] = IF x = id THEN <<u>> ELSE attempts[x]
    BY <1>1, <2>1 DEF SendTaken, Take, SendInv, Typed
  <2>3. UNCHANGED <<now, cutoff, issued, voided>>
    BY <1>1 DEF SendTaken
  <2>4. Typed'
    <3>1. cache' \in [PrepareId -> Entry \cup {NoEntry}] /\ attempts' \in [PrepareId -> Seq(User)]
      BY <1>1, <2>1 DEF SendTaken, Take, SendInv, Typed
    <3>2. cache[id].intent \in Intent /\ IdempotencyKey(cache[id].intent) \in Intent \cup {NoKey}
      BY <2>1 DEF SendInv, Typed, Entry, IdempotencyKey
    <3>3. /\ req' \in [Req -> ReqState]
          /\ \A x \in Req : req'[x].pc = "preparing" => req'[x].user \in User /\ req'[x].intent \in Intent
      BY <1>1, <3>2 DEF SendTaken, SendInv, Typed, ReqState
    <3> QED BY <2>3, <3>1, <3>3 DEF SendInv, Typed
  <2>5. CutoffPast'
    BY <2>3 DEF SendInv, CutoffPast
  <2>6. CachedIsIssued' /\ OneAttemptByOwner'
    BY <2>1, <2>2, <2>3 DEF SendInv, CachedIsIssued, OneAttemptByOwner
  <2>7. QuoteHonoured'
    BY <2>1, <2>2, <2>3 DEF SendInv, QuoteHonoured, Expired
  <2> QED BY <2>4, <2>5, <2>6, <2>7 DEF SendInv
<1>2. ASSUME NEW u \in User, NEW id \in PrepareId, SendNotFound(r, u, id)
      PROVE  SendInv'
  BY <1>2, Removal DEF SendNotFound, Taken
<1>3. ASSUME NEW u \in User, NEW id \in PrepareId, SendForbidden(r, u, id)
      PROVE  SendInv'
  BY <1>3, Removal DEF SendForbidden
<1>4. CASE SdkPays(r) \/ SdkDedupes(r) \/ SdkSwaps(r) \/ SendFails(r) \/ SendOk(r)
  <2>1. \/ req' = [req EXCEPT ![r] = NoReq]
        \/ \E pc \in {"paid", "swapped"} : req' = [req EXCEPT ![r] = [req[r] EXCEPT !.pc = pc]]
    BY <1>4 DEF SdkPays, SdkDedupes, SdkSwaps, SendFails, SendOk
  <2>2. req[r].pc \in {"sending", "paid", "swapped"} /\ req \in [Req -> ReqState]
    BY <1>4 DEF SdkPays, SdkDedupes, SdkSwaps, SendFails, SendOk, SendInv, Typed
  <2>3. \A pc \in {"paid", "swapped"} :
            [req[r] EXCEPT !.pc = pc] \in ReqState /\ [req[r] EXCEPT !.pc = pc].pc = pc
    BY <2>2 DEF ReqState, NoReq
  <2>4. NoReq \in ReqState /\ NoReq.pc = "idle"
    BY DEF ReqState, NoReq
  <2>5. /\ req' \in [Req -> ReqState]
        /\ \A x \in Req : req'[x].pc = "preparing" => req'[x].user \in User /\ req'[x].intent \in Intent
    BY <2>1, <2>2, <2>3, <2>4 DEF SendInv, Typed
  <2> QED BY <1>4, <2>5, OnlyRequest DEF SdkPays, SdkDedupes, SdkSwaps, SendFails, SendOk
<1> QED BY <1>1, <1>2, <1>3, <1>4 DEF SendStep

LEMMA CacheKeepsInv ==
    ASSUME SendInv, CacheStep
    PROVE  SendInv'
<1> USE DEF SendInv
<1>1. CASE WakeSweeper
  <2>1. CutoffPast'
    BY <1>1, TTLAssumption DEF WakeSweeper, Typed, CutoffPast
  <2> QED
    BY <1>1, <2>1 DEF CacheStep, WakeSweeper, Typed, CachedIsIssued, OneAttemptByOwner,
                      QuoteHonoured, Expired
<1>2. CASE SweepDone
  BY <1>2 DEF CacheStep, SweepDone, Typed, CutoffPast, CachedIsIssued, OneAttemptByOwner,
              QuoteHonoured, Expired
<1>3. CASE Tick
  <2>1. now' = now + 1 /\ now' \in 0..MaxNow
    BY <1>3, MaxNowAssumption DEF Tick, Typed
  <2>2. Typed' /\ CachedIsIssued' /\ OneAttemptByOwner'
    BY <1>3, <2>1 DEF CacheStep, Tick, Typed, CachedIsIssued, OneAttemptByOwner
  <2>3. CutoffPast'
    BY <1>3, <2>1, TTLAssumption DEF Tick, Typed, CutoffPast
  <2>4. \A id \in PrepareId : issued[id] # NoEntry /\ ~(Expired(issued[id]))' => ~Expired(issued[id])
    BY <1>3, <2>1, TTLAssumption DEF CacheStep, Expired, Typed, Entry
  <2>5. QuoteHonoured'
    BY <1>3, <2>4 DEF CacheStep, Tick, QuoteHonoured
  <2> QED BY <2>2, <2>3, <2>5
<1>4. ASSUME NEW id \in PrepareId, SweepEntry(id)
      PROVE  SendInv'
  <2>1. cache[id] \in Entry /\ cache[id].created < cutoff /\ cutoff \in Int /\ cutoff <= now - TTL
    BY <1>4 DEF SweepEntry, Sweeps, Typed, CutoffPast
  <2>2. Expired(cache[id])
    BY <2>1, TTLAssumption DEF Expired, Entry, Typed
  <2> QED BY <1>4, <2>2, Removal DEF CacheStep, SweepEntry, Take
<1> QED BY <1>1, <1>2, <1>3, <1>4 DEF CacheStep

LEMMA SendInvStep == SendInv /\ [Next]_vars => SendInv'
<1> SUFFICES ASSUME SendInv, [Next]_vars PROVE SendInv'
  OBVIOUS
<1>1. CASE Restart
  <2>1. Typed'
    BY <1>1 DEF Restart, SendInv, Typed, NoReq, ReqState
  <2>2. \A id \in PrepareId : cache'[id] = NoEntry /\ (cache[id] # NoEntry => id \in voided')
    BY <1>1 DEF Restart
  <2>3. CutoffPast' /\ CachedIsIssued' /\ OneAttemptByOwner'
    BY <1>1, <2>2 DEF Restart, SendInv, CutoffPast, CachedIsIssued, OneAttemptByOwner
  <2>4. voided \subseteq voided' /\ UNCHANGED <<now, issued, attempts>>
    BY <1>1 DEF Restart
  <2>5. QuoteHonoured'
    BY <2>2, <2>4 DEF SendInv, QuoteHonoured, Expired
  <2> QED BY <2>1, <2>3, <2>5 DEF SendInv
<1>2. CASE UNCHANGED vars
  BY <1>2 DEF vars, SendInv, Typed, CutoffPast, CachedIsIssued, OneAttemptByOwner,
              QuoteHonoured, Expired
<1> QED BY <1>1, <1>2, PrepareKeepsInv, SendKeepsInv, CacheKeepsInv DEF Next

THEOREM SendInvariant == Spec => []SendInv
BY SendInvInit, SendInvStep, PTL DEF Spec

\* One-shot: the SDK is asked to pay a prepare_id at most once, for its owner.
THEOREM OneAttempt == Spec => []OneAttemptByOwner
<1>1. SendInv => OneAttemptByOwner
  BY DEF SendInv
<1> QED BY <1>1, SendInvariant, PTL

\* No unexpired quote is lost to the sweeper or to a race with it.
THEOREM QuotesAreHonoured == Spec => []QuoteHonoured
<1>1. SendInv => QuoteHonoured
  BY DEF SendInv
<1> QED BY <1>1, SendInvariant, PTL

-----------------------------------------------------------------------------
(* Safe retries.  The ledger and the keys the SDK has seen agree on every   *)
(* keyed intent, because every send of such an intent carries its key.      *)

LedgerMatchesKeys ==
    ~clientSigned => \A u \in User, i \in KeyedIntent :
        paid[<<u, i>>] = IF <<u, i>> \in sdkKeys THEN 1 ELSE 0

KeysCarried ==
    \A r \in Req : req[r].pc = "sending" =>
        /\ req[r].user \in User /\ req[r].intent \in Intent
        /\ req[r].key = IdempotencyKey(req[r].intent)

KeyedInv ==
    /\ req \in [Req -> ReqState]
    /\ cache \in [PrepareId -> Entry \cup {NoEntry}]
    /\ paid \in [User \X Intent -> 0..MaxPaid]
    /\ KeysCarried
    /\ LedgerMatchesKeys

\* Any step that neither pays nor starts a send.
LEMMA NoPayment ==
    ASSUME KeyedInv, req' \in [Req -> ReqState], cache' \in [PrepareId -> Entry \cup {NoEntry}],
           \A r \in Req : req'[r].pc = "sending" => req'[r] = req[r],
           UNCHANGED <<paid, sdkKeys, clientSigned>>
    PROVE  KeyedInv'
BY DEF KeyedInv, KeysCarried, LedgerMatchesKeys, IdempotencyKey

LEMMA PaymentKeepsKeyedInv ==
    ASSUME KeyedInv, NEW r \in Req, SdkPays(r), req' \in [Req -> ReqState],
           clientSigned' = clientSigned
    PROVE  KeyedInv'
<1> DEFINE u == req[r].user
           i == req[r].intent
           k == req[r].key
<1> USE DEF KeyedInv
<1>1. u \in User /\ i \in Intent /\ k = IdempotencyKey(i)
  BY DEF SdkPays, KeysCarried
<1>2. paid' \in [User \X Intent -> 0..MaxPaid]
  BY <1>1, MaxPaidAssumption DEF SdkPays, Payee
<1>3. KeysCarried'
  <2>1. \A x \in Req : x # r => req'[x] = req[x]
    BY DEF SdkPays
  <2>2. req' = [req EXCEPT ![r] = [req[r] EXCEPT !.pc = "paid"]]
    BY DEF SdkPays
  <2>3. req[r].pc = "sending"
    BY DEF SdkPays
  <2>4. [req[r] EXCEPT !.pc = "paid"].pc = "paid"
    BY <2>3 DEF ReqState, NoReq
  <2> QED BY <2>1, <2>2, <2>4 DEF KeysCarried, IdempotencyKey
<1>4. ASSUME NEW v \in User, NEW j \in KeyedIntent, ~clientSigned
      PROVE  paid'[<<v, j>>] = IF <<v, j>> \in sdkKeys' THEN 1 ELSE 0
  <2>1. j \in Intent /\ <<v, j>> \in User \X Intent
    BY KeyedAssumption
  <2>2. CASE <<v, j>> = <<u, i>>
    <3>1. k = j /\ k # NoKey
      BY <1>1, <1>4, <2>1, <2>2, NoKeyAssumption DEF IdempotencyKey
    <3>2. <<v, j>> \notin sdkKeys /\ <<v, j>> \in sdkKeys'
      BY <2>2, <3>1 DEF SdkPays, KeyOf
    <3>3. paid[<<v, j>>] = 0
      BY <1>4, <3>2 DEF LedgerMatchesKeys
    <3> QED BY <2>1, <2>2, <3>2, <3>3 DEF SdkPays, Payee
  <2>3. CASE <<v, j>> # <<u, i>>
    <3>1. paid'[<<v, j>>] = paid[<<v, j>>]
      BY <2>1, <2>3 DEF SdkPays, Payee
    <3>2. <<v, j>> \in sdkKeys' <=> <<v, j>> \in sdkKeys
      <4>1. sdkKeys' = IF k = NoKey THEN sdkKeys ELSE sdkKeys \cup {<<u, k>>}
        BY DEF SdkPays, KeyOf
      <4>2. k = NoKey \/ k = i
        BY <1>1 DEF IdempotencyKey
      <4> QED BY <2>3, <4>1, <4>2
    <3> QED BY <1>4, <3>1, <3>2 DEF LedgerMatchesKeys
  <2> QED BY <2>2, <2>3
<1> QED BY <1>2, <1>3, <1>4 DEF SdkPays, LedgerMatchesKeys, cacheVars

LEMMA KeyedInvStep == SendInv /\ SendInv' /\ KeyedInv /\ [Next]_vars => KeyedInv'
<1> SUFFICES ASSUME SendInv, SendInv', KeyedInv, [Next]_vars PROVE KeyedInv'
  OBVIOUS
<1>1. /\ req' \in [Req -> ReqState] /\ cache' \in [PrepareId -> Entry \cup {NoEntry}]
      /\ clientSigned' = clientSigned
  BY DEF SendInv, Typed, Next, vars
<1>2. ASSUME NEW r \in Req, PrepareStep(r) PROVE KeyedInv'
  <2>1. \A x \in Req : req'[x].pc = "sending" => req'[x] = req[x]
    BY <1>2 DEF PrepareStep, Prepare, Quote, NoQuote, NoReq, KeyedInv
  <2>2. UNCHANGED <<paid, sdkKeys>>
    BY <1>2 DEF PrepareStep, Prepare, Quote, NoQuote
  <2> QED BY <1>1, <2>1, <2>2, NoPayment
<1>3. ASSUME NEW r \in Req, NEW u \in User, NEW id \in PrepareId, SendTaken(r, u, id)
      PROVE  KeyedInv'
  <2>1. cache[id] \in Entry /\ cache[id].intent \in Intent
    BY <1>3 DEF SendTaken, Taken, KeyedInv, Entry
  <2>2. KeysCarried'
    BY <1>1, <1>3, <2>1 DEF SendTaken, KeyedInv, KeysCarried, IdempotencyKey
  <2> QED BY <1>1, <1>3, <2>2 DEF SendTaken, KeyedInv, LedgerMatchesKeys
<1>4. ASSUME NEW r \in Req, SdkPays(r) PROVE KeyedInv'
  BY <1>1, <1>4, PaymentKeepsKeyedInv DEF SdkPays, cacheVars
<1>5. ASSUME NEW r \in Req, SdkDedupes(r) \/ SdkSwaps(r) \/ SendFails(r) \/ SendOk(r) PROVE KeyedInv'
  <2>1. \/ req' = [req EXCEPT ![r] = NoReq]
        \/ \E pc \in {"paid", "swapped"} : req' = [req EXCEPT ![r] = [req[r] EXCEPT !.pc = pc]]
    BY <1>5 DEF SdkDedupes, SdkSwaps, SendFails, SendOk
  <2>2. /\ \A pc \in {"paid", "swapped"} : [req[r] EXCEPT !.pc = pc].pc = pc
        /\ NoReq.pc = "idle"
    <3>1. req[r].pc \in {"sending", "paid", "swapped"} /\ req[r] \in ReqState
      BY <1>5 DEF SdkDedupes, SdkSwaps, SendFails, SendOk, KeyedInv
    <3> QED BY <3>1 DEF ReqState, NoReq
  <2>3. \A x \in Req : req'[x].pc = "sending" => req'[x] = req[x]
    BY <2>1, <2>2 DEF KeyedInv
  <2>4. UNCHANGED <<paid, sdkKeys>>
    BY <1>5 DEF SdkDedupes, SdkSwaps, SendFails, SendOk
  <2> QED BY <1>1, <2>3, <2>4, NoPayment
<1>6. ASSUME NEW r \in Req, NEW u \in User, NEW id \in PrepareId,
             SendNotFound(r, u, id) \/ SendForbidden(r, u, id)
      PROVE  KeyedInv'
  BY <1>1, <1>6, NoPayment DEF SendNotFound, SendForbidden
<1>7. CASE CacheStep
  BY <1>1, <1>7, NoPayment DEF CacheStep
<1>8. CASE Restart
  <2>1. \A x \in Req : req'[x].pc = "sending" => req'[x] = req[x]
    BY <1>8 DEF Restart, NoReq
  <2> QED BY <1>1, <1>8, <2>1, NoPayment DEF Restart
<1>9. CASE UNCHANGED vars
  BY <1>1, <1>9, NoPayment DEF vars
<1> QED
  BY <1>2, <1>3, <1>4, <1>5, <1>6, <1>7, <1>8, <1>9 DEF Next, SendStep

LEMMA KeyedInvInit == Init => KeyedInv
<1> SUFFICES ASSUME Init PROVE KeyedInv
  OBVIOUS
<1>1. req \in [Req -> ReqState] /\ cache \in [PrepareId -> Entry \cup {NoEntry}]
  BY SendInvInit DEF SendInv, Typed
<1>2. KeysCarried
  BY DEF Init, KeysCarried, NoReq
<1>3. paid \in [User \X Intent -> 0..MaxPaid] /\ LedgerMatchesKeys
  BY KeyedAssumption, MaxPaidAssumption DEF Init, LedgerMatchesKeys
<1> QED BY <1>1, <1>2, <1>3 DEF KeyedInv

\* A client that keeps its Idempotency-Key pays an intent at most once.
THEOREM PaysOnce == Spec => []KeyedPaidOnce
<1>1. Init => KeyedInv
  BY KeyedInvInit
<1>2. KeyedInv => KeyedPaidOnce
  <2> SUFFICES ASSUME KeyedInv, ~clientSigned, NEW u \in User, NEW i \in KeyedIntent
               PROVE  paid[<<u, i>>] <= 1
    BY DEF KeyedPaidOnce
  <2>1. paid[<<u, i>>] = 0 \/ paid[<<u, i>>] = 1
    BY DEF KeyedInv, LedgerMatchesKeys
  <2> QED BY <2>1
<1> QED BY <1>1, <1>2, KeyedInvStep, SendInvariant, PTL DEF Spec

-----------------------------------------------------------------------------
(* Type correctness: what SendInv and KeyedInv leave open.                  *)

TypeRest ==
    /\ clientSigned \in BOOLEAN
    /\ cutoff \in {Asleep} \cup -TTL..MaxNow
    /\ sdkKeys \subseteq User \X Intent
    /\ voided \subseteq PrepareId

LEMMA TypeRestInit == Init => TypeRest
BY DEF Init, CacheInit, TypeRest

LEMMA TypeRestStep == SendInv /\ KeyedInv /\ TypeRest /\ [Next]_vars => TypeRest'
<1> SUFFICES ASSUME SendInv, KeyedInv, TypeRest, [Next]_vars PROVE TypeRest'
  OBVIOUS
<1> USE DEF TypeRest
<1>0. clientSigned' = clientSigned
  BY DEF Next, vars
<1>1. ASSUME NEW r \in Req, PrepareStep(r) PROVE TypeRest'
  BY <1>0, <1>1 DEF PrepareStep, Prepare, Quote, NoQuote, cacheVars
<1>2. ASSUME NEW r \in Req, SdkPays(r) PROVE TypeRest'
  <2>1. req[r].user \in User /\ req[r].intent \in Intent /\ req[r].key \in {req[r].intent, NoKey}
    BY <1>2 DEF SdkPays, KeyedInv, KeysCarried, IdempotencyKey
  <2>2. sdkKeys' \subseteq User \X Intent
    BY <1>2, <2>1 DEF SdkPays, KeyOf
  <2> QED BY <1>0, <1>2, <2>2 DEF SdkPays, cacheVars
<1>3. ASSUME NEW r \in Req, SdkDedupes(r) \/ SdkSwaps(r) \/ SendFails(r) \/ SendOk(r) PROVE TypeRest'
  BY <1>0, <1>3 DEF SdkDedupes, SdkSwaps, SendFails, SendOk, cacheVars
<1>4. ASSUME NEW r \in Req, NEW u \in User, NEW id \in PrepareId,
             SendTaken(r, u, id) \/ SendNotFound(r, u, id) \/ SendForbidden(r, u, id)
      PROVE  TypeRest'
  BY <1>0, <1>4 DEF SendTaken, SendNotFound, SendForbidden
<1>5. CASE CacheStep
  <2>1. now \in 0..MaxNow
    BY DEF SendInv, Typed
  <2>2. now - TTL \in -TTL..MaxNow
    BY <2>1, TTLAssumption, MaxNowAssumption
  <2> QED BY <1>0, <1>5, <2>2 DEF CacheStep, WakeSweeper, SweepDone, Tick, SweepEntry
<1>6. CASE Restart
  BY <1>0, <1>6 DEF Restart
<1>7. CASE UNCHANGED vars
  BY <1>0, <1>7 DEF vars
<1> QED BY <1>1, <1>2, <1>3, <1>4, <1>5, <1>6, <1>7 DEF Next, SendStep

\* Type correctness of cache, requests, ledger and history (TypeOK).
THEOREM SendTypeOK == Spec => []TypeOK
<1>1. SendInv /\ KeyedInv /\ TypeRest => TypeOK
  BY DEF SendInv, Typed, KeyedInv, TypeRest, TypeOK, CacheTypeOK
<1> QED
  BY <1>1, SendInvariant, KeyedInvInit, KeyedInvStep, TypeRestInit, TypeRestStep, PTL DEF Spec

-----------------------------------------------------------------------------
(* Every payment has a quote of its own.  The quotes spent for a user and   *)
(* an intent that no request is still sending with are never fewer than the *)
(* payments: a payment moves its quote from under way to done.              *)

Spent(u, i) == {id \in PrepareId : attempts[id] = <<u>> /\ issued[id].intent = i}
Done(u, i) == Spent(u, i) \ Sending

\* A request that sends has its quote to itself.
SendsOwnQuote ==
    /\ \A r \in Req : req[r].pc = "sending" =>
        /\ req[r].id \in PrepareId
        /\ attempts[req[r].id] = <<req[r].user>>
        /\ issued[req[r].id] # NoEntry
        /\ issued[req[r].id].intent = req[r].intent
    /\ \A r, q \in Req :
        req[r].pc = "sending" /\ req[q].pc = "sending" /\ r # q => req[r].id # req[q].id

PaidByDone == \A u \in User, i \in Intent : paid[<<u, i>>] <= Cardinality(Done(u, i))

QuotedInv == SendsOwnQuote /\ PaidByDone

\* A step that starts no send and takes no quote back.
LEMMA FewerSendOwn ==
    ASSUME SendsOwnQuote, \A r \in Req : req'[r].pc = "sending" => req'[r] = req[r],
           \A id \in PrepareId : attempts[id] # <<>> =>
               attempts'[id] = attempts[id] /\ issued'[id] = issued[id]
    PROVE  SendsOwnQuote'
<1>1. ASSUME NEW r \in Req, req'[r].pc = "sending"
      PROVE  /\ req'[r] = req[r] /\ req[r].id \in PrepareId
             /\ attempts'[req[r].id] = <<req[r].user>>
             /\ issued'[req[r].id] # NoEntry
             /\ issued'[req[r].id].intent = req[r].intent
  <2>1. req'[r] = req[r] /\ req[r].pc = "sending"
    BY <1>1
  <2>2. /\ req[r].id \in PrepareId /\ attempts[req[r].id] = <<req[r].user>>
        /\ issued[req[r].id] # NoEntry /\ issued[req[r].id].intent = req[r].intent
    BY <2>1 DEF SendsOwnQuote
  <2>3. attempts[req[r].id] # <<>>
    BY <2>2
  <2> QED BY <2>1, <2>2, <2>3
<1>2. \A r, q \in Req : req'[r].pc = "sending" /\ req'[q].pc = "sending" /\ r # q =>
          req'[r].id # req'[q].id
  BY DEF SendsOwnQuote
<1> QED BY <1>1, <1>2 DEF SendsOwnQuote

\* Such a step, if it makes no payment either.
LEMMA FewerSend ==
    ASSUME IsFiniteSet(PrepareId), SendInv, KeyedInv, QuotedInv, UNCHANGED paid,
           \A r \in Req : req'[r].pc = "sending" => req'[r] = req[r],
           \A id \in PrepareId : attempts[id] # <<>> =>
               attempts'[id] = attempts[id] /\ issued'[id] = issued[id]
    PROVE  PaidByDone'
<1> SUFFICES ASSUME NEW u \in User, NEW i \in Intent
             PROVE  paid'[<<u, i>>] <= Cardinality(Done(u, i)')
  BY DEF PaidByDone
<1>1. Done(u, i) \subseteq Done(u, i)'
  <2>1. Sending' \subseteq Sending
    BY DEF Sending
  <2>2. Spent(u, i) \subseteq Spent(u, i)'
    BY DEF Spent
  <2> QED BY <2>1, <2>2 DEF Done
<1>2. IsFiniteSet(Done(u, i)') /\ IsFiniteSet(Done(u, i))
  BY FS_Subset DEF Done, Spent
<1>3. /\ Cardinality(Done(u, i)) <= Cardinality(Done(u, i)')
      /\ Cardinality(Done(u, i)) \in Nat /\ Cardinality(Done(u, i)') \in Nat
  BY <1>1, <1>2, FS_Subset, FS_CardinalityType
<1>4. paid[<<u, i>>] \in Nat /\ paid[<<u, i>>] <= Cardinality(Done(u, i))
  BY MaxPaidAssumption DEF KeyedInv, QuotedInv, PaidByDone
<1> QED BY <1>3, <1>4

\* The money moves: the request's quote is done, and no other request has it.
LEMMA PaymentEndsSend ==
    ASSUME KeyedInv, SendsOwnQuote, NEW r \in Req, SdkPays(r)
    PROVE  /\ SendsOwnQuote' /\ req[r].user \in User /\ req[r].intent \in Intent
           /\ req[r].id \in Sending /\ Sending' = Sending \ {req[r].id}
<1>1. /\ req[r].pc = "sending" /\ req \in [Req -> ReqState]
      /\ req' = [req EXCEPT ![r] = [req[r] EXCEPT !.pc = "paid"]]
      /\ UNCHANGED <<attempts, issued>>
      /\ req[r].user \in User /\ req[r].intent \in Intent
  BY DEF SdkPays, KeyedInv, KeysCarried
<1>2. [req[r] EXCEPT !.pc = "paid"].pc = "paid"
  BY <1>1 DEF ReqState, NoReq
<1>3. /\ \A q \in Req : req'[q].pc = "sending" => q # r /\ req'[q] = req[q]
      /\ \A q \in Req : q # r => req'[q] = req[q]
  BY <1>1, <1>2
<1>4. SendsOwnQuote'
  BY <1>1, <1>3, FewerSendOwn
<1>5. req[r].id \in Sending /\ Sending' = Sending \ {req[r].id}
  BY <1>1, <1>3 DEF Sending, SendsOwnQuote
<1> QED BY <1>1, <1>4, <1>5

LEMMA PaymentKeepsQuotedInv ==
    ASSUME IsFiniteSet(PrepareId), SendInv, KeyedInv, QuotedInv, NEW r \in Req, SdkPays(r)
    PROVE  QuotedInv'
<1> DEFINE id == req[r].id
           v == req[r].user
           j == req[r].intent
<1>1. /\ req[r].pc = "sending" /\ UNCHANGED <<attempts, issued>>
      /\ paid' = [paid EXCEPT ![<<v, j>>] = @ + 1]
      /\ paid \in [User \X Intent -> 0..MaxPaid]
  BY DEF SdkPays, Payee, KeyedInv
<1>4. SendsOwnQuote' /\ v \in User /\ j \in Intent
  BY PaymentEndsSend DEF QuotedInv
<1>5. Sending' \subseteq Sending /\ id \in Sending /\ id \notin Sending'
  BY PaymentEndsSend DEF QuotedInv
<1>6. \A u, i : Spent(u, i)' = Spent(u, i)
  BY <1>1 DEF Spent
<1>7. ASSUME NEW u \in User, NEW i \in Intent
      PROVE  paid'[<<u, i>>] <= Cardinality(Done(u, i)')
  <2>1. /\ IsFiniteSet(Done(u, i)') /\ IsFiniteSet(Done(u, i))
        /\ Done(u, i) \subseteq Done(u, i)'
    BY <1>5, <1>6, FS_Subset DEF Done, Spent
  <2>2. /\ Cardinality(Done(u, i)) <= Cardinality(Done(u, i)')
        /\ Cardinality(Done(u, i)) \in Nat /\ Cardinality(Done(u, i)') \in Nat
    BY <2>1, FS_Subset, FS_CardinalityType
  <2>3. paid[<<u, i>>] \in Nat /\ paid[<<u, i>>] <= Cardinality(Done(u, i))
    BY <1>1, MaxPaidAssumption DEF QuotedInv, PaidByDone
  <2>4. CASE <<u, i>> # <<v, j>>
    <3>1. paid'[<<u, i>>] = paid[<<u, i>>]
      BY <1>1, <1>4, <2>4
    <3> QED BY <2>2, <2>3, <3>1
  <2>5. CASE <<u, i>> = <<v, j>>
    <3>1. paid'[<<u, i>>] = paid[<<u, i>>] + 1
      BY <1>1, <1>4, <2>5
    <3>2. id \in Done(u, i)' /\ id \notin Done(u, i)
      BY <1>1, <1>4, <1>5, <1>6, <2>5 DEF Done, Spent, QuotedInv, SendsOwnQuote
    <3>3. Cardinality(Done(u, i) \cup {id}) = Cardinality(Done(u, i)) + 1
      BY <2>1, <3>2, FS_AddElement
    <3>4. Done(u, i) \cup {id} \subseteq Done(u, i)'
      BY <2>1, <3>2
    <3>5. Cardinality(Done(u, i) \cup {id}) <= Cardinality(Done(u, i)')
      BY <2>1, <3>4, FS_Subset
    <3> QED BY <2>2, <2>3, <3>1, <3>3, <3>5
  <2> QED BY <2>4, <2>5
<1> QED BY <1>4, <1>7 DEF QuotedInv, PaidByDone

\* Asked once is not never, and for one user.
LEMMA OneIsNotNone == \A u, v : <<u>> # <<>> /\ (<<u>> = <<v>> => u = v)
<1> SUFFICES ASSUME NEW u, NEW v PROVE <<u>> # <<>> /\ (<<u>> = <<v>> => u = v)
  OBVIOUS
<1>1. Len(<<u>>) = 1 /\ Len(<<>>) = 0 /\ <<u>>[1] = u /\ <<v>>[1] = v
  OBVIOUS
<1> QED BY <1>1

\* A send takes its quote: one more is spent, and it is under way.
LEMMA TakingSpends ==
    ASSUME SendInv, KeyedInv, SendsOwnQuote,
           NEW r \in Req, NEW u \in User, NEW id \in PrepareId, SendTaken(r, u, id)
    PROVE  /\ SendsOwnQuote' /\ Sending' = Sending \cup {id}
           /\ cache[id] # NoEntry /\ cache[id] = issued[id] /\ attempts[id] = <<>>
           /\ \A x \in PrepareId : attempts'[x] = IF x = id THEN <<u>> ELSE attempts[x]
<1>1. /\ cache[id] # NoEntry /\ cache[id] = issued[id] /\ attempts[id] = <<>> /\ req[r] = NoReq
  BY DEF SendTaken, Taken, SendInv, CachedIsIssued
<1>2. \A x \in PrepareId : attempts'[x] = IF x = id THEN <<u>> ELSE attempts[x]
  BY <1>1 DEF SendTaken, SendInv, Typed
<1>3. /\ UNCHANGED <<issued, paid>> /\ req \in [Req -> ReqState]
      /\ req' = [req EXCEPT ![r] = [pc |-> "sending", user |-> u, id |-> id, intent |-> cache[id].intent,
                                    key |-> IdempotencyKey(cache[id].intent)]]
  BY DEF SendTaken, KeyedInv
<1>4. /\ req'[r].pc = "sending" /\ req'[r].id = id /\ req'[r].user = u
      /\ req'[r].intent = issued[id].intent
      /\ \A q \in Req : q # r => req'[q] = req[q]
  BY <1>1, <1>3
<1>5. \A q \in Req : req[q].pc = "sending" =>
        q # r /\ req[q].id # id /\ attempts'[req[q].id] = attempts[req[q].id]
  <2> SUFFICES ASSUME NEW q \in Req, req[q].pc = "sending"
               PROVE  q # r /\ req[q].id # id /\ attempts'[req[q].id] = attempts[req[q].id]
    OBVIOUS
  <2>1. req[q].id \in PrepareId /\ attempts[req[q].id] = <<req[q].user>>
    BY DEF SendsOwnQuote
  <2>2. req[q].id # id
    BY <1>1, <2>1, OneIsNotNone
  <2>3. q # r
    BY <1>1 DEF NoReq
  <2> QED BY <1>2, <2>1, <2>2, <2>3
<1>6. SendsOwnQuote'
  BY <1>1, <1>2, <1>3, <1>4, <1>5 DEF SendsOwnQuote
<1>7. Sending' = Sending \cup {id}
  BY <1>3, <1>4, <1>5 DEF Sending
<1> QED BY <1>1, <1>2, <1>6, <1>7

LEMMA TakingKeepsQuotedInv ==
    ASSUME SendInv, KeyedInv, QuotedInv,
           NEW r \in Req, NEW u \in User, NEW id \in PrepareId, SendTaken(r, u, id)
    PROVE  QuotedInv'
<1>1. /\ SendsOwnQuote' /\ Sending' = Sending \cup {id} /\ attempts[id] = <<>>
      /\ \A x \in PrepareId : attempts'[x] = IF x = id THEN <<u>> ELSE attempts[x]
  BY TakingSpends DEF QuotedInv
<1>2. UNCHANGED <<issued, paid>>
  BY DEF SendTaken
<1>3. ASSUME NEW w \in User, NEW i \in Intent
      PROVE  Done(w, i)' = Done(w, i)
  <2>1. Spent(w, i)' \ {id} = Spent(w, i) \ {id} /\ id \notin Spent(w, i)
    BY <1>1, <1>2 DEF Spent
  <2> QED BY <1>1, <2>1 DEF Done
<1> QED BY <1>1, <1>2, <1>3 DEF QuotedInv, PaidByDone

\* Steps that only lose: no payment, no new send, no new entry.
Loses ==
    /\ UNCHANGED <<paid, issued, attempts>>
    /\ \A r \in Req : req'[r].pc = "sending" => req'[r] = req[r]
    /\ \A id \in PrepareId : cache'[id] \in {cache[id], NoEntry}

LEMMA MostStepsLose ==
    ASSUME SendInv, KeyedInv, [Next]_vars
    PROVE  \/ \E r \in Req : \/ SdkPays(r) \/ Quote(r)
                             \/ \E u \in User, id \in PrepareId : SendTaken(r, u, id)
           \/ Loses
<1>0. /\ req \in [Req -> ReqState] /\ NoReq.pc = "idle"
      /\ cache \in [PrepareId -> Entry \cup {NoEntry}]
  BY DEF KeyedInv, NoReq
<1>1. ASSUME NEW r \in Req, \/ \E u \in User, i \in Intent : Prepare(r, u, i)
                            \/ NoQuote(r) \/ SdkDedupes(r) \/ SdkSwaps(r) \/ SendFails(r) \/ SendOk(r)
      PROVE  Loses
  <2>1. \A x \in Req : req'[x].pc = "sending" => req'[x] = req[x]
    <3>1. ASSUME NEW pc \in {"paid", "swapped"}, req[r].pc = "sending",
                 req' = [req EXCEPT ![r] = [req[r] EXCEPT !.pc = pc]]
          PROVE  \A x \in Req : req'[x].pc = "sending" => req'[x] = req[x]
      <4>1. [req[r] EXCEPT !.pc = pc].pc = pc
        BY <1>0, <3>1 DEF ReqState, NoReq
      <4> QED BY <1>0, <3>1, <4>1
    <3>2. CASE SdkDedupes(r) \/ SdkSwaps(r)
      BY <3>1, <3>2 DEF SdkDedupes, SdkSwaps
    <3>3. CASE ~SdkDedupes(r) /\ ~SdkSwaps(r)
      BY <1>0, <1>1, <3>3 DEF Prepare, NoQuote, SendFails, SendOk
    <3> QED BY <3>2, <3>3
  <2>2. UNCHANGED <<paid, attempts, issued, cache>>
    BY <1>1 DEF Prepare, NoQuote, SdkDedupes, SdkSwaps, SendFails, SendOk, cacheVars
  <2> QED BY <2>1, <2>2 DEF Loses
<1>2. ASSUME NEW r \in Req, NEW u \in User, NEW id \in PrepareId,
             SendNotFound(r, u, id) \/ SendForbidden(r, u, id)
      PROVE  Loses
  BY <1>0, <1>2 DEF SendNotFound, SendForbidden, Take, Loses
<1>3. CASE CacheStep
  BY <1>0, <1>3 DEF CacheStep, WakeSweeper, SweepDone, Tick, SweepEntry, Loses
<1>4. CASE Restart
  BY <1>0, <1>4 DEF Restart, Loses
<1>5. CASE UNCHANGED vars
  BY <1>5 DEF vars, cacheVars, Loses
<1> QED
  BY <1>1, <1>2, <1>3, <1>4, <1>5 DEF Next, PrepareStep, SendStep

\* A new quote gets an id that nobody was asked to pay.
LEMMA QuoteIsFresh ==
    ASSUME SendInv, KeyedInv, NEW r \in Req, Quote(r)
    PROVE  /\ FreshId \in PrepareId /\ issued[FreshId] = NoEntry /\ attempts[FreshId] = <<>>
           /\ \A x \in Req : req'[x].pc = "sending" => req'[x] = req[x]
           /\ \A x \in Req : req[x].pc = "sending" => req'[x] = req[x]
           /\ \A id \in PrepareId : id # FreshId => issued'[id] = issued[id] /\ cache'[id] = cache[id]
<1>1. FreshId \in PrepareId /\ issued[FreshId] = NoEntry
  BY DEF Quote, FreshId, Unissued
<1>2. attempts[FreshId] = <<>>
  BY <1>1 DEF SendInv, OneAttemptByOwner
<1>3. /\ \A x \in Req : req'[x].pc = "sending" => req'[x] = req[x]
      /\ \A x \in Req : req[x].pc = "sending" => req'[x] = req[x]
  BY DEF Quote, NoReq, KeyedInv
<1>4. \A id \in PrepareId : id # FreshId => issued'[id] = issued[id] /\ cache'[id] = cache[id]
  BY DEF Quote, Put, SendInv, Typed
<1> QED BY <1>1, <1>2, <1>3, <1>4

LEMMA OwnQuoteStep == SendInv /\ KeyedInv /\ SendsOwnQuote /\ [Next]_vars => SendsOwnQuote'
<1> SUFFICES ASSUME SendInv, KeyedInv, SendsOwnQuote, [Next]_vars PROVE SendsOwnQuote'
  OBVIOUS
<1>1. CASE Loses
  BY <1>1, FewerSendOwn DEF Loses
<1>2. ASSUME NEW r \in Req, Quote(r) PROVE SendsOwnQuote'
  <2>1. UNCHANGED attempts
    BY <1>2 DEF Quote
  <2> QED BY <1>2, <2>1, QuoteIsFresh, FewerSendOwn
<1> QED BY <1>1, <1>2, MostStepsLose, PaymentEndsSend, TakingSpends

LEMMA QuotedInvStep ==
    ASSUME IsFiniteSet(PrepareId)
    PROVE  SendInv /\ KeyedInv /\ QuotedInv /\ [Next]_vars => QuotedInv'
<1> SUFFICES ASSUME SendInv, KeyedInv, QuotedInv, [Next]_vars PROVE QuotedInv'
  OBVIOUS
<1>0. SendsOwnQuote'
  BY OwnQuoteStep DEF QuotedInv
<1>1. CASE Loses
  <2>1. PaidByDone'
    BY <1>1, FewerSend DEF Loses
  <2> QED BY <1>0, <2>1 DEF QuotedInv
<1>2. ASSUME NEW r \in Req, Quote(r) PROVE QuotedInv'
  <2>1. UNCHANGED <<paid, attempts>>
    BY <1>2 DEF Quote
  <2>2. PaidByDone'
    BY <1>2, <2>1, QuoteIsFresh, FewerSend
  <2> QED BY <1>0, <2>2 DEF QuotedInv
<1> QED BY <1>1, <1>2, MostStepsLose, PaymentKeepsQuotedInv, TakingKeepsQuotedInv

LEMMA OwnQuoteInit == Init => SendsOwnQuote
BY DEF Init, SendsOwnQuote, NoReq

\* However requests fail, retry and are cut off, the payments a user made for an intent
\* are no more than the quotes for it spent on the user's behalf.  The ids are finitely
\* many because they bound how many quotes are ever issued.
THEOREM PaymentsWereQuoted == ASSUME IsFiniteSet(PrepareId) PROVE Spec => []PaymentsAreQuoted
<1>1. Init => QuotedInv
  <2> SUFFICES ASSUME Init PROVE QuotedInv
    OBVIOUS
  <2>1. SendsOwnQuote
    BY OwnQuoteInit
  <2>2. ASSUME NEW u \in User, NEW i \in Intent
        PROVE  paid[<<u, i>>] <= Cardinality(Done(u, i))
    <3>1. Cardinality(Done(u, i)) \in Nat
      BY FS_Subset, FS_CardinalityType DEF Done, Spent
    <3> QED BY <3>1 DEF Init
  <2> QED BY <2>1, <2>2 DEF QuotedInv, PaidByDone
<1>2. SendInv /\ KeyedInv /\ QuotedInv => PaymentsAreQuoted
  <2> SUFFICES ASSUME KeyedInv, QuotedInv, NEW u \in User, NEW i \in Intent
               PROVE  paid[<<u, i>>] <= Cardinality(Spent(u, i))
    BY DEF PaymentsAreQuoted, Spent
  <2>1. IsFiniteSet(Spent(u, i)) /\ IsFiniteSet(Done(u, i)) /\ Done(u, i) \subseteq Spent(u, i)
    BY FS_Subset DEF Done, Spent
  <2>2. /\ Cardinality(Done(u, i)) <= Cardinality(Spent(u, i))
        /\ Cardinality(Done(u, i)) \in Nat /\ Cardinality(Spent(u, i)) \in Nat
    BY <2>1, FS_Subset, FS_CardinalityType
  <2>3. paid[<<u, i>>] \in Nat /\ paid[<<u, i>>] <= Cardinality(Done(u, i))
    BY MaxPaidAssumption DEF KeyedInv, QuotedInv, PaidByDone
  <2> QED BY <2>2, <2>3
<1>3. SendInv /\ KeyedInv /\ QuotedInv /\ [Next]_vars => QuotedInv'
  BY QuotedInvStep
<1> QED
  BY <1>1, <1>2, <1>3, SendInvariant, KeyedInvInit, KeyedInvStep, PTL DEF Spec

-----------------------------------------------------------------------------
(* Refinement of IdealQuotes.                                               *)

LostOrKept(id) ==
    \/ QuoteState(id)' = QuoteState(id)
    \/ QuoteState(id) \in {"open", "used"} /\ QuoteState(id)' = "gone"

\* A step in which some quotes are lost and nothing else happens to any.
LEMMA LosingIsLose ==
    ASSUME UNCHANGED <<issued, paid>>,
           \A id \in PrepareId : LostOrKept(id)
    PROVE  Quotes!Next
<1> DEFINE ids == {id \in PrepareId : QuoteState(id)' # QuoteState(id)}
<1>1. Quotes!Lose(ids)
  BY DEF Quotes!Lose, QuotedFor, LostOrKept
<1> QED BY <1>1 DEF Quotes!Next

LEMMA LosesQuotes ==
    ASSUME SendInv, SendsOwnQuote, Loses
    PROVE  Quotes!Next
<1>1. Sending' \subseteq Sending
  BY DEF Loses, Sending
<1>2. ASSUME NEW id \in PrepareId
      PROVE  LostOrKept(id)
  <2>1. cache[id] # NoEntry => id \notin Sending
    BY DEF SendInv, CachedIsIssued, SendsOwnQuote, Sending
  <2>2. cache'[id] \in {cache[id], NoEntry} /\ issued'[id] = issued[id]
    BY DEF Loses
  <2> QED BY <1>1, <2>1, <2>2 DEF QuoteState, LostOrKept
<1> QED BY <1>2, LosingIsLose DEF Loses

LEMMA QuotingIssues ==
    ASSUME SendInv, KeyedInv, SendsOwnQuote, NEW r \in Req, Quote(r)
    PROVE  Quotes!Next
<1>0. PICK id \in PrepareId : id = FreshId
  BY QuoteIsFresh
<1> DEFINE u == req[r].user
           i == req[r].intent
           e == [user |-> u, intent |-> i, created |-> now]
<1>1. issued[id] = NoEntry /\ u \in User /\ i \in Intent
  BY <1>0, QuoteIsFresh DEF Quote, SendInv, Typed
<1>2. cache'[id] = e /\ issued'[id] = e /\ e # NoEntry
  <2>1. cache'[id] = e /\ issued'[id] = e
    BY <1>0, <1>1 DEF Quote, Put, SendInv, Typed
  <2>2. e \in [user : User, intent : Intent, created : 0..MaxNow]
    BY <1>1 DEF SendInv, Typed
  <2> QED BY <2>1, <2>2, NoEntryAssumption
<1>3. Sending' = Sending
  BY QuoteIsFresh DEF Sending
<1>4. \A x \in PrepareId : x # id => QuoteState(x)' = QuoteState(x) /\ QuotedFor(x)' = QuotedFor(x)
  BY <1>0, <1>3, QuoteIsFresh DEF QuoteState, QuotedFor
<1>5. QuoteState(id) = "none" /\ QuoteState(id)' = "open" /\ QuotedFor(id)' = <<u, i>>
  <2>1. issued'[id].user = u /\ issued'[id].intent = i
    BY <1>2
  <2> HIDE DEF u, i, e
  <2> QED BY <1>1, <1>2, <2>1 DEF QuoteState, QuotedFor
<1>6. paid' = paid
  BY DEF Quote
<1>7. Quotes!Issue(id, u, i)
  <2> HIDE DEF u, i
  <2> QED BY <1>1, <1>4, <1>5, <1>6 DEF Quotes!Issue
<1> QED BY <1>1, <1>7 DEF Quotes!Next

LEMMA TakingUses ==
    ASSUME SendInv, KeyedInv, SendsOwnQuote,
           NEW r \in Req, NEW u \in User, NEW id \in PrepareId, SendTaken(r, u, id)
    PROVE  Quotes!Next
<1>1. Sending' = Sending \cup {id} /\ cache[id] # NoEntry /\ issued[id] # NoEntry
  BY TakingSpends
<1>2. /\ UNCHANGED <<issued, paid>>
      /\ \A x \in PrepareId : cache'[x] = IF x = id THEN NoEntry ELSE cache[x]
  BY DEF SendTaken, Take, SendInv, Typed
<1>3. \A x \in PrepareId : x # id => QuoteState(x)' = QuoteState(x)
  BY <1>1, <1>2 DEF QuoteState
<1>4. QuoteState(id) = "open" /\ QuoteState(id)' = "used"
  BY <1>1, <1>2 DEF QuoteState
<1>5. \A x \in PrepareId : QuotedFor(x)' = QuotedFor(x)
  BY <1>2 DEF QuotedFor
<1>6. Quotes!Use(id)
  BY <1>2, <1>3, <1>4, <1>5 DEF Quotes!Use
<1> QED BY <1>6 DEF Quotes!Next

LEMMA PayingPays ==
    ASSUME SendInv, KeyedInv, SendsOwnQuote, NEW r \in Req, SdkPays(r)
    PROVE  Quotes!Next
<1>0. PICK id \in PrepareId : id = req[r].id
  BY DEF SdkPays, SendsOwnQuote
<1>1. /\ attempts[id] = <<req[r].user>> /\ issued[id] # NoEntry
      /\ issued[id].intent = req[r].intent
  BY <1>0 DEF SdkPays, SendsOwnQuote
<1>2. issued[id].user = req[r].user
  <2>1. attempts[id] = <<>> \/ attempts[id] = <<issued[id].user>>
    BY <1>1 DEF SendInv, OneAttemptByOwner
  <2> QED BY <1>1, <2>1, OneIsNotNone
<1>3. cache[id] = NoEntry
  BY <1>1 DEF SendInv, CachedIsIssued
<1>4. id \in Sending /\ Sending' = Sending \ {id}
  BY <1>0, PaymentEndsSend
<1>5. UNCHANGED <<cache, issued>>
  BY DEF SdkPays, cacheVars
<1>6. \A x \in PrepareId : x # id => QuoteState(x)' = QuoteState(x)
  BY <1>4, <1>5 DEF QuoteState
<1>7. QuoteState(id) = "used" /\ QuoteState(id)' = "gone"
  BY <1>1, <1>3, <1>4, <1>5 DEF QuoteState
<1>8. /\ QuotedFor(id) = Payee(r)
      /\ \A x \in PrepareId : QuotedFor(x)' = QuotedFor(x)
  BY <1>1, <1>2, <1>5 DEF QuotedFor, Payee
<1>9. paid' = [paid EXCEPT ![QuotedFor(id)] = @ + 1]
  BY <1>8 DEF SdkPays
<1>10. Quotes!Pay(id)
  <2>1. \A x \in PrepareId : QuoteState(x)' = IF x = id THEN "gone" ELSE QuoteState(x)
    BY <1>6, <1>7
  <2> QED BY <1>1, <1>7, <1>8, <1>9, <2>1 DEF Quotes!Pay
<1> QED BY <1>1, <1>10 DEF Quotes!Next

\* The two-step send implements IdealQuotes (routes/Send.kt 158-398): for any number of
\* users, quotes, requests and restarts, whoever signs, money moves only in a step that
\* uses up one open quote of the payer, and no quote comes back.
THEOREM SendImplementsQuotes == Spec => ImplementsQuotes
<1>1. Init => Quotes!Init
  BY DEF Init, Quotes!Init, QuoteState, QuotedFor
<1>2. SendInv /\ KeyedInv /\ SendsOwnQuote /\ [Next]_vars => [Quotes!Next]_(Quotes!vars)
  BY MostStepsLose, LosesQuotes, QuotingIssues, TakingUses, PayingPays
<1> QED
  BY <1>1, <1>2, OwnQuoteInit, OwnQuoteStep, SendInvariant, KeyedInvInit, KeyedInvStep, PTL
     DEF Spec, ImplementsQuotes, Quotes!Spec
=============================================================================
