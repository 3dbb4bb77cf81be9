------------------------------ MODULE SeedSend ------------------------------
(***************************************************************************)
(* The two-step send as the server sees it (routes/Send.kt): POST          *)
(* .../send/prepare quotes a payment and caches it.  In a SIGNER=seed      *)
(* deployment POST .../send takes the quote and lets the server's SDK pay; *)
(* under SIGNER=turnkey POST .../send/publish takes it, and the SDK        *)
(* publishes the package the client signed, which pays or settles a swap   *)
(* that comes first.  Requests of several users run concurrently and share *)
(* the cache; the SDK call in the middle of each suspends, and may fail    *)
(* before or after the money moved.                                        *)
(*                                                                         *)
(* A client that sees a failure prepares again and sends again.  Its       *)
(* Idempotency-Key, if it uses one, is the same for every attempt at one   *)
(* intent, so the key is the intent itself.                                *)
(*                                                                         *)
(* An operator named ...Fault is a plausible bug in the definition that    *)
(* follows it; no action uses it.                                          *)
(***************************************************************************)
EXTENDS PrepareCache, Sequences, FiniteSets

CONSTANTS
    Req,           \* request coroutines
    KeyedIntent,   \* the intents whose client sends an Idempotency-Key
    MaxPaid,       \* bound on the payments for one intent
    NoKey

ASSUME KeyedAssumption == KeyedIntent \subseteq Intent
ASSUME NoKeyAssumption == NoKey \notin Intent
ASSUME MaxPaidAssumption == MaxPaid \in Nat

VARIABLES
    clientSigned,  \* SIGNER=turnkey: publish, not send, takes the quotes
    req,           \* per request: where it is, for whom, for what
    paid,          \* the SDK's ledger: payments made, per user and intent
    sdkKeys,       \* the idempotency keys the SDK has seen, per user
    issued,        \* history: the entry each id was issued with
    attempts,      \* history: for whom the SDK was asked to pay an id, in order
    voided         \* history: ids that left the cache by a restart or a stranger's send

vars == <<cache, now, cutoff, clientSigned, req, paid, sdkKeys, issued, attempts, voided>>

NoReq == [pc |-> "idle"]

ReqState ==
    {NoReq}
    \cup [pc : {"preparing"}, user : User, intent : Intent]
    \cup [pc : {"sending", "paid", "swapped"}, user : User, id : PrepareId, intent : Intent,
          key : Intent \cup {NoKey}]

TypeOK ==
    /\ CacheTypeOK
    /\ clientSigned \in BOOLEAN
    /\ req \in [Req -> ReqState]
    /\ paid \in [User \X Intent -> 0..MaxPaid]
    /\ sdkKeys \subseteq User \X Intent
    /\ issued \in [PrepareId -> Entry \cup {NoEntry}]
    /\ attempts \in [PrepareId -> Seq(User)]
    /\ voided \subseteq PrepareId

Init ==
    /\ CacheInit
    /\ clientSigned \in BOOLEAN
    /\ req = [r \in Req |-> NoReq]
    /\ paid = [p \in User \X Intent |-> 0]
    /\ sdkKeys = {}
    /\ issued = [id \in PrepareId |-> NoEntry]
    /\ attempts = [id \in PrepareId |-> <<>>]
    /\ voided = {}

-----------------------------------------------------------------------------
(* POST /users/{userId}/payments/send/prepare *)

Prepare(r, u, i) ==
    /\ req[r] = NoReq
    /\ req' = [req EXCEPT ![r] = [pc |-> "preparing", user |-> u, intent |-> i]]
    /\ UNCHANGED <<cacheVars, paid, sdkKeys, issued, attempts, voided>>

Unissued == {id \in PrepareId : issued[id] = NoEntry}

\* "ps_" and 16 random bytes: some id that was never used before.
FreshId == CHOOSE id \in Unissued : TRUE

\* prepareSendPayment came back with a method in scope, and under SIGNER=turnkey the
\* unsigned package was built: cache it and answer.
Quote(r) ==
    /\ req[r].pc = "preparing"
    /\ Unissued # {}
    /\ Put(FreshId, req[r].user, req[r].intent)
    /\ issued' = [issued EXCEPT ![FreshId] = cache'[FreshId]]
    /\ req' = [req EXCEPT ![r] = NoReq]
    /\ UNCHANGED <<now, cutoff, paid, sdkKeys, attempts, voided>>

\* It failed, or quoted a method, a package or a user out of scope: nothing is cached.
NoQuote(r) ==
    /\ req[r].pc = "preparing"
    /\ req' = [req EXCEPT ![r] = NoReq]
    /\ UNCHANGED <<cacheVars, paid, sdkKeys, issued, attempts, voided>>

-----------------------------------------------------------------------------
(* POST /users/{userId}/payments/send, and .../send/publish.  The one the     *)
(* deployment does not sign with answers 409 before it looks at the cache.   *)

\* Fault: the header is read but a blank test the wrong way round drops it.
IdempotencyKeyFault(i) == NoKey

\* The Idempotency-Key header of a send of intent i, passed on to the SDK.  publish
\* reads none.
IdempotencyKey(i) == IF i \in KeyedIntent /\ ~clientSigned THEN i ELSE NoKey

\* Fault: the owner is not compared.
SendTakenFault(r, u, id) ==
    /\ req[r] = NoReq
    /\ Taken(id) # NoEntry
    /\ Take(id)
    /\ req' = [req EXCEPT ![r] =
                  [pc |-> "sending", user |-> u, id |-> id, intent |-> cache[id].intent,
                   key |-> IdempotencyKey(cache[id].intent)]]
    /\ attempts' = [attempts EXCEPT ![id] = Append(@, u)]
    /\ UNCHANGED <<now, cutoff, paid, sdkKeys, issued, voided>>

\* Answering a request ends it: which code it gets (200, 404, 403, 502) is in the
\* name of the action and not in the state.

\* The request names an id that some client was given, and finds it.
SendTaken(r, u, id) ==
    /\ req[r] = NoReq
    /\ issued[id] # NoEntry
    /\ Taken(id) # NoEntry
    /\ Taken(id).user = u
    /\ Take(id)
    /\ req' = [req EXCEPT ![r] =
                  [pc |-> "sending", user |-> u, id |-> id, intent |-> cache[id].intent,
                   key |-> IdempotencyKey(cache[id].intent)]]
    /\ attempts' = [attempts EXCEPT ![id] = Append(@, u)]
    /\ UNCHANGED <<now, cutoff, paid, sdkKeys, issued, voided>>

\* 404: no entry, or an expired one, which is gone now.
SendNotFound(r, u, id) ==
    /\ req[r] = NoReq
    /\ issued[id] # NoEntry
    /\ Taken(id) = NoEntry
    /\ Take(id)
    /\ UNCHANGED <<now, cutoff, req, paid, sdkKeys, issued, attempts, voided>>

\* 403: the entry is somebody else's.  take has removed it all the same.
SendForbidden(r, u, id) ==
    /\ req[r] = NoReq
    /\ issued[id] # NoEntry
    /\ Taken(id) # NoEntry
    /\ Taken(id).user # u
    /\ Take(id)
    /\ voided' = voided \cup {id}
    /\ UNCHANGED <<now, cutoff, req, paid, sdkKeys, issued, attempts>>

Payee(r) == <<req[r].user, req[r].intent>>
KeyOf(r) == <<req[r].user, req[r].key>>

\* Inside sendPayment: the money moves.
SdkPays(r) ==
    /\ req[r].pc = "sending"
    /\ KeyOf(r) \notin sdkKeys
    /\ paid[Payee(r)] < MaxPaid
    /\ paid' = [paid EXCEPT ![Payee(r)] = @ + 1]
    /\ sdkKeys' = IF req[r].key = NoKey THEN sdkKeys ELSE sdkKeys \cup {KeyOf(r)}
    /\ req' = [req EXCEPT ![r].pc = "paid"]
    /\ UNCHANGED <<cacheVars, issued, attempts, voided>>

\* The SDK knows the key: it returns the payment it has already made.
SdkDedupes(r) ==
    /\ req[r].pc = "sending"
    /\ KeyOf(r) \in sdkKeys
    /\ req' = [req EXCEPT ![r].pc = "paid"]
    /\ UNCHANGED <<cacheVars, paid, sdkKeys, issued, attempts, voided>>

\* Inside publishSignedTransferPackage: the package is of a swap, which changes the
\* wallet's leaves and pays nobody.
SdkSwaps(r) ==
    /\ clientSigned
    /\ req[r].pc = "sending"
    /\ req' = [req EXCEPT ![r].pc = "swapped"]
    /\ UNCHANGED <<cacheVars, paid, sdkKeys, issued, attempts, voided>>

\* The SDK threw, before or after it acted (502), or was never reached (409 on a
\* signer mismatch).
SendFails(r) ==
    /\ req[r].pc \in {"sending", "paid", "swapped"}
    /\ req' = [req EXCEPT ![r] = NoReq]
    /\ UNCHANGED <<cacheVars, paid, sdkKeys, issued, attempts, voided>>

\* The SDK returned: 200.  After a payment the optimizer is told (OptimizeQueue's
\* Call); after a swap the client prepares the next package.
SendOk(r) ==
    /\ req[r].pc \in {"paid", "swapped"}
    /\ req' = [req EXCEPT ![r] = NoReq]
    /\ UNCHANGED <<cacheVars, paid, sdkKeys, issued, attempts, voided>>

-----------------------------------------------------------------------------
\* The process restarts.  The cache and the requests are in memory; the SDK's
\* ledger is not.  A payment under way may or may not have been made: SdkPays
\* came first or did not.
Restart ==
    /\ cache' = [id \in PrepareId |-> NoEntry]
    /\ cutoff' = Asleep
    /\ req' = [r \in Req |-> NoReq]
    /\ voided' = voided \cup {id \in PrepareId : cache[id] # NoEntry}
    /\ UNCHANGED <<now, paid, sdkKeys, issued, attempts>>

CacheStep ==
    /\ WakeSweeper \/ SweepDone \/ Tick \/ \E id \in PrepareId : SweepEntry(id)
    /\ UNCHANGED <<req, paid, sdkKeys, issued, attempts, voided>>

PrepareStep(r) ==
    \/ \E u \in User, i \in Intent : Prepare(r, u, i)
    \/ Quote(r) \/ NoQuote(r)

SendStep(r) ==
    \/ \E u \in User, id \in PrepareId :
            SendTaken(r, u, id) \/ SendNotFound(r, u, id) \/ SendForbidden(r, u, id)
    \/ SdkPays(r) \/ SdkDedupes(r) \/ SdkSwaps(r) \/ SendFails(r) \/ SendOk(r)

\* The signer is read at boot; a restart with the other one is in Accounts.
Next ==
    /\ \/ \E r \in Req : PrepareStep(r) \/ SendStep(r)
       \/ CacheStep
       \/ Restart
    /\ UNCHANGED clientSigned

Spec == Init /\ [][Next]_vars

\* Only the sweeper thread is sure to go on.  A send has no timeout on the server:
\* nothing makes the SDK's call return.
Sweeper(A) == A /\ UNCHANGED <<clientSigned, req, paid, sdkKeys, issued, attempts, voided>>

Fairness ==
    /\ WF_vars(Sweeper(WakeSweeper))
    /\ WF_vars(Sweeper(SweepDone))
    /\ \A id \in PrepareId : WF_vars(Sweeper(SweepEntry(id)))

FairSpec == Spec /\ Fairness

-----------------------------------------------------------------------------
\* One-shot (comments at 153-155 and 521): however sends, double clicks, strangers,
\* the sweeper and restarts interleave, the SDK is asked to pay a prepare_id at most
\* once, and on behalf of the user it was issued to.
OneAttemptByOwner ==
    \A id \in PrepareId :
        attempts[id] = <<>> \/ (issued[id] # NoEntry /\ attempts[id] = <<issued[id].user>>)

\* A quote is honoured for its whole TTL: until it expires it stays in the cache
\* unless a send took it or it was voided.  A sweep that uses a cutoff from before
\* the quote existed, or disagrees with take on the boundary, would break this.
QuoteHonoured ==
    \A id \in PrepareId :
        issued[id] # NoEntry /\ ~Expired(issued[id]) /\ attempts[id] = <<>> /\ id \notin voided
            => cache[id] = issued[id]

\* Every payment was quoted: the payments a user made for an intent are no more than
\* the quotes for it that were spent on the user's behalf, whatever failed in between.
PaymentsAreQuoted ==
    \A u \in User, i \in Intent :
        paid[<<u, i>>] <= Cardinality({id \in PrepareId :
                              attempts[id] = <<u>> /\ issued[id].intent = i})

\* Safe retry (DESIGN "Idempotency"): where the server signs, a client that keeps its
\* Idempotency-Key across failures, re-prepares and restarts pays at most once.
KeyedPaidOnce == ~clientSigned => \A u \in User, i \in KeyedIntent : paid[<<u, i>>] <= 1

\* The cache does not leak: an entry nobody takes is swept once it has expired.
ExpiredAreSwept ==
    \A id \in PrepareId :
        (cache[id] # NoEntry /\ Expired(cache[id])) ~> cache[id] = NoEntry

-----------------------------------------------------------------------------
\* The quotes a request is with the SDK for.
Sending == {req[r].id : r \in {q \in Req : req[q].pc = "sending"}}

\* What has become of a quote.
QuoteState(id) ==
    IF issued[id] = NoEntry THEN "none"
    ELSE IF cache[id] # NoEntry THEN "open"
    ELSE IF id \in Sending THEN "used" ELSE "gone"

QuotedFor(id) == IF issued[id] = NoEntry THEN NoEntry ELSE <<issued[id].user, issued[id].intent>>

Quotes == INSTANCE IdealQuotes
              WITH state <- [id \in PrepareId |-> QuoteState(id)],
                   about <- [id \in PrepareId |-> QuotedFor(id)],
                   Nothing <- NoEntry

\* The two-step send implements IdealQuotes: each payment uses up, in the step that makes
\* it, one open quote of the payer for that intent, and a quote that is gone stays gone
\* (comments at 153-155 and 521; DESIGN.md 221-227).
ImplementsQuotes == Quotes!Spec
=============================================================================
