# A TLA+ model of sdk-mu-demo

This directory specifies and checks the parts of the multi-user wallet server
(`src/src/main/kotlin`) and its web client (`client`) in which something can go
wrong that a test would hardly reach: concurrent requests around suspension points,
queues with limits, calls that fail after they took effect, restarts, and external
services that finish late. TLC model-checks small instances; the theorems in the
`...Proofs` modules are checked by TLAPS and hold for every value of the constants.

All paths below are relative to the repository; `Kotlin/` stands for
`src/main/kotlin/`.

## 1. The system

One Kotlin process serves many users. It keeps one table (`users`) in Postgres and
almost everything else in memory; wallets live in the Breez SDK's storage, keys are
derived from a master secret (`SIGNER=seed`) or held by Turnkey
(`SIGNER=turnkey`). Every request builds an SDK instance for its user, runs one
operation and disconnects; there is no lock per user. The browser keeps its
credentials in local storage and learns of payments over a WebSocket.

| Component | State | Operations | Talks to | What is hard | What makes it correct |
|---|---|---|---|---|---|
| Optimize queue (`Optimizer.kt`) | `inflight` set, channel, semaphore | `enqueue`, consumer, `runOnce` | webhook and send routes call it; it opens the SDK | cancellation between claim and delivery, runs that never return, permits | one job per user, no orphaned claim, no lost permit, nobody stuck |
| Prepare cache (`routes/Send.kt` 487-527) | map from prepare_id to entry | `put`, `take`, sweeper | send routes | non-atomic sweep against requests, expiry boundary | one-shot, owner-bound, quotes good for their TTL, no leak |
| Server-signed send (`routes/Send.kt` 162-329) | the request coroutine | prepare, send | cache, SDK, optimizer | failure after payment, retry, restart | no payment without its own quote, keyed intents are paid once |
| Client-signed send (`routes/Send.kt` 206-269, 333-398; `client/lib/turnkey.ts`; `SendDialog.tsx` 126-155) | cache; credentials, session and keypair in the browser | prepare, sign, publish, swap loop; ensure, mint, clear a session | Turnkey, cache, SDK | session of another wallet, keypairs replaced behind a send, rounds of swaps | the passkey stamps every payment, the session fits the wallet |
| Event stream (`EventBus.kt`, `EventBridge.kt`, `routes/Events.kt`, `client/lib/events.ts`, `client/app/page.tsx`) | flow buffer, outbox, socket, refetches | publish, pump, send, close, reconnect, refetch | SDK listener, browser | bounded queues that drop, slow readers, reconnects | order, the newest event survives, overflow ends the session |
| Accounts (`Users.kt`, `Turnkey.kt`, `routes/Login.kt`, `Auth.kt`, part of `Sdk.kt`, `signup/page.tsx`) | `users` row, Turnkey sub-organization, wallet settings, stored credentials | sign up, log in, authenticate | Turnkey, SDK, database | a dozen steps across three systems without a transaction | nobody is visible half provisioned, the delegated key is scoped |
| SDK lease (`Sdk.kt`) | one SDK instance per call | connect, op, disconnect | SDK, database | a failure or a cancellation at any await, lazy persist of the identity key | the caller learns how its operation ended, whatever becomes of the rest |
| Webhook receiver (`routes/Webhooks.kt`) | none | verify, sync, enqueue, acknowledge | payment provider, SDK, optimizer | redelivery, crash before the answer | no acknowledged event is unprocessed |
| Send dialog (`SendDialog.tsx`, `page.tsx` 97-145) | step, text, prepared quote, pending resolvers | type, paste, scan, prepare, send, await the payment | REST, events, scanner | aborts, bodies that stall, event before its resolver, dialog closed and reopened under a running send | one approval pays at most once, success is told only when it is true |
| Wallet page (`page.tsx`, `TransactionList.tsx`) | list, balance, offset | refetch, load more, log out | REST, events | answers out of order | no gaps, the skeleton ends unless a body stalls |
| Receive dialog, deposits (`ReceiveDialog.tsx`, `DepositDetailsDialog.tsx`) | invoice and address flow, selected deposit | create invoice, ask for an address, claim | REST | effects that re-run, a claim that outlives its sheet | one request, one claim at a time |
| QR scanner (`useQrScanner.ts`, `QrScannerDialog.tsx`) | scanner in a ref, timer | start, stop, scan, pick an image | browser | close while starting | the camera is released |
| Celebration and toasts (`PaymentReceivedCelebration.tsx`, `ToastContext.tsx`, `ToastNotification.tsx`) | overlay, timers | celebrate, hide, show a toast | events | timers re-armed by renders, delayed closes never cancelled | nothing invisible blocks the page, all notices go |
| Listing, deposits, receive, info routes | none | one SDK call each | SDK | pagination arithmetic, parsing | pages neither overlap nor skip |
| Boot, config, health, logging, rendering | none after start-up | | | | |

`PROJECT.json` lists the same components with their status, and under `hazards`
every place found so far where the code is exposed to something hard to test, with
the property that would notice.

## 2. The modules

| Module | Models | Lines of the source |
|---|---|---|
| `OptimizeSlots` | abstract: what the optimize queue promises | |
| `OptimizeQueue` | the optimize queue | `Optimizer.kt` 33-124 |
| `OptimizeQueueProofs` | theorems about it | |
| `PrepareCache` | the prepare cache, used by the send modules | `routes/Send.kt` 487-527 |
| `IdealQuotes` | abstract: what the two-step send promises about quotes | |
| `SeedSend` | prepare, send and publish over that cache, whichever side signs (EXTENDS `PrepareCache`, implements `IdealQuotes`) | `routes/Send.kt` 158-398 |
| `SeedSendProofs` | theorems about both, that every payment was quoted, and the refinement of `IdealQuotes` | |
| `EventStream` | one user's push path, server to page | `EventBus.kt`, `EventBridge.kt`, `routes/Events.kt`, `events.ts`, `page.tsx` |
| `EventStreamProofs` | theorems about it | |
| `Accounts` | sign-up, login, authentication, signer check | `Users.kt`, `Turnkey.kt`, `routes/Login.kt`, `Auth.kt`, `Sdk.kt`, `signup/page.tsx` |
| `AccountsProofs` | theorems about it | |
| `ClientApi` | how a call of the client can end; the shapes its control flow reads | `client/lib/api.ts` |
| `IdealSend` | abstract: what a send promises the user | |
| `SendDialog` | send dialog, `doSend`, swap loop, `awaitPayment` (EXTENDS `ClientApi`, implements `IdealSend`) | `SendDialog.tsx`, `page.tsx`, `turnkey.ts`, `BottomSheet.tsx`, `routes/Send.kt` |
| `SendDialogProofs` | theorems about it, the refinement of `IdealSend` among them | |
| `BrowserSession` | credentials, session and keypair of a browser under sign-up, login, logout and sends | `turnkey.ts`, `signup/page.tsx`, `page.tsx`, `api.ts` |
| `BrowserSessionProofs` | theorems about it | |
| `WalletPage` | list and balance under refetches and load-more | `page.tsx`, `TransactionList.tsx`, `routes/Payments.kt` |
| `Receiving` | receive dialog, deposits and their claim (EXTENDS `ClientApi`) | `ReceiveDialog.tsx`, `DepositDetailsDialog.tsx`, `page.tsx` |
| `QrScan` | the camera of the scan dialog | `useQrScanner.ts`, `QrScannerDialog.tsx` |
| `Notices` | celebration and toasts | `PaymentReceivedCelebration.tsx`, `ToastContext.tsx`, `ToastNotification.tsx`, `page.tsx` |
| `SdkLease` | `withUser`: row, identity key, build, listener, operation, disconnect, cancellation | `Sdk.kt` 70-243 |
| `WebhookDelivery` | the webhook route and the optimization as callers of `SdkLease` (EXTENDS it, implements `OptimizeSlots` for one user) | `routes/Webhooks.kt`, `Optimizer.kt` |
| `WebhookProofs` | theorems about both | |
| `MCParts` | one run over `WalletPage`, `Receiving`, `QrScan`, `Notices` and `WebhookDelivery`, which share no state | |
| `PartsProofs` | theorems about that run, and about each of the four client parts by itself | |
| other `MC...` | TLC instances, one per specification | |

An operator `XFault`, just before `X`, is the bug `X` might have had; no action uses
it. `PROJECT.json` (`mutants`) says which property notices which fault.

### OptimizeQueue

`inflight`, `channel`, `permits` are the fields of the class; `waiters` is the
semaphore's line, `caller` the position of each handler in `enqueue`, `job` the
position of each launched coroutine. A step is what runs between two suspension
points. `enqueue` is `Call`, then `Claim` or `Drop` at the mutex, then `Deliver`;
`Cancel` can hit a caller only where it suspends, which is the point of the comment
at 79-83. The consumer is `Launch`; `withPermit` is `Acquire` or `Park` on entry and
`Free` or `HandOver` on exit (Kotlin's semaphore is fair and hands the permit to the
first waiter). A run ends by `Return` (done, preempted or failed) or `Timeout`, and
then owes `Unclaim`, the finally block. `Restart` empties everything. The roll-back
branch of `enqueue` (84-87) has no action because `trySend` on an unlimited channel
that nothing closes cannot fail. `enabled = false` is a no-op and not modelled.

### PrepareCache and SeedSend

The cache is a function from ids to entries; its operations are operators
(`Put`, `Take`, `Taken`) which the handlers' actions call. The sweeper wakes,
computes its cutoff, and visits entries one at a time while requests go on: the
iteration of a `ConcurrentHashMap` is not a snapshot. `take` tests `now - created >
TTL` and the sweeper `created < now - TTL`: `QuoteHonoured` would notice if they
disagreed in the harmful direction. `SendTaken`, `SendNotFound` and `SendForbidden`
are the three ways through lines 290-298; the last one consumes the entry too.
`SdkPays`, `SdkDedupes` and `SendFails` split the suspended SDK call so that it may
fail before or after the money moved. `Restart` forgets cache and requests and keeps
the ledger. `clientSigned` is the signer the process was booted with: it decides which of
`send` and `publish` reaches the cache (the other answers 409 and changes nothing). The two
handlers take an entry in the same way; they differ in that `publish` reads no
Idempotency-Key and in that the SDK may settle a swap first (`SdkSwaps`), which spends the
quote and pays nobody. Whether a package is a swap or the payment is left open until it is
published. The history variables `issued`, `attempts` and `voided` only record.
`QuoteState` maps a quote to none, open (in the cache), used (with the SDK) or gone for
`IdealQuotes`. Ids are 128 random bits and never collide. The clock is assumed not to step back.

### EventStream

`ver` counts the events of the wallet, so an event is the version it announces.
`buf` is the flow's buffer as seen by the session's collector, `outbox` the bounded
channel, `wire` the socket. `Pump` moves an event to the outbox, `Overflow` is a
failed `trySend`: the outbox closes, the pump dies, and `CloseOverflowed` runs after
the sender has drained what was left. The page refetches on open and on every event
(`StartFetch`, `ServeFetch`, `ShowFetch`, `FailFetch`). A session whose network is
gone is dropped at once: the server notices later, but it can reach no page. Several
sessions of one user are independent collectors and are not modelled; nor are the
events' payloads, since the page refetches whatever the event says.

### Accounts

A sign-up stands for everything it mints. Turnkey is external: an `activity` is
pending until `ActivityRuns` or `ActivityFails`, even if the handler has given up or
the process died, and `Authorized` and `Permitted` are its rules for root users and
policies. `Created` reads the result by position as the code does. `CallFails`,
`StepRefused`, `GiveUp` are the ways to 502; `InsertFails` is the way to 500, with or
without the row. `Restart(m)` may flip the signer. The browser has one request at a
time (`busy`), may lose its answer, and stores what it gets; `Mismatch` is the 409
that makes the page log out. `Use` stands for every authenticated request; the
webhook route and the optimizer go through the same `withUserContext` check.
Rows from before the identity-key column (the lazy persist of `Sdk.kt` 210-234) are in
`SdkLease`. Left out: rate limiting, and the cryptography of stamps and JWTs.

### SendDialog and IdealSend

The page gives the dialog a new key on each open, so each open is a *mount* with a
state of its own (`dlg` for the mount on the page, `run[m]` for the `doSend` of mount
`m`, which goes on when its mount is closed or replaced). `run[m].pc` is the await
`doSend` is at: ensuring the session, signing, publishing (or sending, in a seed
deployment), preparing again after a swap, waiting for the payment's event, asking for
the payment. `inbox` holds requests the server has or will get, whether or not anybody
still listens. A call of `call()` waits in two phases (`CallPhase` of `ClientApi`): until
the headers arrive its 45 s timer runs, and `Abort` is that timer or a broken connection,
after which `Serve` may still make the payment; `Headers` clears the timer, and nothing
bounds the wait for the body that follows. `Serve` picks what a publish or send can come
to (refused, swap settled, payment in some status) and how the call ends (`CallEnd`): with
an answer, with an error, or with *nothing*, the null that a 2xx with an unreadable body
is returned as. After nothing the dialog shows a review step without a card, the swap loop
throws, and `getPayment` counts as a timeout. `Event` needs the resolver to be registered;
an event that came before it is simply not an action, and the 60 s timer is what remains.

The result step has a headline and a message under it, and both are in the model: the
headline is "Payment Sent!" (`success`) or "Payment Failed", and the message says that the
payment was sent, failed or is pending, or is the text of an error. `IdealSend` has three
variables per mount (approved, money, told); `SendDialog` implements it with the mapping
at the end of the module. It makes "Payment Sent!" true, and the messages that a payment
failed or is pending. Of the headline "Payment Failed" it makes nothing, because the code
does not: that headline is also over payments that are still pending and over sends that
went through after their request was aborted, and nothing stops the user from approving
again, which is another mount. Payment requests are model values; the amount belongs to
them.

### BrowserSession

One tab. `creds` is local storage, `jwt` and `key` are what the Turnkey SDK keeps in its
store and in IndexedDB, `owner` and `expired` what Turnkey knows of keypairs. Each flow
has the await it is at (`entry`, `send`, `exit`), and all of them go on behind a page
change, as promises do. `disturbed` is a history variable: it records that another flow
replaced or cleared the keypair that `ensureSession` had settled for. The wallets in
`Foreign` belong to a deployment with the other signer and answer every call with 409.
The 5 s of slack before a session's expiry are not modelled: a registration may run out
between any two steps.

### WalletPage, Receiving, QrScan, Notices

`WalletPage` numbers payments by age, so a page is a descending sequence. A request waits
for headers and then for its body, as in `ClientApi`, and may be answered with the history
of any moment from asking to the headers. An answer of nothing for the list throws when
the balance is already shown (`RefetchLandsInPart`); one for a load-more throws inside the
updater of the list while the page renders, which breaks it, and the user loads it again
(`MoreBreaks`). The 50 of a page is `PAGE`; `next_offset` is computed as
`routes/Payments.kt` does, from a full page. `Receiving` has the two flows of the receive dialog with a new mount per open, and
the deposit sheet, which is never remounted. `QrScan` cuts `startScanning` at its awaits
(`hasCamera`, `start`); `ref` is `qrScannerRef`, a scanner is named by the opening that
made it. Switching between cameras is left out. `Notices` counts the delayed `onClose`
calls that nothing cancels (`hides`) and lets any render re-arm the effect.

### SdkLease and WebhookDelivery

A call of `withUser` goes through `row`, `key` (a turnkey row without identity key:
fetched and stored, lazily, by any number of calls at once), `build`, `listen`, `op` and
`disconnect`; each may throw, and only past `listen` the finally block runs. A cancelled
coroutine throws at the await it is suspended in, so the throws stand for cancellations
too, of a request's coroutine as of the optimization under its timer (`Optimizer.kt`
79-83, 107-111). A call that throws in `listen` is outside the try block and ends without
`disconnect`; whatever happens in `disconnect` is swallowed by the catch around it, and
the result of the operation stands. Whether an instance is still connected after its call
has no effect on anything in the model, and is not recorded.

`WebhookDelivery` composes the route and the optimization as callers. The provider
delivers any event at any time and again (`Deliver`); the sync reads what has happened
by one moment and stores it at a later one, and may throw after it stored. That of
two syncs the newer stands is the SDK's and external. The answer may be lost, and a
handler may be cancelled in the mutex of `enqueue` after a sync that went well
(`CancelEnqueue`). The optimize queue is one slot here; that this slot does what
`OptimizeSlots` lets a user's slot do, and no more, is a theorem
(`WebhooksImplementQueue`). `Restart` ends all calls and requests and empties the slot;
what the wallet stored, and what the provider knows, stays.

## 3. The runs

| Run | Question | Bounds | Result |
|---|---|---|---|
| `optimize_queue` | dedup, claims, permits, refinement of `OptimizeSlots`, progress | 3 users, 2 callers, 3 jobs, 1 permit | holds |
| `seed_send` | quotes and payments | 2 users, 2 ids, 2 requests, either signer, one intent with an Idempotency-Key and one without, TTL 1, time to 2 | holds |
| `event_stream` | order, newest event, end of overflow | bus 2, outbox 1, wire 1, 5 events | holds |
| `event_stream_gap` | is a quiet page up to date? | bus 2, outbox 2, 2 events, no failures | violated: finding 1 |
| `accounts` | provisioning, scope, credentials, signer | 2 sign-ups, 1 login, 1 browser | holds |
| `accounts_insert_fails` | is every failed sign-up a 502? | 1 sign-up | violated: finding 2 |
| `send_dialog` | refinement of `IdealSend`, passkey on every payment, what is submitted, only bodies stall | 2 opens, 2 legs, 2 requests | holds |
| `send_dialog_reviewed` | is what is submitted what was reviewed? | 1 open, 2 legs, 2 requests | violated: finding 3 |
| `send_dialog_stalled` | do all waits of a send end? | 1 open, 1 leg, 1 request | violated: finding 5 |
| `browser_session` | sessions, keypairs | 2 wallets and a foreign one, 2 sends, 1 logout, 2 keypairs, symmetry | holds |
| `browser_session_mismatch` | does a 409 drop only its own credentials? | 1 wallet and a foreign one, 1 keypair | violated: finding 4 |
| `parts` | list, dialogs, camera, notices, webhooks | pages of 2, 4 payments, 2 refetches; 2 deposits, 2 claims; 3 openings of the scanner; 2 payments, 4 renders, 2 toasts; 1 delivery at once, the optimization, 3 events | holds |

Why the bounds are enough. In the queue, the interesting cases are two callers for
one user, users parked behind a running one, and a finished job that still has its permit
while its user is accepted again. Two callers and three jobs have them all; with one permit
two jobs can be parked at once, so the order of the semaphore's line matters, and more
permits are covered by the theorems. In the send, two ids and two requests give the
double take, the stranger's take, the retry after a failure, and a sweep that started
before an entry was put; one tick beyond TTL reaches both sides of the boundary. Two
payments for one intent are the bound `MaxPaid`; a third adds nothing new. In the
stream, five events against three places in queues overflow the bus and the outbox in
either order. In the accounts, the second sign-up is the one the same browser makes
while the server is still busy with the first. `Job`, `Fetch`, `PrepareId`, `SignUp`
and `Login` bound how many may exist; `MaxNow`, `MaxVer`, `MaxPaid` bound counters. In the send dialog, two mounts are a send
and its retry, and two legs a swap and the send after it; the third and later legs repeat
the second. Two requests let the text of the dialog, before Send or after it, differ from the
reviewed request. In the browser, two keypairs let one flow replace what another relies on; one
logout at a time is enough for every interleaving with the sends and the sign-up. Pages
of two and up to four payments have a full last page and a short one, and two refetches have
one under a load-more and one that overlaps another. Three openings of the scanner let a lost scanner push a
good one out of the ref. One delivery at once, with three events, has redelivery, a restart in
between and the optimization beside it; that deliveries overlap is covered by the theorems,
which hold for any number. The runs of the server never stop (a restart, a break or a request is
always possible); in the runs of the client `Opens`, `Keys`, `Openings`, `Renders` and `Toast` bound how
often things happen and a behaviour may come to rest, so deadlock is not checked there.

`parts` checks five modules in one run: `focus`, chosen in `Init`, is the one that
moves, and the other four rest in an initial state. They share no variable, so each
behaviour of each module alone is a behaviour of the run.

### Fairness

* `OptimizeQueue`: coroutines on `Dispatchers.IO` that can run do run, and the timer of
  `withTimeout` fires. `Return` has no fairness: the upstream call may hang, and
  `NobodyStuck` rests on the timeout alone.
* `SeedSend`: only the sweeper. Nothing on the server bounds `sendPayment` or
  `publishSignedTransferPackage`.
* `EventStream`: the session's coroutines and the browser run, and Ktor's ping timeout
  (`Main.kt` 89-92) ends a session whose page stopped reading. `Receive` and `Open`
  are strongly fair, and refetches weakly fair, only because in the model `Open` and
  `Receive` wait for one of the bounded `Fetch` identities, which in the code they do not.
* `Accounts`: the handler polls, HTTP calls to Turnkey time out (30 s) and the polling
  has a deadline (60 s). Turnkey and the SDK owe nothing.
* `SendDialog`: the browser's timers fire: the 45 s of `call()` until the headers are
  there, and the 60 s of `awaitPayment`. Neither Turnkey, the user, the server nor the event
  stream owes anything, and no body has to arrive: `OnlyBodiesStall` says that the waits for
  the server end or have reached the body of a response, and nothing of signing.
* `WalletPage`: the 45 s timer of a refetch, again until the headers; a refetch whose body
  stalls may keep the skeleton, which is what `SkeletonEndsUnlessStalled` leaves open.
  Load-more has no fairness. `Notices`: timers and animation frames run; the page comes to
  rest (`Renders`).
* `BrowserSession`, `Receiving`, `QrScan`, `SdkLease`, `WebhookDelivery`: none; only safety is
  checked. That the provider keeps delivering until it is answered is its affair.

### Findings

1. `event_stream_gap`. README.md 161-162 tells clients to refetch after every
   (re)connect "to reconcile, then trust the stream", and DESIGN.md 281-282 says the
   same. The page refetches when the socket opens, but the handler subscribes only
   after that, behind a database lookup, and the bus has no replay. An event in
   between is lost: the page shows the old balance until something else happens.
2. `accounts_insert_fails`. The comment at `Users.kt` 53-54 says that if any step fails
   the handler answers 502 and never persists the user. The INSERT is outside the try
   blocks: it gives 500, and if only its acknowledgement was lost, a row.
3. `send_dialog_reviewed`. After a swap `runClientSignedSend` prepares again from the text
   behind the review card (`SendDialog.tsx` 146-149). The input stays enabled while a prepare
   is in flight and a paste may land in any step, so that text may differ from what was
   reviewed; `api.ts` 143-145 says the destination is "shown at approval" for "the send leg
   and any preceding swap alike". `SubmitsReviewedOrTyped` holds and bounds the
   damage: without a swap the reviewed request is submitted, and a text that lands after
   Send never is.
4. `browser_session_mismatch`. A 409 that answers an earlier wallet's refetch clears the
   credentials stored by then, which may be those of a wallet signed up since
   (`page.tsx` 49-54, 71-78).

5. `send_dialog_stalled`. The comment at `api.ts` 22-25 says that the timeout "bounds the
   wait so a stalled upstream surfaces an error instead of an indefinite spinner". The timer
   is cleared when `fetch` resolves, which is when the headers arrive (50-52), and the body is
   read afterwards (56): one that stalls keeps the send dialog on its processing step for ever.
   `OnlyBodiesStall` shows that this is the only way.

Not findings, but worth knowing. `CameraOffUnlessLost` names the one way the camera can be
left on: a dialog closed while it asks whether there is a camera (`useQrScanner.ts`
65-92). `NoGapUnlessRaced` names the one way the list can have gaps: a refetch that lands
under a load-more (`page.tsx` 66-69, 147-153). Neither contradicts a statement of the
repository; both properties show that there is no other way.

Two more are seen in the models and have no property. The headline "Payment Failed" is over a
payment that is still pending, and over any error, the abort of a request included that the
server then serves (`SendDialog.tsx` 87-89, 177-187); only the message below it tells the
cases apart, and an error's does not say whether money moved. An SDK instance stays connected
when its call is cancelled, or fails, in `addEventListener` before the try block (`Sdk.kt` 157),
and when `disconnect` itself fails or is cancelled, although DESIGN.md 96 says "Always
disconnect".

## 4. The proofs

What is assumed: the named `ASSUME`s on constants, which the runs evaluate, and
nothing else.

**The queue.** `TypeOK` is inductive. `ClaimsAreHeld` and `OneJobPerUser` are inductive
only together, since a delivery is unique because the claim was, and the claim was
because `inflight` is exactly what is held. `PermitsConserved` needs the line of
waiters in it: handing a permit to a waiter that is not waiting would lose it.
`QueueInvariant` is their conjunction, and the three properties follow.
`QueueImplementsSlots` maps a user's slot to idle, queued or running from `inflight`
and the jobs; a start needs fewer than `Concurrency` running users, which is where
the counting of permits enters (users running are no more than jobs holding).
`RunsAreCapped` is that count, and `QueueNeverStalls` is the absence of deadlock that no run
can see, since `Restart` is always enabled there: a claimed user has a caller, a channel
entry or a job that can step, and if its job is parked, the permits are all held by jobs
that can (which needs at least one job to exist).

**The send.** `SendInvariant` ties cache, `issued` and `attempts`: an entry in the cache
is the one its id was issued with and has never been attempted, and while a sweep is
under way its cutoff is no later than `now - TTL`. `OneAttempt` and `QuotesAreHonoured`
follow. `PaysOnce` adds that a payment for a keyed intent exists only if its key is
known to the SDK; it is stated where the server signs, since `publish` has no key.

**The accounts.** None of the four properties is inductive: a row is complete because of
what the request had behind it when it reached the INSERT. The invariant follows each
party on its own. `OrgFollows` says that a sub-organization is a function of the latest
activity submitted for it and of whether that has run, whatever became of the request,
which is why an activity that completes late is harmless. `ReqFollows` says that a
request at a step has the step before it completed, and that one past provisioning runs
under the mode it provisioned for, which is why a restart with the other `SIGNER`, which
cuts all requests off, cannot mix backends. `RowFollows`, `LoginFollows` and
`CredsFollow` carry that to rows, logins and browsers; a key is traced to the one
sign-up or login that minted it (`Owner`). The same invariant gives what finding 2 leaves of
the comment it contradicts: `NobodyHalfPersisted` (a sign-up answered 502 or 400 has no row)
and `RowIsForGood` (a row is never removed or provisioned again, and its key is replaced
only by a login verified for its wallet), so that no row appears later either.

**Quotes.** `PaymentsWereQuoted` needs more than the cache: a request that is with the SDK
carries the quote its own user was issued, and the payments of an intent are no more than
the quotes for it that requests have spent and are done with. The latter counts ids, so it
is stated for finitely many of them. `SendImplementsQuotes` needs no count: each step of
prepare, send, publish, the sweeper and the restart is shown to be one step of `IdealQuotes`
or none. Taking one's own entry is `Use`, taking another's is `Lose`, `SdkPays` is `Pay` (the
quote leaves `Sending` in that very step, and no other request is with the SDK for it), a
deduplicated answer, an error, a swap, an expiry and a restart are `Lose`. That a quote is
mapped well rests on `SendInvariant`: an entry in the cache has never been attempted. It
relates each payment to the step that makes it, whichever side signs. It is proved and not
a property of a run, though TLC finds it to hold within the bounds of `seed_send` too.

**The event stream.** `FramesInOrder` speaks of wire, outbox and buffer at once, and each
step moves an event from one to the next, so the invariant has each queue increasing, each
before the next, and all above what the page has seen and what the subscription started
from. `NewestIsNotLost` says where the newest event is: in a queue, or with the page,
unless the outbox gave up. It is inductive because the bus drops the oldest and never the
newest, and the outbox drops nothing.

**The send dialog.** `SendInvariant` has three parts per mount. `RunSafe`: the locals of
`doSend`, in particular which request a package is for. `PaidSafe`: what it may conclude at
each await, such as that no leg has paid while it signs or prepares again, and that the
leg it waits for has. `InboxSafe`: at most one request of a mount is with the server, and
as long as one is, no leg has paid. An aborted request may pay after the dialog told an
error, which is why the last part speaks of requests nobody listens to. The tap on
every payment follows from the tap on every package in the inbox.
`DialogImplementsIdeal` is the refinement for every number of mounts, legs and requests:
a press of Send is `Approve`, an end of `doSend` (`Throw`, or `Report` of a status) is `Tell`, a payment is `Pay`, and all other
steps are stutters; `MoneyOf` is a status because a mount has at most one paid leg. It says of
the result step what `IdealSend` does: the headline of success and the messages of failed and
pending payments are true, the headline of failure promises nothing.

**The browser's session.** `EnsuredKeyKnown` needs that a keypair, once registered, keeps its
owner. `KeysSafe` gives that: a keypair about to be registered is unused, and only one flow
holds it. `SendSafe` carries what the stored keypair was from `ensureSession` to the last
poll, unless the send is marked disturbed; `RefusalsExplained` is its last line.
`KeyHasOneWallet` states the first sentence as an action property. `StoredSessionHolds` uses
it: the stored session names the organization its keypair is registered with. The code
believes a session for the organization, keypair and expiry in it, while `Reusable` in the
model asks Turnkey (`Authorized`); the theorem shows that this is the same thing.

**Webhooks and calls.** `RequestFollows` says that a sync reads no earlier than its event
was delivered, and that once it ended well the event is stored; `AckedIsSynced` follows,
also across a restart, which forgets the requests and not the storage. A cancellation is a
throw or `CancelEnqueue`, and neither acknowledges. `RunHoldsSlot` (the slot says running exactly while the optimization is in `withUser`) is
what the refinement `WebhooksImplementQueue` needs besides.

**The parts.** `MCParts` has one theorem per property of its run, from `PartsInvariant`, the
conjunction of an invariant per part; since the parts share no variable, a step of one leaves
the others' invariants alone, and `EachByItself` states the results for the four client
specifications without the run that joins them. `PartsAssumption` is the only assumption: a
page has room for a payment, the bounds are numbers, and the null of `next_offset` is not
one.

*The list.* `NoGapUnlessRaced` needs to know where the list ends: where the next page starts
or later, and at the oldest payment if there is no next page (`EndsAt`). This has to be known
of the history now, and of the history at which a load-more on its way was asked; payments
that arrive in between only make pages overlap. `OffsetsStayInHistory` follows too: the offsets
the page sends are no larger than the history.

*The receive dialog and the deposits.* `OneAddressRequest` is inductive as it stands.
`OneClaimAwaited` is so once the sheet is known to offer a claim only for a deposit that there
is: a claim begins only while `busy` is not set, hence while none is awaited.

*The scanner.* Of the scanners that have the camera or are about to, each is destroyed,
lost, or the one in the ref of the open dialog; `CameraIsReleased` follows.

*The notices.* `NoInvisibleOverlay` is inductive: a transparent overlay has a frame pending or a
delayed `onClose` counted in `hides`, and renders re-arm the timer but cancel neither.

**Only model-checked.** Liveness (`NobodyStuck`, `ExpiredAreSwept`, `OverflowEnds`,
`ProvisioningEnds`, `OnlyBodiesStall`, `SkeletonEndsUnlessStalled`, `NoticesGo`): fairness and ENABLED are
out of the prover's reach and stay with TLC. Every safety property of a passing run is a
theorem. The five findings are violations that TLC shows; they have no proofs.

## 5. The plan

Done: the queue, the cache, the server-signed send, the event stream, the accounts, both
sides of the client-signed send, the send dialog and its refinement, the
browser's session, the SDK lease, the webhooks, and the stateful parts of the pages; proofs
of all their safety properties and of four refinements (`OptimizeSlots` twice,
`IdealQuotes`, `IdealSend`).

Left, in this order:

1. `WebhookDelivery` with the full `OptimizeQueue` in place of its slot, several users,
   and the liveness of redelivery under a provider that keeps trying.
2. The parsing and 32-bit arithmetic of `routes/Payments.kt`, as functions.

### Not modelled

Boot, configuration, health and logging have no state after start-up. The filters of the
payment list and the mapping to DTOs are plain conversions. Cryptography (stamps, JWTs, DER, webhook
signatures) is seen by what it decides. The inside of the SDK, of Turnkey, of the payment
provider and of the browser's libraries is external: only what the code relies on appears.
Of the presentation components, only those with timers are modelled.
