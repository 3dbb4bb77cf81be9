---------------------------- MODULE SendDialog ----------------------------
(* Sending a payment from the wallet page: the send dialog and its steps      *)
(* (features/send/SendDialog.tsx), doSend with the client-signed swap loop,   *)
(* awaitPayment and the event handler of app/page.tsx, and the server's        *)
(* prepare, send and publish handlers as they look from the browser.           *)
(*                                                                             *)
(* The page gives the dialog a new key on each open, so every open is a mount  *)
(* with a state of its own.  Closing the sheet or opening the next one cancels *)
(* nothing: the doSend of an older mount goes on behind it.                    *)
EXTENDS Naturals, FiniteSets, ClientApi

CONSTANTS
    Request,    \* the payment requests the user may enter
    NoRequest,  \* the empty input
    Opens,      \* bound: how often the dialog is opened
    Legs,       \* rounds of the swap loop (10 in the code)
    NoPayment

\* The server's payment, with the stamp its package carried.
Stamp == {"passkey", "session", "none"}
Payment == [stamp : Stamp, status : Status]

ASSUME SendDialogAssumption ==
    /\ Opens \in Nat \ {0}
    /\ Legs \in Nat \ {0}
    /\ NoRequest \notin Request
    /\ NoPayment \notin Payment

Mount == 1 .. Opens
\* A prepare_id, named by the mount and the leg that sign it.  The payment a leg
\* makes carries the same name.
Id == Mount \X (1 .. Legs)
Input == Request \cup {NoRequest}
Kind == PackageKind \cup {"none"}
Prepare == PrepareOf(Input, Kind)

VARIABLES
    clientSigned,   \* prepared.kind && creds.turnkey_sub_org_id: the deployment's signer
    mounted,        \* sendSession: the mount the page shows, 0 before the first open
    isOpen,         \* isSendOpen
    dlg,            \* the state of the mount on the page
    run,            \* [Mount -> doSend of the mount]
    resolvers,      \* pendingResolvers of the page: the payments awaited by event
    inbox,          \* sends and publishes on their way to or in the server
    pays            \* [Id -> the payment the server made for it, or NoPayment]

ui == <<clientSigned, mounted, isOpen>>
server == <<inbox, pays>>
vars == <<clientSigned, mounted, isOpen, dlg, run, resolvers, inbox, pays>>

NoPrepare == [request |-> NoRequest, kind |-> "none"]

FreshDialog ==
    [step |-> "input", text |-> NoRequest, asked |-> NoRequest, prepared |-> NoPrepare]

\* The result step: its headline ("Payment Sent!" for success, else "Payment Failed")
\* and the message under it, here by what it says of the payment.
Message == {"sent", "failed", "pending", "error"}
Result(success, message) == [success |-> success, message |-> message]
NoResult == Result(FALSE, "none")

NoRun ==
    [pc |-> "idle", leg |-> 1, prep |-> NoPrepare, text |-> NoRequest,
     reviewed |-> NoRequest, phase |-> "headers", reply |-> "none", told |-> NoResult]

Init ==
    /\ clientSigned \in BOOLEAN
    /\ mounted = 0
    /\ isOpen = FALSE
    /\ dlg = FreshDialog
    /\ run = [m \in Mount |-> NoRun]
    /\ resolvers = {}
    /\ inbox = {}
    /\ pays = [i \in Id |-> NoPayment]

-----------------------------------------------------------------------------
(* The dialog.                                                                *)

\* The mount's controls can be used: it is on the page and its sheet is up.
OnScreen(m) == m = mounted /\ isOpen

\* The Send button of the page: a new key, so the state of the old mount is gone.
Open ==
    /\ ~isOpen
    /\ mounted < Opens
    /\ mounted' = mounted + 1
    /\ isOpen' = TRUE
    /\ dlg' = FreshDialog
    /\ UNCHANGED <<clientSigned, run, resolvers, inbox, pays>>

\* The sheet can be dismissed in every step, the processing one included.  It comes up
\* again with a new mount only, so the dialog's state is as good as gone.
Close ==
    /\ isOpen
    /\ isOpen' = FALSE
    /\ dlg' = FreshDialog
    /\ UNCHANGED <<clientSigned, mounted, run, resolvers, inbox, pays>>

\* Nobody sees what is set in the state of a mount that is gone or closed.
SetDialog(m, d) == dlg' = IF OnScreen(m) THEN d ELSE dlg

\* The step an input control belongs to: typing, Paste and Scan are offered in the
\* input step only, but are not disabled while a prepare is in flight.
AtInput(m) == OnScreen(m) /\ dlg.step = "input"

Type(m, r) ==
    /\ AtInput(m)
    /\ SetDialog(m, [dlg EXCEPT !.text = r])
    /\ UNCHANGED <<ui, run, resolvers, server>>

\* Paste and the scanner's gallery picker are asynchronous and can be pressed many
\* times in the input step: the texts they bring, never a blank one, land in whatever
\* step the dialog has reached by then.
PasteLands(m, r) ==
    /\ m = mounted
    /\ SetDialog(m, [dlg EXCEPT !.text = r])
    /\ UNCHANGED <<ui, run, resolvers, server>>

\* Continue is disabled while busy and while the input is blank.
CanContinue(m) == dlg.asked = NoRequest /\ dlg.text # NoRequest

\* doPrepare up to its await: the request is the text of this moment.
Continue(m) ==
    /\ AtInput(m)
    /\ CanContinue(m)
    /\ SetDialog(m, [dlg EXCEPT !.asked = dlg.text])
    /\ UNCHANGED <<ui, run, resolvers, server>>

\* The kinds of package the deployment's prepare handler can answer with.
Kinds == IF clientSigned THEN PackageKind ELSE {"none"}

\* doPrepare's rest: the review step, or an error line under the input.  An answer of
\* nothing leads to the review step too, with nothing to review.
PrepareEnds(m) ==
    /\ m = mounted
    /\ dlg.asked # NoRequest
    /\ \E e \in CallEnd, k \in Kinds :
        SetDialog(m,
            CASE e.seen = "answer" ->
                    [dlg EXCEPT !.asked = NoRequest, !.step = "review",
                                !.prepared = [request |-> dlg.asked, kind |-> k]]
              [] e.seen = "nothing" ->
                    [dlg EXCEPT !.asked = NoRequest, !.step = "review",
                                !.prepared = NoPrepare]
              [] e.seen = "error" -> [dlg EXCEPT !.asked = NoRequest])
    /\ UNCHANGED <<ui, run, resolvers, server>>

\* The review card, with Back and Send, is there for a prepare only.
AtReview(m) == OnScreen(m) /\ dlg.step = "review" /\ dlg.prepared # NoPrepare

\* What was prepared shows in this step only, and only a new prepare leads back to it.
Back(m) ==
    /\ AtReview(m)
    /\ SetDialog(m, [dlg EXCEPT !.step = "input", !.prepared = NoPrepare])
    /\ UNCHANGED <<ui, run, resolvers, server>>

-----------------------------------------------------------------------------
(* doSend.                                                                    *)

SetRun(m, r) == run' = [run EXCEPT ![m] = r]
Leg(m) == <<m, run[m].leg>>

\* The request of a leg to the server: a package is published with its stamp, a
\* server-signed prepare is sent as it is.
Submit(i, kind, stamp) ==
    inbox' = inbox \cup {[id |-> i, kind |-> kind, stamp |-> stamp]}

\* doSend ends and its locals go: the result step says what the last await came to.
Tell(m, result) ==
    /\ SetRun(m, [NoRun EXCEPT !.pc = "done", !.told = result])
    /\ SetDialog(m, [dlg EXCEPT !.step = "result"])

\* The catch block: every exception has the headline of a failed payment and its own
\* text for a message, the 45 s abort of a request the server may yet serve included.
Throw(m) == Tell(m, Result(FALSE, "error"))

\* Fault: all but a failed payment has the headline of a payment that was sent.
ReportFault(status) == Result(status # "failed", "pending")

\* The three messages of a status.  A payment that is still pending has the headline
\* of a failed one.
Report(status) ==
    CASE status = "completed" -> Result(TRUE, "sent")
      [] status = "failed" -> Result(FALSE, "failed")
      [] OTHER -> Result(FALSE, "pending")

\* Send on the review card, which then gives way.  The swap loop closes over the text
\* of this render; a server-signed send has no use for it.
PressSend(m) ==
    /\ AtReview(m)
    /\ LET started == [NoRun EXCEPT !.prep = dlg.prepared,
                                    !.reviewed = dlg.prepared.request]
       IN  IF clientSigned
           THEN /\ SetRun(m, [started EXCEPT !.pc = "ensure", !.text = dlg.text])
                /\ UNCHANGED inbox
           ELSE /\ SetRun(m, [started EXCEPT !.pc = "publish"])
                /\ Submit(<<m, 1>>, "none", "none")
    /\ SetDialog(m, [dlg EXCEPT !.step = "processing", !.prepared = NoPrepare])
    /\ UNCHANGED <<ui, resolvers, pays>>

\* ensureSession returns, or throws (the tap is declined, Turnkey fails).
EnsureSession(m) ==
    /\ run[m].pc = "ensure"
    /\ \/ SetRun(m, [run[m] EXCEPT !.pc = "sign"]) /\ UNCHANGED dlg
       \/ Throw(m)
    /\ UNCHANGED <<ui, resolvers, server>>

\* signSparkPrepareTransfer: the passkey stamps the send, the session a swap.
StamperFault(kind) == "session"

Stamper(kind) == IF kind = "transfer" THEN "passkey" ELSE "session"

Sign(m) ==
    /\ run[m].pc = "sign"
    /\ SetRun(m, [run[m] EXCEPT !.pc = "publish"])
    /\ Submit(Leg(m), run[m].prep.kind, Stamper(run[m].prep.kind))
    /\ UNCHANGED <<ui, dlg, resolvers, pays>>

\* The passkey prompt is declined, or submitting or polling the activity fails.
SignThrows(m) ==
    /\ run[m].pc = "sign"
    /\ Throw(m)
    /\ UNCHANGED <<ui, resolvers, server>>

\* The calls doSend awaits with the timer of call().
Calling(m) == run[m].pc \in {"publish", "reprepare", "asking"}
Reading(m) == Calling(m) /\ run[m].phase = "body"

\* fetch() resolves with the headers of the response, and the timer is cleared.
Headers(m) ==
    /\ Calling(m)
    /\ run[m].phase = "headers"
    /\ run[m].pc = "publish" => run[m].reply # "none"
    /\ SetRun(m, [run[m] EXCEPT !.phase = "body"])
    /\ UNCHANGED <<ui, dlg, resolvers, server>>

\* fetch() rejects: its 45 s are over or the connection breaks.  The server does not
\* stop.  For getPayment that counts as a timeout of the payment.
Abort(m) ==
    /\ Calling(m)
    /\ run[m].phase = "headers"
    /\ IF run[m].pc = "asking" THEN Tell(m, Report("pending")) ELSE Throw(m)
    /\ UNCHANGED <<ui, resolvers, server>>

\* Where an answer takes the loop: on to the next package after a swap, out of it
\* with an exception or with the payment's status for the rest.
NextStep(answer) ==
    CASE answer = "swap" -> "reprepare"
      [] answer = "error" -> "throw"
      [] OTHER -> "leave"

\* The answer of publishSend (or send) has been read.
Answer(m) ==
    /\ run[m].pc = "publish"
    /\ Reading(m)
    /\ LET answer == run[m].reply
           goes == NextStep(answer)
       IN  \/ /\ goes = "throw"
              /\ Throw(m)
              /\ UNCHANGED resolvers
           \/ /\ goes = "reprepare"
              /\ SetRun(m, [run[m] EXCEPT !.pc = "reprepare", !.phase = "headers",
                                          !.reply = "none"])
              /\ UNCHANGED <<dlg, resolvers>>
           \/ /\ goes = "leave" /\ answer \in Terminal
              /\ Tell(m, Report(answer))
              /\ UNCHANGED resolvers
           \/ /\ goes = "leave" /\ answer \notin Terminal
              /\ SetRun(m, [NoRun EXCEPT !.pc = "waiting", !.leg = run[m].leg])
              /\ resolvers' = resolvers \cup {Leg(m)}
              /\ UNCHANGED dlg
    /\ UNCHANGED <<ui, server>>

\* After a swap: prepare again what the dialog's text was when Send was pressed.
\* Fault: what it is now.
RePreparedFault(m, kind) ==
    [request |-> IF m = mounted THEN dlg.text ELSE run[m].text, kind |-> kind]

RePrepared(m, kind) == [request |-> run[m].text, kind |-> kind]

\* The bound of the swap loop.
RoundsLeftFault(m) == run[m].leg <= Legs

RoundsLeft(m) == run[m].leg < Legs

\* The re-prepare of the last round is answered too before the loop gives up, and an
\* answer of nothing makes the next round throw.
RePrepareEnds(m) ==
    /\ run[m].pc = "reprepare"
    /\ Reading(m)
    /\ \E e \in CallEnd, k \in Kinds :
        IF e.seen = "answer" /\ RoundsLeft(m) /\ run[m].text # NoRequest
        THEN /\ SetRun(m, [run[m] EXCEPT !.pc = "sign", !.phase = "headers", !.leg = @ + 1,
                                         !.prep = RePrepared(m, k)])
             /\ UNCHANGED dlg
        ELSE Throw(m)
    /\ UNCHANGED <<ui, resolvers, server>>

-----------------------------------------------------------------------------
(* awaitPayment and the page's event handler.                                 *)

\* A payment_succeeded or payment_failed event.  Delivery is best effort: an event
\* may come before its resolver is registered, more than once, or never.
Event(m) ==
    /\ Leg(m) \in resolvers
    /\ pays[Leg(m)] # NoPayment
    /\ pays[Leg(m)].status \in Terminal
    /\ resolvers' = resolvers \ {Leg(m)}
    /\ Tell(m, Report(pays[Leg(m)].status))
    /\ UNCHANGED <<ui, server>>

\* The 60 s timer.
AwaitTimerFault(m) ==
    /\ OnScreen(m)
    /\ run[m].pc = "waiting"
    /\ resolvers' = resolvers \ {Leg(m)}
    /\ SetRun(m, [run[m] EXCEPT !.pc = "asking"])
    /\ UNCHANGED <<ui, dlg, server>>

AwaitTimer(m) ==
    /\ run[m].pc = "waiting"
    /\ resolvers' = resolvers \ {Leg(m)}
    /\ SetRun(m, [run[m] EXCEPT !.pc = "asking"])
    /\ UNCHANGED <<ui, dlg, server>>

\* getPayment has been read; an error or nothing counts as a timeout, which is told
\* as pending.
GetPaymentEnds(m) ==
    /\ run[m].pc = "asking"
    /\ Reading(m)
    /\ \E e \in CallEnd :
        Tell(m, IF e.seen = "answer" /\ pays[Leg(m)] # NoPayment
                THEN Report(pays[Leg(m)].status) ELSE Report("pending"))
    /\ UNCHANGED <<ui, resolvers, server>>

-----------------------------------------------------------------------------
(* The server.                                                                *)

\* What the handler can do with a submitted prepare: refuse it (the cache no longer
\* holds it, the SDK fails before it acted), settle a swap for a swap package, and
\* make the payment for the rest.
Effects(q) ==
    {"refused"} \cup (IF q.kind = "swap" THEN {"swap"} ELSE Status)

\* The handler acts, and its answer sets out; it may throw after the effect, or its
\* body may break off: then the answer is nothing, and using it throws (a TypeError).
\* Nobody may be listening any more.
Serve(q) ==
    /\ inbox' = inbox \ {q}
    /\ \E effect \in Effects(q), e \in CallEnd :
        /\ e.served = (effect # "refused")
        /\ pays' = IF effect \in Status
                   THEN [pays EXCEPT ![q.id] = [stamp |-> q.stamp, status |-> effect]]
                   ELSE pays
        /\ run' = [m \in Mount |->
                      IF run[m].pc = "publish" /\ Leg(m) = q.id
                      THEN [run[m] EXCEPT !.reply = IF e.seen = "answer" THEN effect ELSE "error"]
                      ELSE run[m]]
    /\ UNCHANGED <<ui, dlg, resolvers>>

\* The network settles a pending payment.
Settle(i) ==
    /\ pays[i] # NoPayment
    /\ pays[i].status = "pending"
    /\ \E s \in Terminal : pays' = [pays EXCEPT ![i].status = s]
    /\ UNCHANGED <<ui, dlg, run, resolvers, inbox>>

-----------------------------------------------------------------------------
UserStep(m) ==
    \/ \E r \in Input : Type(m, r)
    \/ \E r \in Request : PasteLands(m, r)
    \/ Continue(m) \/ Back(m) \/ PressSend(m)

SendStep(m) ==
    \/ PrepareEnds(m) \/ EnsureSession(m) \/ Sign(m) \/ SignThrows(m) \/ Headers(m)
    \/ Abort(m) \/ Answer(m) \/ RePrepareEnds(m) \/ Event(m) \/ AwaitTimer(m) \/ GetPaymentEnds(m)

ServerStep ==
    \/ \E q \in inbox : Serve(q)
    \/ \E i \in Id : Settle(i)

Next ==
    \/ Open \/ Close
    \/ \E m \in Mount : UserStep(m) \/ SendStep(m)
    \/ ServerStep

Spec == Init /\ [][Next]_vars

\* The browser runs its timers: the 45 s of call(), until the headers are there, and
\* the 60 s of awaitPayment.  Reading a body, Turnkey's calls and the passkey prompt
\* have no timer of the client's, and neither server, network nor event stream owes
\* anything.
Fairness ==
    \A m \in Mount :
        /\ WF_vars(Headers(m) \/ Abort(m))
        /\ WF_vars(AwaitTimer(m))

FairSpec == Spec /\ Fairness

-----------------------------------------------------------------------------
Steps == {"input", "review", "processing", "result"}
RunPc == {"idle", "ensure", "sign", "publish", "reprepare", "waiting", "asking", "done"}
Told == [success : BOOLEAN, message : Message \cup {"none"}]

TypeOK ==
    /\ clientSigned \in BOOLEAN
    /\ mounted \in 0 .. Opens
    /\ isOpen \in BOOLEAN
    /\ dlg \in [step : Steps, text : Input, asked : Input, prepared : Prepare]
    /\ run \in [Mount -> [pc : RunPc, leg : 1 .. Legs, prep : Prepare, text : Input,
                          reviewed : Input, phase : CallPhase,
                          reply : {"none", "error"} \cup PublishAnswer, told : Told]]
    /\ resolvers \subseteq Id
    /\ inbox \subseteq [id : Id, kind : Kind, stamp : Stamp]
    /\ pays \in [Id -> Payment \cup {NoPayment}]

\* The payments a mount's approval led to.
PaidLegs(m) == {l \in 1 .. Legs : pays[<<m, l>>] # NoPayment}

MoneyOf(m) ==
    LET paid == PaidLegs(m)
    IN  CASE paid = {} -> "none"
          [] Cardinality(paid) = 1 -> pays[<<m, CHOOSE l \in paid : TRUE>>].status
          [] OTHER -> "paid twice"

Ideal == INSTANCE IdealSend WITH
    approved <- [m \in Mount |-> run[m].pc # "idle"],
    money <- [m \in Mount |-> MoneyOf(m)],
    told <- [m \in Mount |-> run[m].told]

\* Pressing Send once pays at most once, whatever is lost, expires, is aborted or
\* goes through rounds of swaps, with the dialog closed and opened again in
\* between.  The headline "Payment Sent!" is over a completed payment only, the message
\* that it failed over a failed one only, and the message that it is still pending
\* names a payment that was made.  The headline "Payment Failed" says nothing of the
\* money: it is also over pending payments, and over aborted sends that go through
\* (SendDialog.tsx 87-89 and 132-188, page.tsx 97-145).
ImplementsIdeal == Ideal!Spec

\* The send itself always gets a passkey tap of its own (comment at SendDialog.tsx
\* 126-131): in a client-signed deployment every payment is of a leg the passkey
\* stamped, never of one the silent session stamped.
EveryPaymentTapped ==
    clientSigned => \A i \in Id : pays[i] # NoPayment => pays[i].stamp = "passkey"

\* What doSend submits is the reviewed request, unless a swap came first and the
\* text under the review card was no longer the reviewed one when Send was pressed
\* (Back, Paste and Scan are not disabled); a text that lands after Send is never
\* submitted.
Submitted(m) == run[m].pc = "publish"

SubmitsReviewedOrTyped ==
    \A m \in Mount : Submitted(m) =>
        \/ run[m].prep.request = run[m].reviewed
        \/ run[m].leg > 1 /\ run[m].prep.request = run[m].text

\* README.md and DESIGN.md ("prepare -> review -> confirm"): what is submitted is what
\* the review card showed.
SubmitsReviewed ==
    \A m \in Mount : Submitted(m) => run[m].prep.request = run[m].reviewed

\* doSend waits for the server or for the payment's outcome, and has come out of it.
Waiting(m) == Calling(m) \/ run[m].pc = "waiting"
OutOfWait(m) == run[m].pc \in {"sign", "done"}

\* Once doSend waits for a response or for the payment's outcome, it gets out of that
\* wait or at least has the headers of a response: no unanswered request, lost event
\* or event that came too early leaves the dialog on its processing step, only a body
\* that stalls after its headers can (SendDialog.tsx 141-160, page.tsx 123-145, api.ts
\* 38-61).
OnlyBodiesStall ==
    \A m \in Mount : Waiting(m) /\ ~Reading(m) ~> OutOfWait(m) \/ Reading(m)

\* The comment at api.ts 22-25: the timeout "bounds the wait so a stalled upstream
\* surfaces an error instead of an indefinite spinner".
WaitsEnd == \A m \in Mount : Waiting(m) ~> OutOfWait(m)
=============================================================================
