----------------------------- MODULE WalletPage -----------------------------
(* The wallet page's copy of the payment history: refetch and loadMore of      *)
(* app/page.tsx over the server's offset paging, and what TransactionList      *)
(* shows of it.  Refetches overlap freely, with each other and with a          *)
(* load-more.                                                                  *)
EXTENDS Naturals, Sequences, ClientApi

CONSTANTS
    PAGE,       \* payments per page
    History,    \* bound: payments of the wallet
    Refetch,    \* refetches that may be in flight at once
    NoOffset

VARIABLES
    history,    \* server: payments 1 .. history, listed from the newest
    payments,   \* the shown payments
    balance,    \* the shown balance, as the history it belongs to
    nextOffset, \* where the next page starts, or NoOffset
    isSyncing,
    refetch,    \* [Refetch -> the request it makes, or Idle]
    more,       \* the load-more in flight: a request with its offset, or NoMore
    raced       \* history: a refetch replaced the list under a load-more

vars == <<history, payments, balance, nextOffset, isSyncing, refetch, more, raced>>

\* A request: where call() waits, and the histories the answer may be of: those from
\* the request to the headers of the response.
Idle == [phase |-> "none", from |-> 0, to |-> 0]
Asked == [phase |-> "headers", from |-> history, to |-> history]
Answering(q) == [q EXCEPT !.phase = "body", !.to = history]
Reads(q) == q.from .. q.to

\* The load-more, which asks for the page at an offset too.
NoMore == [offset |-> NoOffset, request |-> Idle]

\* The first refetch of a page that has just been loaded.
FirstRefetch == {[r \in Refetch |-> IF r = first THEN Asked ELSE Idle] : first \in Refetch}

Init ==
    /\ history \in 0 .. History
    /\ payments = <<>>
    /\ balance = 0
    /\ nextOffset = NoOffset
    /\ isSyncing = TRUE
    /\ refetch \in FirstRefetch
    /\ more = NoMore
    /\ raced = FALSE

-----------------------------------------------------------------------------
(* The server.                                                                *)

\* listPayments of a history of v payments.
Page(v, offset) ==
    [i \in 1 .. (IF v < offset THEN 0 ELSE IF v - offset < PAGE THEN v - offset ELSE PAGE)
        |-> v + 1 - offset - i]

\* A full page hints that there may be more.
NextOffsetFault(v, offset) ==
    IF v >= offset + PAGE THEN offset + PAGE + 1 ELSE NoOffset

NextOffset(v, offset) ==
    IF v >= offset + PAGE THEN offset + PAGE ELSE NoOffset

\* A payment is made or comes in.
NewPayment ==
    /\ history < History
    /\ history' = history + 1
    /\ UNCHANGED <<payments, balance, nextOffset, isSyncing, refetch, more, raced>>

-----------------------------------------------------------------------------
(* The page.                                                                  *)

\* On mount, on every event and (re)connect of the stream, and when a dialog closes
\* or a send ends.
StartRefetch(r) ==
    /\ refetch[r] = Idle
    /\ refetch' = [refetch EXCEPT ![r] = Asked]
    /\ UNCHANGED <<history, payments, balance, nextOffset, isSyncing, more, raced>>

Ends(r) == refetch' = [refetch EXCEPT ![r] = Idle]

\* Balance, list and deposits are three requests of one refetch, which goes on when all
\* have been read.  Here the last of them gets its headers: no timer bounds it now.
RefetchHeaders(r) ==
    /\ refetch[r].phase = "headers"
    /\ refetch' = [refetch EXCEPT ![r] = Answering(refetch[r])]
    /\ UNCHANGED <<history, payments, balance, nextOffset, isSyncing, more, raced>>

\* Nothing says in which order refetches land.
RefetchLands(r) ==
    /\ refetch[r].phase = "body"
    /\ \E list \in Reads(refetch[r]), info \in Reads(refetch[r]) :
        /\ payments' = Page(list, 0)
        /\ nextOffset' = NextOffset(list, 0)
        /\ balance' = info
    /\ isSyncing' = FALSE
    /\ raced' = (more # NoMore)
    /\ Ends(r)
    /\ UNCHANGED <<history, more>>

\* The finally block: the spinner ends, whatever went wrong.
StillSyncingFault == isSyncing

StillSyncing == FALSE

\* An answer of nothing for the list throws when the balance has been set.
RefetchLandsInPart(r) ==
    /\ refetch[r].phase = "body"
    /\ balance' \in Reads(refetch[r])
    /\ isSyncing' = StillSyncing
    /\ Ends(r)
    /\ UNCHANGED <<history, payments, nextOffset, more, raced>>

\* Balance or list is an error, or the balance is nothing: the last known state is kept.
RefetchFails(r) ==
    /\ refetch[r] # Idle
    /\ isSyncing' = StillSyncing
    /\ Ends(r)
    /\ UNCHANGED <<history, payments, balance, nextOffset, more, raced>>

\* The button is there while there may be more, and disabled while it loads.
LoadMore ==
    /\ nextOffset # NoOffset
    /\ more = NoMore
    /\ more' = [offset |-> nextOffset, request |-> Asked]
    /\ UNCHANGED <<history, payments, balance, nextOffset, isSyncing, refetch, raced>>

MoreHeaders ==
    /\ more.request.phase = "headers"
    /\ more' = [more EXCEPT !.request = Answering(more.request)]
    /\ UNCHANGED <<history, payments, balance, nextOffset, isSyncing, refetch, raced>>

MoreLands ==
    /\ more.request.phase = "body"
    /\ \E list \in Reads(more.request) :
        /\ payments' = payments \o Page(list, more.offset)
        /\ nextOffset' = NextOffset(list, more.offset)
    /\ more' = NoMore
    /\ UNCHANGED <<history, balance, isSyncing, refetch, raced>>

\* An answer of nothing is used inside the updater of the list: the page breaks when it
\* renders, and the user loads it again.
MoreBreaks ==
    /\ more.request.phase = "body"
    /\ payments' = <<>>
    /\ balance' = 0
    /\ nextOffset' = NoOffset
    /\ isSyncing' = TRUE
    /\ refetch' \in FirstRefetch
    /\ more' = NoMore
    /\ raced' = FALSE
    /\ UNCHANGED history

MoreFails ==
    /\ more # NoMore
    /\ more' = NoMore
    /\ UNCHANGED <<history, payments, balance, nextOffset, isSyncing, refetch, raced>>

Next ==
    \/ NewPayment
    \/ \E r \in Refetch :
        \/ StartRefetch(r) \/ RefetchHeaders(r) \/ RefetchLands(r)
        \/ RefetchLandsInPart(r) \/ RefetchFails(r)
    \/ LoadMore \/ MoreHeaders \/ MoreLands \/ MoreBreaks \/ MoreFails

\* The 45 s of call(): a refetch gets the headers of its responses or fails.  The timer
\* is cleared then, and nothing bounds the bodies.
RefetchTimer(r) ==
    /\ refetch[r].phase = "headers"
    /\ RefetchHeaders(r) \/ RefetchFails(r)

Fairness == \A r \in Refetch : WF_vars(RefetchTimer(r))

Spec == Init /\ [][Next]_vars /\ Fairness

-----------------------------------------------------------------------------
\* TransactionList of a wallet without deposits: an empty list is a skeleton while
\* the first refetch runs.
View ==
    CASE payments # <<>> -> "list"
      [] payments = <<>> /\ isSyncing -> "skeleton"
      [] payments = <<>> /\ ~isSyncing -> "no payments yet"

HttpRequest == [phase : {"none"} \cup CallPhase, from : 0 .. History, to : 0 .. History]

TypeOK ==
    /\ history \in 0 .. History
    /\ payments \in Seq(1 .. History)
    /\ balance \in 0 .. History
    /\ nextOffset \in Nat \cup {NoOffset}
    /\ isSyncing \in BOOLEAN
    /\ refetch \in [Refetch -> HttpRequest]
    /\ more = NoMore \/ more \in [offset : Nat, request : HttpRequest]
    /\ raced \in BOOLEAN

\* Paging neither skips a payment nor ends early: neighbours in the list are
\* neighbours in the history (or repeat, when it grew between two pages), and
\* without a further page the list reaches the oldest payment.  The one way to lose
\* payments is a refetch that replaced the list while a load-more was on its way
\* (page.tsx 66-69 and 151-153).
NoGapUnlessRaced ==
    raced \/
        /\ \A i \in 2 .. Len(payments) : payments[i] >= payments[i - 1] - 1
        /\ nextOffset = NoOffset /\ payments # <<>> => payments[Len(payments)] = 1

\* The skeleton of the first visit gives way to a list or to "no payments yet", also
\* when the calls fail, unless a refetch has its headers and waits for the bodies
\* (page.tsx 58-82, api.ts 38-61).
Reading == \E r \in Refetch : refetch[r].phase = "body"

SkeletonEndsUnlessStalled ==
    View = "skeleton" /\ ~Reading ~> View # "skeleton" \/ Reading
=============================================================================
