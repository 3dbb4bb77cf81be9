----------------------------- MODULE EventStream -----------------------------
(***************************************************************************)
(* The push path of one user: SDK events go through the bus (EventBus.kt)  *)
(* to the pump, the outbox and the sender of a WebSocket session           *)
(* (routes/Events.kt), over the wire to the page (client/lib/events.ts),   *)
(* which refetches by REST on every event and on every (re)connect         *)
(* (client/app/page.tsx).                                                  *)
(*                                                                         *)
(* An event is the version of the wallet it announces: ver counts the      *)
(* events published so far, so "the page is up to date" is view = ver.     *)
(* A session that lost its network lives on in the server until its next   *)
(* send fails; it can reach no page any more and is dropped here at once.  *)
(*                                                                         *)
(* An operator named ...Fault is a plausible bug in the definition that    *)
(* follows it; no action uses it.                                          *)
(***************************************************************************)
EXTENDS Naturals, Sequences, Functions

CONSTANTS
    BusCap,        \* extraBufferCapacity of the flow (64 in the code)
    OutboxCap,     \* capacity of the outbox (64 in the code)
    WireCap,       \* frames the socket takes before send suspends
    MaxVer,        \* bound on the events
    Fetch,         \* identities of refetches: the bound on concurrent ones
    FetchMayFail   \* whether REST calls may fail

ASSUME CapAssumption == /\ BusCap \in Nat \ {0} /\ OutboxCap \in Nat \ {0}
                        /\ WireCap \in Nat \ {0}
ASSUME MaxVerAssumption == MaxVer \in Nat
ASSUME FetchMayFailAssumption == FetchMayFail \in BOOLEAN

VARIABLES
    ver,           \* version of the wallet on the server
    session,       \* the server's side of the connection
    since,         \* history: ver when the session's pump subscribed
    buf,           \* the flow's buffer, as the session's pump sees it
    outbox,        \* events waiting for the sender
    wire,          \* frames on their way to the page
    socket,        \* the page's side of the connection
    reading,       \* whether the page's end takes frames off the wire
    last,          \* history: the last frame the page got on this connection
    fetch,         \* the page's refetches under way
    view           \* the version the page shows

server == <<ver, session, since, buf, outbox>>
page == <<socket, reading, last>>
rest == <<fetch, view>>
vars == <<server, wire, page, rest>>

NoFetch == [pc |-> "none", snap |-> 0]

TypeOK ==
    /\ ver \in 0..MaxVer /\ since \in 0..MaxVer /\ last \in 0..MaxVer /\ view \in 0..MaxVer
    /\ session \in {"none", "accepted", "pumping", "overflowed", "closed"}
    /\ buf \in Seq(1..MaxVer) /\ Len(buf) <= BusCap
    /\ outbox \in Seq(1..MaxVer) /\ Len(outbox) <= OutboxCap
    /\ wire \in Seq(1..MaxVer) /\ Len(wire) <= WireCap
    /\ socket \in {"closed", "connecting", "open"}
    /\ reading \in BOOLEAN
    /\ fetch \in [Fetch -> [pc : {"none", "asked", "answered"}, snap : 0..MaxVer]]

\* The page has just been loaded, and its first refetch asked for (page.tsx 94).
Init ==
    /\ ver = 0 /\ view = 0 /\ since = 0 /\ last = 0
    /\ session = "none" /\ socket = "closed" /\ reading = TRUE
    /\ buf = <<>> /\ outbox = <<>> /\ wire = <<>>
    /\ \E f \in Fetch : fetch = [g \in Fetch |-> IF g = f THEN [NoFetch EXCEPT !.pc = "asked"]
                                                 ELSE NoFetch]

-----------------------------------------------------------------------------
(* The page's refetches: info, payments and deposits as one read *)

StartFetch(f) ==
    /\ fetch[f].pc = "none"
    /\ fetch' = [fetch EXCEPT ![f] = [pc |-> "asked", snap |-> 0]]

\* The server reads the wallet for this refetch.
ServeFetch(f) ==
    /\ fetch[f].pc = "asked"
    /\ fetch' = [fetch EXCEPT ![f] = [pc |-> "answered", snap |-> ver]]
    /\ UNCHANGED <<server, wire, page, view>>

\* The answer arrives.  Refetches are not numbered: the last to arrive wins.
ShowFetch(f) ==
    /\ fetch[f].pc = "answered"
    /\ view' = fetch[f].snap
    /\ fetch' = [fetch EXCEPT ![f] = NoFetch]
    /\ UNCHANGED <<server, wire, page>>

\* Any of the calls failed: the page keeps the state it has.
FailFetch(f) ==
    /\ FetchMayFail
    /\ fetch[f].pc \in {"asked", "answered"}
    /\ fetch' = [fetch EXCEPT ![f] = NoFetch]
    /\ UNCHANGED <<server, wire, page, view>>

-----------------------------------------------------------------------------
(* The connection *)

\* The server answers the upgrade; the handler starts with its checks.
Connect ==
    /\ socket = "closed" /\ session = "none"
    /\ socket' = "connecting"
    /\ session' = "accepted"
    /\ UNCHANGED <<ver, since, buf, outbox, wire, reading, last, rest>>

\* onopen: reconcile by REST.
Open(f) ==
    /\ socket = "connecting"
    /\ socket' = "open"
    /\ StartFetch(f)
    /\ UNCHANGED <<server, wire, reading, last, view>>

\* The handler has looked the key up and its pump collects from the flow: from now
\* on events are buffered for it.  The flow replays nothing.
Subscribe ==
    /\ session = "accepted"
    /\ session' = "pumping"
    /\ since' = ver
    /\ UNCHANGED <<ver, buf, outbox, wire, page, rest>>

\* The key is not the user's any more (a login replaced it): close with 1008.
Reject ==
    /\ session = "accepted"
    /\ session' = "closed"
    /\ UNCHANGED <<ver, since, buf, outbox, wire, page, rest>>

\* The network breaks, or a ping goes unanswered and Ktor gives the session up.
Break ==
    /\ session' = "none" /\ socket' = "closed" /\ reading' = TRUE
    /\ since' = 0 /\ last' = 0
    /\ buf' = <<>> /\ outbox' = <<>> /\ wire' = <<>>
    /\ UNCHANGED <<ver, rest>>

NetworkBreaks == socket # "closed" /\ Break

\* Fault: a session that has overflowed no longer answers to its pings.
PingTimeoutFault == socket # "closed" /\ ~reading /\ session # "overflowed" /\ Break

PingTimeout == socket # "closed" /\ ~reading /\ Break

\* The page's end stops taking frames off the wire, for good: a pause that ends is a
\* Receive that comes late.
Stall ==
    /\ socket = "open" /\ reading
    /\ reading' = FALSE
    /\ UNCHANGED <<server, wire, socket, last, rest>>

-----------------------------------------------------------------------------
(* Events on their way *)

\* Fault: the newest event is the one that does not fit.
BufferedFault(b, e) == IF Len(b) = BusCap THEN b ELSE Append(b, e)

\* BufferOverflow.DROP_OLDEST.
Buffered(b, e) == IF Len(b) = BusCap THEN Append(Tail(b), e) ELSE Append(b, e)

\* An SDK instance of the user emits an event of the relayed set.  Without a
\* subscriber the flow forgets it.
Publish ==
    /\ ver < MaxVer
    /\ ver' = ver + 1
    /\ buf' = IF session = "pumping" THEN Buffered(buf, ver') ELSE buf
    /\ UNCHANGED <<session, since, outbox, wire, page, rest>>

\* Fault: the event stays at the head of the buffer.
PumpFault ==
    /\ session = "pumping" /\ buf # <<>> /\ Len(outbox) < OutboxCap
    /\ outbox' = Append(outbox, Head(buf))
    /\ UNCHANGED <<ver, session, since, buf, wire, page, rest>>

Pump ==
    /\ session = "pumping" /\ buf # <<>> /\ Len(outbox) < OutboxCap
    /\ outbox' = Append(outbox, Head(buf))
    /\ buf' = Tail(buf)
    /\ UNCHANGED <<ver, session, since, wire, page, rest>>

\* Fault: an event that finds the outbox full is skipped.
OverflowFault ==
    /\ session = "pumping" /\ buf # <<>> /\ Len(outbox) = OutboxCap
    /\ buf' = Tail(buf)
    /\ UNCHANGED <<ver, session, since, outbox, wire, page, rest>>

\* trySend failed: the outbox is closed, what is in it can still be sent, and the
\* pump and its subscription are gone.
Overflow ==
    /\ session = "pumping" /\ buf # <<>> /\ Len(outbox) = OutboxCap
    /\ session' = "overflowed"
    /\ buf' = <<>>
    /\ UNCHANGED <<ver, since, outbox, wire, page, rest>>

\* Fault: nothing holds the sender back.
SendFault ==
    /\ session \in {"pumping", "overflowed"}
    /\ outbox # <<>>
    /\ wire' = Append(wire, Head(outbox))
    /\ outbox' = Tail(outbox)
    /\ UNCHANGED <<ver, session, since, buf, page, rest>>

\* The sender's send suspends while the socket takes no more.
Send ==
    /\ session \in {"pumping", "overflowed"}
    /\ outbox # <<>> /\ Len(wire) < WireCap
    /\ wire' = Append(wire, Head(outbox))
    /\ outbox' = Tail(outbox)
    /\ UNCHANGED <<ver, session, since, buf, page, rest>>

\* The sender's loop ended on the closed, empty outbox: close with 1008.
CloseOverflowed ==
    /\ session = "overflowed" /\ outbox = <<>>
    /\ session' = "closed"
    /\ UNCHANGED <<ver, since, buf, outbox, wire, page, rest>>

\* onmessage: hand the event to the page, which refetches.
Receive(f) ==
    /\ socket = "open" /\ reading /\ wire # <<>>
    /\ last' = Head(wire)
    /\ wire' = Tail(wire)
    /\ StartFetch(f)
    /\ UNCHANGED <<server, socket, reading, view>>

\* onclose, after the frames before it: a timer will reconnect.
SeeClose ==
    /\ session = "closed" /\ wire = <<>> /\ socket = "open" /\ reading
    /\ Break

-----------------------------------------------------------------------------
\* onClose, onSent and onClaimed of the dialogs (page.tsx 169-171 and 242-273).
Refresh(f) == StartFetch(f) /\ UNCHANGED <<server, wire, page, view>>

Next ==
    \/ Connect \/ Subscribe \/ NetworkBreaks \/ PingTimeout \/ Stall \/ Reject
    \/ Publish \/ Pump \/ Overflow \/ Send \/ CloseOverflowed \/ SeeClose
    \/ \E f \in Fetch : \/ Open(f) \/ Receive(f) \/ Refresh(f)
                        \/ ServeFetch(f) \/ ShowFetch(f) \/ FailFetch(f)

Spec == Init /\ [][Next]_vars

\* The session's coroutines run, the browser takes frames unless it has stalled, and
\* then the 60 s ping timeout fires (Main.kt 89-92).  The fairness of the refetches and
\* the strong one of Open and Receive are for the bound on refetches only: in the code
\* onopen and onmessage wait for no earlier refetch, and one whose body stalls may
\* never end.
Fairness ==
    /\ WF_vars(Subscribe) /\ WF_vars(Pump) /\ WF_vars(Overflow) /\ WF_vars(Send)
    /\ WF_vars(CloseOverflowed) /\ WF_vars(SeeClose) /\ WF_vars(PingTimeout)
    /\ SF_vars(\E f \in Fetch : Receive(f)) /\ SF_vars(\E f \in Fetch : Open(f))
    /\ \A f \in Fetch : WF_vars(ServeFetch(f)) /\ WF_vars(ShowFetch(f))

FairSpec == Spec /\ Fairness

-----------------------------------------------------------------------------
InFlight == wire \o outbox \o buf

\* Frames reach the page in the order of their events, none twice on a connection,
\* and none from before its subscription.
FramesInOrder ==
    /\ \A i, k \in DOMAIN InFlight : i < k => InFlight[i] < InFlight[k]
    /\ \A i \in DOMAIN InFlight : InFlight[i] > since /\ InFlight[i] > last

\* Lost events are never the last word (comments at EventBus.kt 19-21 and Events.kt
\* 34-37): while a session pumps, whatever the bus dropped, the newest event since it
\* subscribed has reached the page or is on its way; when the outbox gives up, the
\* session is no longer pumping and will be closed.
NewestIsNotLost ==
    session = "pumping" /\ ver > since => last = ver \/ ver \in Range(InFlight)

\* An overflowed session is closed or broken off, even for a page that has stopped
\* reading, so the page gets to reconnect and refetch.
OverflowEnds == session = "overflowed" ~> session # "overflowed"

\* "On (re)connect the client refetches, then trusts the stream" (DESIGN 281): when
\* the page is connected, nothing is on its way and no refetch is under way, the page
\* shows the wallet as it is.
Quiet ==
    /\ socket = "open" /\ session = "pumping"
    /\ InFlight = <<>> /\ \A f \in Fetch : fetch[f].pc = "none"

QuietViewIsCurrent == Quiet => view = ver
=============================================================================
