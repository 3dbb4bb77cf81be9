--------------------------- MODULE WebhookDelivery ---------------------------
(* Webhooks of one user (routes/Webhooks.kt) over SdkLease: the provider        *)
(* delivers an event until it is acknowledged, each delivery syncs the wallet,  *)
(* asks for a leaf optimization and acknowledges.  The optimization is itself a *)
(* call of withUser, under the timer of Optimizer.kt; its queue is seen here as *)
(* one slot (OptimizeSlots).                                                    *)
EXTENDS SdkLease, Naturals

CONSTANTS
    Handler,    \* request coroutines of the route
    Optimizer,  \* the coroutine of the optimization
    Events      \* bound: events of the wallet

ASSUME WebhookAssumption ==
    /\ Events \in Nat
    /\ Optimizer \notin Handler
    /\ Call = Handler \cup {Optimizer}

VARIABLES
    events,     \* events so far: payments and deposits that changed the wallet
    synced,     \* the events the wallet's local storage knows of
    acked,      \* the events the provider has seen acknowledged
    request,    \* [Handler -> the event its request is about, and what it saw]
    slot        \* the user's slot in the optimize queue

lease == <<mode, keyStored, call>>
vars == <<lease, events, synced, acked, request, slot>>

Event == 1 .. Events
NoRequest == [event |-> 0, sees |-> 0]

Init ==
    /\ LeaseInit
    /\ events = 0
    /\ synced = 0
    /\ acked = {}
    /\ request = [h \in Handler |-> NoRequest]
    /\ slot = "idle"

-----------------------------------------------------------------------------
(* The provider.                                                              *)

Happens ==
    /\ events < Events
    /\ events' = events + 1
    /\ UNCHANGED <<lease, synced, acked, request, slot>>

\* A delivery, in any order, and again: the provider or the network may repeat it.
\* Deliveries whose body or signature is bad are turned away without effect.
Deliver(e, h) ==
    /\ e \in 1 .. events
    /\ Enter(h)
    /\ request' = [request EXCEPT ![h].event = e]
    /\ UNCHANGED <<events, synced, acked, slot>>

-----------------------------------------------------------------------------
(* The route.                                                                 *)

\* syncWallet reads what has happened by now ...
SyncReads(h) ==
    /\ At(h, "op")
    /\ request[h].sees = 0
    /\ request' = [request EXCEPT ![h].sees = events]
    /\ UNCHANGED <<lease, events, synced, acked, slot>>

\* ... and stores it; of two syncs the newer stands.  A sync that throws may have
\* stored it too.
Stores(h) ==
    /\ request[h].sees # 0
    /\ synced' = IF request[h].sees > synced THEN request[h].sees ELSE synced

SyncEnds(h) ==
    /\ Stores(h) /\ OpReturns(h)
    /\ UNCHANGED <<events, acked, request, slot>>

SyncThrows(h) ==
    /\ OpThrows(h)
    /\ Stores(h) \/ UNCHANGED synced
    /\ UNCHANGED <<events, acked, request, slot>>

\* enqueue: nothing in turnkey mode, nor for a user who is queued or running.
Enqueued == IF mode = "seed" /\ slot = "idle" THEN "queued" ELSE slot

\* The route answers by whether the sync threw, by a cancellation too: 200, or 5xx and
\* 409.
AnswersOkFault(h) == TRUE

AnswersOk(h) == ~call[h].threw

\* The answer goes out, and may be lost.
Respond(h) ==
    /\ At(h, "left")
    /\ Resume(h)
    /\ \/ AnswersOk(h) /\ acked' = acked \cup {request[h].event}
       \/ UNCHANGED acked
    /\ slot' = IF AnswersOk(h) THEN Enqueued ELSE slot
    /\ request' = [request EXCEPT ![h] = NoRequest]
    /\ UNCHANGED <<events, synced>>

\* The handler of a sync that went well is cancelled in the mutex of enqueue: nothing is
\* queued, and no answer goes out.  One that is cancelled in respond has lost its answer.
CancelEnqueue(h) ==
    /\ At(h, "left")
    /\ AnswersOk(h)
    /\ Resume(h)
    /\ request' = [request EXCEPT ![h] = NoRequest]
    /\ UNCHANGED <<events, synced, acked, slot>>

-----------------------------------------------------------------------------
(* The optimization (runOnce).                                                *)

StartRun ==
    /\ slot = "queued"
    /\ slot' = "running"
    /\ Enter(Optimizer)
    /\ UNCHANGED <<events, synced, acked, request>>

\* optimizeLeaves ends, or throws when it fails or the five minutes are over.
RunStep ==
    /\ OpReturns(Optimizer) \/ OpThrows(Optimizer)
    /\ UNCHANGED <<events, synced, acked, request, slot>>

\* The finally block of runOnce.
EndRun ==
    /\ At(Optimizer, "left")
    /\ slot' = "idle"
    /\ Resume(Optimizer)
    /\ UNCHANGED <<events, synced, acked, request>>

-----------------------------------------------------------------------------
\* The steps of withUser that are the same for all callers.
UseSdk(c) ==
    /\ ReadRow(c) \/ StoreKey(c) \/ Build(c) \/ Listen(c) \/ Disconnect(c)
    /\ UNCHANGED <<events, synced, acked, request, slot>>

Restart ==
    /\ LeaseRestart
    /\ request' = [h \in Handler |-> NoRequest]
    /\ slot' = "idle"
    /\ UNCHANGED <<events, synced, acked>>

Next ==
    \/ Happens
    \/ \E e \in Event, h \in Handler : Deliver(e, h)
    \/ \E h \in Handler : SyncReads(h) \/ SyncEnds(h) \/ SyncThrows(h) \/ Respond(h) \/ CancelEnqueue(h)
    \/ \E c \in Call : UseSdk(c)
    \/ StartRun \/ RunStep \/ EndRun
    \/ Restart

Spec == Init /\ [][Next]_vars

-----------------------------------------------------------------------------
TypeOK ==
    /\ LeaseTypeOK
    /\ events \in 0 .. Events
    /\ synced \in 0 .. events
    /\ acked \subseteq 1 .. events
    /\ request \in [Handler -> [event : 0 .. events, sees : 0 .. events]]
    /\ slot \in {"idle", "queued", "running"}

\* The webhook contract is the recovery path (DESIGN.md 322-323, Webhooks.kt 69-83):
\* whatever fails, is lost, comes twice or out of order, and wherever the process dies
\* between a sync and its answer, the provider never gives up an event that the
\* wallet does not know of.
AckedIsSynced == \A e \in acked : e <= synced

\* The slot seen as the optimize queue's, of which this user is one.
Queue == INSTANCE OptimizeSlots
             WITH User <- {Optimizer}, Concurrency <- 1, slot <- [u \in {Optimizer} |-> slot]

\* What a wallet's webhooks rely on is what the queue promises (Optimizer.kt 48-72):
\* a run that no event asked for, or a second one beside the first, is no step of it.
ImplementsQueue == Queue!Spec
=============================================================================
