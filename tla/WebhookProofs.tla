---------------------------- MODULE WebhookProofs ----------------------------
(* Theorems about WebhookDelivery and SdkLease, for any number of deliveries    *)
(* under way at once and any number of events.                                  *)
EXTENDS WebhookDelivery, Integers, FiniteSetTheorems, TLAPS

Pc == {"idle", "row", "key", "build", "listen", "op", "disconnect", "left"}
CallState == [pc : Pc, threw : BOOLEAN]

\* A step of one call leaves the others alone.
Others(c) == \A d \in Call : d # c => call'[d] = call[d]

\* The sync of a delivery went well.
Done(s) == s.pc \in {"disconnect", "left"} /\ ~s.threw

\* What a request knows: a sync reads no earlier than the event was delivered, and
\* once it is done its event is stored.
RequestFollows(h) ==
    /\ call[h].pc = "idle" => request[h] = NoRequest
    /\ call[h].pc # "idle" => request[h].event >= 1
    /\ request[h].sees # 0 => request[h].sees >= request[h].event
    /\ Done(call[h]) => request[h].event <= synced

WebhookInvariant ==
    /\ TypeOK
    /\ \A h \in Handler : RequestFollows(h)
    /\ AckedIsSynced

-----------------------------------------------------------------------------
\* A state that a step of SdkLease gives a call.
LEMMA SetCall ==
  ASSUME call \in [Call -> CallState], NEW c \in Call, NEW t \in CallState,
         call' = [call EXCEPT ![c] = t]
  PROVE  call' \in [Call -> CallState] /\ call'[c] = t /\ Others(c)
BY DEF Others

LEMMA GoesOn ==
  ASSUME call \in [Call -> CallState], NEW c \in Call, NEW pc \in Pc, GoOn(c, pc)
  PROVE  /\ call' \in [Call -> CallState] /\ Others(c)
         /\ call'[c].pc = pc /\ call'[c].threw = call[c].threw
<1> DEFINE t == [call[c] EXCEPT !.pc = pc]
<1>1. t \in CallState /\ t.pc = pc /\ t.threw = call[c].threw
  BY DEF CallState
<1>2. call' = [call EXCEPT ![c] = t]
  BY DEF GoOn
<1> QED
  BY <1>1, <1>2, SetCall

LEMMA Leaves ==
  ASSUME call \in [Call -> CallState], NEW c \in Call, NEW threw \in BOOLEAN, Leave(c, threw)
  PROVE  /\ call' \in [Call -> CallState] /\ Others(c)
         /\ call'[c].pc = "left" /\ call'[c].threw = threw
<1> DEFINE t == [pc |-> "left", threw |-> threw]
<1>1. t \in CallState
  BY DEF CallState, Pc
<1> QED
  BY <1>1, SetCall DEF Leave

\* One step of withUser, whoever called it.
LEMMA UseSdkMoves ==
  ASSUME LeaseTypeOK, NEW c \in Call, UseSdk(c)
  PROVE  /\ LeaseTypeOK' /\ Others(c)
         /\ call[c].pc # "idle" /\ call'[c].pc # "idle"
         /\ Done(call'[c]) => Done(call[c])
<1> USE DEF At
<1>1. call \in [Call -> CallState] /\ call[c] \in CallState
  BY DEF LeaseTypeOK, CallState, Pc
<1>2. \A pc \in Pc : GoOn(c, pc) =>
        call' \in [Call -> CallState] /\ Others(c) /\ call'[c].pc = pc
  BY <1>1, GoesOn
<1>3. \A b \in BOOLEAN : Leave(c, b) =>
        /\ call' \in [Call -> CallState] /\ Others(c)
        /\ call'[c].pc = "left" /\ call'[c].threw = b
  BY <1>1, Leaves
<1> DEFINE Went ==
      /\ call' \in [Call -> CallState] /\ Others(c)
      /\ call[c].pc # "idle" /\ call'[c].pc # "idle"
      /\ Done(call'[c]) => Done(call[c])
<1>4. CASE ReadRow(c)
  <2>1. Went
    <3>1. CASE GoOn(c, "key")
      BY <1>2, <1>4, <3>1 DEF ReadRow, Done, Pc
    <3>2. CASE GoOn(c, "build")
      BY <1>2, <1>4, <3>2 DEF ReadRow, Done, Pc
    <3>3. CASE Leave(c, TRUE)
      BY <1>3, <1>4, <3>3 DEF ReadRow, Done
    <3> QED
      BY <1>4, <3>1, <3>2, <3>3 DEF ReadRow
  <2> QED
    BY <1>4, <2>1 DEF ReadRow, LeaseTypeOK, CallState, Pc, database
<1>5. CASE StoreKey(c)
  <2>1. Went
    <3>1. CASE GoOn(c, "build")
      BY <1>2, <1>5, <3>1 DEF StoreKey, Done, Pc
    <3>2. CASE Leave(c, TRUE)
      BY <1>3, <1>5, <3>2 DEF StoreKey, Done
    <3> QED
      BY <1>5, <3>1, <3>2 DEF StoreKey
  <2> QED
    BY <1>5, <2>1 DEF StoreKey, LeaseTypeOK, CallState, Pc
<1>6. CASE Build(c)
  <2>1. Went
    <3>1. CASE GoOn(c, "listen")
      BY <1>2, <1>6, <3>1 DEF Build, Done, Pc
    <3>2. CASE Leave(c, TRUE)
      BY <1>3, <1>6, <3>2 DEF Build, Done
    <3> QED
      BY <1>6, <3>1, <3>2 DEF Build
  <2> QED
    BY <1>6, <2>1 DEF Build, LeaseTypeOK, CallState, Pc, database
<1>7. CASE Listen(c)
  <2>1. Went
    <3>1. CASE GoOn(c, "op")
      BY <1>2, <1>7, <3>1 DEF Listen, Done, Pc
    <3>2. CASE Leave(c, TRUE)
      BY <1>3, <1>7, <3>2 DEF Listen, Done
    <3> QED
      BY <1>7, <3>1, <3>2 DEF Listen
  <2> QED
    BY <1>7, <2>1 DEF Listen, LeaseTypeOK, CallState, Pc, database
<1>8. CASE Disconnect(c)
  <2>1. call[c].threw \in BOOLEAN
    BY <1>1 DEF CallState
  <2>2. Went
    BY <1>3, <1>8, <2>1 DEF Disconnect, Done
  <2> QED
    BY <1>8, <2>2 DEF Disconnect, LeaseTypeOK, CallState, Pc, database
<1> QED
  BY <1>4, <1>5, <1>6, <1>7, <1>8 DEF UseSdk

\* The steps at and around the operation, with the state they lead to.
LEMMA OpReturnsMoves ==
  ASSUME LeaseTypeOK, NEW c \in Call, OpReturns(c)
  PROVE  /\ LeaseTypeOK' /\ Others(c)
         /\ call[c].pc = "op" /\ call'[c].pc = "disconnect"
<1>1. call \in [Call -> CallState] /\ call[c] \in CallState
  BY DEF LeaseTypeOK, CallState, Pc
<1>2. GoOn(c, "disconnect") /\ UNCHANGED database /\ call[c].pc = "op"
  BY DEF OpReturns, At
<1>3. call' \in [Call -> CallState] /\ Others(c) /\ call'[c].pc = "disconnect"
  BY <1>1, <1>2, GoesOn DEF Pc
<1> QED
  BY <1>2, <1>3 DEF LeaseTypeOK, CallState, Pc, database

LEMMA OpThrowsMoves ==
  ASSUME LeaseTypeOK, NEW c \in Call, OpThrows(c)
  PROVE  /\ LeaseTypeOK' /\ Others(c)
         /\ call[c].pc = "op" /\ call'[c].pc = "disconnect" /\ call'[c].threw
<1> DEFINE t == [pc |-> "disconnect", threw |-> TRUE]
<1>1. call \in [Call -> CallState] /\ call[c] \in CallState
  BY DEF LeaseTypeOK, CallState, Pc
<1>2. t \in CallState
  BY DEF CallState, Pc
<1>3. call' = [call EXCEPT ![c] = t] /\ UNCHANGED database /\ call[c].pc = "op"
  BY DEF OpThrows, At
<1>4. call' \in [Call -> CallState] /\ call'[c] = t /\ Others(c)
  BY <1>1, <1>2, <1>3, SetCall
<1> QED
  BY <1>2, <1>3, <1>4 DEF LeaseTypeOK, CallState, Pc, database

LEMMA EnterMoves ==
  ASSUME LeaseTypeOK, NEW c \in Call, Enter(c)
  PROVE  /\ LeaseTypeOK' /\ Others(c)
         /\ call[c].pc = "idle" /\ call'[c].pc = "row"
<1>1. call \in [Call -> CallState] /\ call[c] \in CallState
  BY DEF LeaseTypeOK, CallState, Pc
<1>2. GoOn(c, "row") /\ UNCHANGED database /\ call[c].pc = "idle"
  BY DEF Enter, At
<1>3. call' \in [Call -> CallState] /\ Others(c) /\ call'[c].pc = "row"
  BY <1>1, <1>2, GoesOn DEF Pc
<1> QED
  BY <1>2, <1>3 DEF LeaseTypeOK, CallState, Pc, database

LEMMA ResumeMoves ==
  ASSUME LeaseTypeOK, NEW c \in Call, Resume(c)
  PROVE  /\ LeaseTypeOK' /\ Others(c)
         /\ call'[c].pc = "idle"
<1>1. call \in [Call -> CallState]
  BY DEF LeaseTypeOK, CallState, Pc
<1>2. NoCall \in CallState /\ NoCall.pc = "idle"
  BY DEF NoCall, CallState, Pc
<1>3. call' = [call EXCEPT ![c] = NoCall] /\ UNCHANGED database
  BY DEF Resume
<1>4. call' \in [Call -> CallState] /\ call'[c] = NoCall /\ Others(c)
  BY <1>1, <1>2, <1>3, SetCall
<1> QED
  BY <1>2, <1>3, <1>4 DEF LeaseTypeOK, CallState, Pc, database

-----------------------------------------------------------------------------
LEMMA WebhookInit == Init => WebhookInvariant
<1> SUFFICES ASSUME Init PROVE WebhookInvariant
  OBVIOUS
<1>1. NoCall \in CallState /\ NoCall.pc = "idle"
  BY DEF NoCall, CallState, Pc
<1>2. call \in [Call -> CallState]
  BY <1>1 DEF Init, LeaseInit
<1>3. LeaseTypeOK
  BY <1>2 DEF Init, LeaseInit, LeaseTypeOK, CallState, Pc
<1>4. NoRequest \in [event : 0 .. 0, sees : 0 .. 0]
  BY DEF NoRequest
<1>5. TypeOK
  BY <1>3, <1>4, WebhookAssumption DEF Init, TypeOK
<1>6. \A h \in Handler : RequestFollows(h)
  BY <1>1, WebhookAssumption DEF Init, LeaseInit, RequestFollows, Done, NoRequest
<1> QED
  BY <1>5, <1>6 DEF WebhookInvariant, AckedIsSynced, Init

\* A step that leaves the other requests, what is stored and what is acknowledged
\* alone owes only its own request.
LEMMA OneRequest ==
  ASSUME WebhookInvariant, NEW c \in Call, LeaseTypeOK', Others(c),
         UNCHANGED <<events, acked>>,
         synced' \in synced .. events, slot' \in {"idle", "queued", "running"},
         request' \in [Handler -> [event : 0 .. events, sees : 0 .. events]],
         \A h \in Handler : h # c => request'[h] = request[h],
         c \in Handler => RequestFollows(c)'
  PROVE  WebhookInvariant'
<1>1. TypeOK'
  BY DEF WebhookInvariant, TypeOK
<1>2. ASSUME NEW h \in Handler
      PROVE  RequestFollows(h)'
  <2>1. CASE h = c
    BY <2>1
  <2>2. CASE h # c
    <3>1. call'[h] = call[h] /\ request'[h] = request[h]
      BY <2>2, WebhookAssumption DEF Others
    <3>2. request[h].event \in 0 .. events /\ synced \in Int /\ synced' \in Int /\ synced <= synced'
      BY DEF WebhookInvariant, TypeOK
    <3> QED
      BY <3>1, <3>2 DEF WebhookInvariant, RequestFollows, Done
  <2> QED
    BY <2>1, <2>2
<1>3. AckedIsSynced'
  BY DEF WebhookInvariant, TypeOK, AckedIsSynced
<1> QED
  BY <1>1, <1>2, <1>3 DEF WebhookInvariant

\* The steps of the route.
LEMMA RouteKeeps ==
  ASSUME WebhookInvariant, NEW h \in Handler,
         SyncReads(h) \/ SyncEnds(h) \/ SyncThrows(h) \/ Respond(h) \/ CancelEnqueue(h)
         \/ \E e \in Event : Deliver(e, h)
  PROVE  WebhookInvariant'
<1> USE DEF At
<1>1. /\ h \in Call /\ LeaseTypeOK /\ call \in [Call -> CallState] /\ call[h] \in CallState
      /\ events \in Nat /\ synced \in 0 .. events /\ RequestFollows(h)
      /\ slot \in {"idle", "queued", "running"}
      /\ request \in [Handler -> [event : 0 .. events, sees : 0 .. events]]
  BY WebhookAssumption DEF WebhookInvariant, TypeOK, LeaseTypeOK, CallState, Pc
<1>2. request[h] \in [event : 0 .. events, sees : 0 .. events]
  BY <1>1
<1>3. CASE SyncReads(h)
  <2> DEFINE r == [request[h] EXCEPT !.sees = events]
  <2>1. r \in [event : 0 .. events, sees : 0 .. events] /\ r.event = request[h].event /\ r.sees = events
    BY <1>1, <1>2
  <2>2. request' = [request EXCEPT ![h] = r] /\ UNCHANGED <<mode, keyStored, call, events, synced, acked, slot>>
    BY <1>3 DEF SyncReads, lease
  <2>3. /\ request' \in [Handler -> [event : 0 .. events, sees : 0 .. events]] /\ request'[h] = r
        /\ \A g \in Handler : g # h => request'[g] = request[g]
    BY <1>1, <2>1, <2>2
  <2>4. Others(h) /\ LeaseTypeOK'
    BY <1>1, <2>2 DEF Others, LeaseTypeOK
  <2>5. RequestFollows(h)'
    BY <1>1, <1>2, <1>3, <2>1, <2>2, <2>3 DEF RequestFollows, SyncReads, Done
  <2> QED
    BY <1>1, <2>2, <2>3, <2>4, <2>5, OneRequest
<1>4. CASE SyncEnds(h)
  <2>1. /\ OpReturns(h) /\ UNCHANGED <<events, acked, request, slot>> /\ request[h].sees # 0
        /\ synced' = IF request[h].sees > synced THEN request[h].sees ELSE synced
    BY <1>4 DEF SyncEnds, Stores
  <2>2. /\ LeaseTypeOK' /\ Others(h)
        /\ call[h].pc = "op" /\ call'[h].pc = "disconnect"
    BY <1>1, <2>1, OpReturnsMoves
  <2>3. synced' \in synced .. events /\ request[h].event <= synced'
    BY <1>1, <1>2, <2>1 DEF RequestFollows
  <2>4. RequestFollows(h)'
    BY <1>1, <1>2, <2>1, <2>2, <2>3 DEF RequestFollows
  <2> QED
    BY <1>1, <2>1, <2>2, <2>3, <2>4, OneRequest
<1>5. CASE SyncThrows(h)
  <2>1. /\ OpThrows(h) /\ UNCHANGED <<events, acked, request, slot>>
        /\ synced' \in {synced, request[h].sees} /\ (synced' # synced => request[h].sees > synced)
    BY <1>5 DEF SyncThrows, Stores
  <2>2. /\ LeaseTypeOK' /\ Others(h)
        /\ call[h].pc = "op" /\ call'[h].pc = "disconnect" /\ call'[h].threw
    BY <1>1, <2>1, OpThrowsMoves
  <2>3. synced' \in synced .. events
    BY <1>1, <1>2, <2>1
  <2>4. RequestFollows(h)'
    BY <1>1, <2>1, <2>2 DEF RequestFollows, Done
  <2> QED
    BY <1>1, <2>1, <2>2, <2>3, <2>4, OneRequest
<1>6. CASE \E e \in Event : Deliver(e, h)
  <2>1. PICK e \in Event : Deliver(e, h)
    BY <1>6
  <2> DEFINE r == [request[h] EXCEPT !.event = e]
  <2>2. /\ Enter(h) /\ UNCHANGED <<events, synced, acked, slot>> /\ e \in 1 .. events
        /\ request' = [request EXCEPT ![h] = r]
    BY <2>1 DEF Deliver
  <2>3. r \in [event : 0 .. events, sees : 0 .. events] /\ r.event = e /\ r.sees = request[h].sees
    BY <1>1, <1>2, <2>2
  <2>4. /\ request' \in [Handler -> [event : 0 .. events, sees : 0 .. events]] /\ request'[h] = r
        /\ \A g \in Handler : g # h => request'[g] = request[g]
    BY <1>1, <2>2, <2>3
  <2>5. /\ LeaseTypeOK' /\ Others(h)
        /\ call[h].pc = "idle" /\ call'[h].pc = "row"
    BY <1>1, <2>2, EnterMoves
  <2>6. request[h].sees = 0
    BY <1>1, <2>5 DEF RequestFollows, NoRequest
  <2>7. RequestFollows(h)'
    BY <1>1, <2>2, <2>3, <2>4, <2>5, <2>6 DEF RequestFollows, Done
  <2> QED
    BY <1>1, <2>2, <2>4, <2>5, <2>7, OneRequest
<1>7. CASE Respond(h) \/ CancelEnqueue(h)
  <2>1. /\ call[h].pc = "left" /\ Resume(h) /\ UNCHANGED <<events, synced>>
        /\ request' = [request EXCEPT ![h] = NoRequest]
    BY <1>7 DEF Respond, CancelEnqueue
  <2>2. /\ LeaseTypeOK' /\ Others(h) /\ call'[h].pc = "idle"
    BY <1>1, <2>1, ResumeMoves
  <2>3. NoRequest \in [event : 0 .. events, sees : 0 .. events] /\ NoRequest.sees = 0
    BY <1>1 DEF NoRequest
  <2>4. /\ request' \in [Handler -> [event : 0 .. events, sees : 0 .. events]]
        /\ request'[h] = NoRequest
        /\ \A g \in Handler : g # h => request'[g] = request[g]
    BY <1>1, <2>1, <2>3
  <2>5. acked' \subseteq acked \cup {request[h].event} /\ (acked' # acked => ~call[h].threw)
    BY <1>7 DEF Respond, CancelEnqueue, AnswersOk
  <2>6. acked' # acked => request[h].event \in 1 .. synced
    BY <1>1, <1>2, <2>1, <2>5 DEF RequestFollows, Done
  <2>7. acked' \subseteq 1 .. events /\ \A e \in acked' : e <= synced
    BY <1>1, <2>5, <2>6 DEF WebhookInvariant, TypeOK, AckedIsSynced
  <2>8. slot' \in {"idle", "queued", "running"}
    BY <1>1, <1>7 DEF Respond, CancelEnqueue, Enqueued
  <2>9. TypeOK'
    BY <1>1, <2>1, <2>2, <2>4, <2>7, <2>8 DEF WebhookInvariant, TypeOK
  <2>10. ASSUME NEW g \in Handler
         PROVE  RequestFollows(g)'
    <3>1. CASE g = h
      BY <2>2, <2>3, <2>4, <3>1 DEF RequestFollows, Done
    <3>2. CASE g # h
      <4>1. call'[g] = call[g] /\ request'[g] = request[g]
        BY <2>2, <2>4, <3>2, WebhookAssumption DEF Others
      <4> QED
        BY <2>1, <4>1 DEF WebhookInvariant, RequestFollows
    <3> QED
      BY <3>1, <3>2
  <2> QED
    BY <2>1, <2>7, <2>9, <2>10 DEF WebhookInvariant, AckedIsSynced
<1> QED
  BY <1>3, <1>4, <1>5, <1>6, <1>7

\* The steps of the optimization, which no request sees.
LEMMA RunKeeps ==
  ASSUME WebhookInvariant, StartRun \/ RunStep \/ EndRun
  PROVE  WebhookInvariant'
<1>1. /\ Optimizer \in Call /\ Optimizer \notin Handler /\ LeaseTypeOK
      /\ events \in Nat /\ synced \in 0 .. events /\ slot \in {"idle", "queued", "running"}
      /\ request \in [Handler -> [event : 0 .. events, sees : 0 .. events]]
  BY WebhookAssumption DEF WebhookInvariant, TypeOK
<1>2. LeaseTypeOK' /\ Others(Optimizer)
  <2>1. CASE StartRun
    BY <1>1, <2>1, EnterMoves DEF StartRun
  <2>2. CASE RunStep
    BY <1>1, <2>2, OpReturnsMoves, OpThrowsMoves DEF RunStep
  <2>3. CASE EndRun
    BY <1>1, <2>3, ResumeMoves DEF EndRun
  <2> QED
    BY <2>1, <2>2, <2>3
<1>3. UNCHANGED <<events, synced, acked, request>> /\ slot' \in {"idle", "queued", "running"}
  BY <1>1 DEF StartRun, RunStep, EndRun
<1> QED
  BY <1>1, <1>2, <1>3, OneRequest

LEMMA UseKeeps ==
  ASSUME WebhookInvariant, NEW c \in Call, UseSdk(c)
  PROVE  WebhookInvariant'
<1>1. /\ LeaseTypeOK /\ events \in Nat /\ synced \in 0 .. events /\ slot \in {"idle", "queued", "running"}
      /\ request \in [Handler -> [event : 0 .. events, sees : 0 .. events]]
  BY WebhookAssumption DEF WebhookInvariant, TypeOK
<1>2. /\ LeaseTypeOK' /\ Others(c)
      /\ call[c].pc # "idle" /\ call'[c].pc # "idle"
      /\ Done(call'[c]) => Done(call[c])
  BY <1>1, UseSdkMoves
<1>3. UNCHANGED <<events, synced, acked, request, slot>>
  BY DEF UseSdk
<1>4. c \in Handler => RequestFollows(c)'
  BY <1>2, <1>3 DEF WebhookInvariant, RequestFollows
<1> QED
  BY <1>1, <1>2, <1>3, <1>4, OneRequest

LEMMA WebhookNext == WebhookInvariant /\ [Next]_vars => WebhookInvariant'
<1> SUFFICES ASSUME WebhookInvariant, [Next]_vars PROVE WebhookInvariant'
  OBVIOUS
<1>1. CASE Happens
  <2>1. UNCHANGED <<mode, keyStored, call, synced, acked, request, slot>> /\ events' = events + 1 /\ events < Events
    BY <1>1 DEF Happens, lease
  <2>2. events \in 0 .. Events /\ Events \in Nat
    BY WebhookAssumption DEF WebhookInvariant, TypeOK
  <2>3. [event : 0 .. events, sees : 0 .. events] \subseteq [event : 0 .. events', sees : 0 .. events']
    BY <2>1, <2>2
  <2>4. TypeOK'
    BY <2>1, <2>2, <2>3 DEF WebhookInvariant, TypeOK, LeaseTypeOK
  <2> QED
    BY <2>1, <2>4 DEF WebhookInvariant, RequestFollows, AckedIsSynced
<1>2. ASSUME NEW e \in Event, NEW h \in Handler, Deliver(e, h)
      PROVE  WebhookInvariant'
  BY <1>2, RouteKeeps
<1>3. ASSUME NEW h \in Handler,
             SyncReads(h) \/ SyncEnds(h) \/ SyncThrows(h) \/ Respond(h) \/ CancelEnqueue(h)
      PROVE  WebhookInvariant'
  BY <1>3, RouteKeeps
<1>4. ASSUME NEW c \in Call, UseSdk(c)
      PROVE  WebhookInvariant'
  BY <1>4, UseKeeps
<1>5. CASE StartRun \/ RunStep \/ EndRun
  BY <1>5, RunKeeps
<1>6. CASE Restart
  <2>1. /\ call' = [c \in Call |-> NoCall] /\ request' = [h \in Handler |-> NoRequest] /\ slot' = "idle"
        /\ UNCHANGED <<mode, keyStored, events, synced, acked>>
    BY <1>6 DEF Restart, LeaseRestart, database
  <2>2. NoCall \in CallState /\ NoCall.pc = "idle"
    BY DEF NoCall, CallState, Pc
  <2>3. call' \in [Call -> CallState]
    BY <2>1, <2>2
  <2>4. events \in Nat
    BY WebhookAssumption DEF WebhookInvariant, TypeOK
  <2>5. NoRequest \in [event : 0 .. events, sees : 0 .. events] /\ NoRequest.sees = 0
    BY <2>4 DEF NoRequest
  <2>6. TypeOK'
    BY <2>1, <2>3, <2>5 DEF WebhookInvariant, TypeOK, LeaseTypeOK, CallState, Pc
  <2>7. \A h \in Handler : RequestFollows(h)'
    BY <2>1, <2>2, <2>5, WebhookAssumption DEF RequestFollows, Done
  <2> QED
    BY <2>1, <2>6, <2>7 DEF WebhookInvariant, AckedIsSynced
<1>7. CASE UNCHANGED vars
  BY <1>7 DEF vars, lease, WebhookInvariant, TypeOK, LeaseTypeOK, RequestFollows, AckedIsSynced
<1> QED
  BY <1>1, <1>2, <1>3, <1>4, <1>5, <1>6, <1>7 DEF Next

LEMMA WebhookAlways == Spec => []WebhookInvariant
  BY WebhookInit, WebhookNext, PTL DEF Spec

\* The variables of a wallet's webhooks and SDK calls keep their types (TypeOK).
THEOREM WebhookTypeOK == Spec => []TypeOK
<1>1. WebhookInvariant => TypeOK
  BY DEF WebhookInvariant
<1> QED
  BY <1>1, WebhookAlways, PTL

\* No event is acknowledged to the provider before the wallet knows of it, with any
\* number of deliveries at once (routes/Webhooks.kt 69-94).
THEOREM AckedEventsAreSynced == Spec => []AckedIsSynced
<1>1. WebhookInvariant => AckedIsSynced
  BY DEF WebhookInvariant
<1> QED
  BY <1>1, WebhookAlways, PTL

-----------------------------------------------------------------------------
(* The optimization as a user of the queue.                                   *)

\* The slot is running exactly while runOnce is.
SlotIsRun == slot = "running" <=> call[Optimizer].pc # "idle"

LEMMA SlotInit == Init => SlotIsRun
<1>1. Init => call = [c \in Call |-> NoCall] /\ slot = "idle"
  BY DEF Init, LeaseInit
<1> QED
  BY <1>1, WebhookAssumption DEF SlotIsRun, NoCall

\* The steps of the route and of the provider: the slot may be taken, no more.
LEMMA RouteTakesSlot ==
  ASSUME WebhookInvariant, NEW h \in Handler,
         SyncReads(h) \/ SyncEnds(h) \/ SyncThrows(h) \/ Respond(h) \/ CancelEnqueue(h)
         \/ \E e \in Event : Deliver(e, h)
  PROVE  /\ call'[Optimizer] = call[Optimizer]
         /\ slot' = slot \/ (slot = "idle" /\ slot' = "queued")
<1>1. h \in Call /\ Optimizer \in Call /\ h # Optimizer /\ LeaseTypeOK
  BY WebhookAssumption DEF WebhookInvariant, TypeOK
<1>2. Others(h) \/ UNCHANGED call
  <2>1. CASE SyncReads(h)
    BY <2>1 DEF SyncReads, lease
  <2>2. CASE SyncEnds(h)
    BY <1>1, <2>2, OpReturnsMoves DEF SyncEnds
  <2>3. CASE SyncThrows(h)
    BY <1>1, <2>3, OpThrowsMoves DEF SyncThrows
  <2>4. CASE Respond(h) \/ CancelEnqueue(h)
    BY <1>1, <2>4, ResumeMoves DEF Respond, CancelEnqueue
  <2>5. CASE \E e \in Event : Deliver(e, h)
    BY <1>1, <2>5, EnterMoves DEF Deliver
  <2> QED
    BY <2>1, <2>2, <2>3, <2>4, <2>5
<1>3. call'[Optimizer] = call[Optimizer]
  BY <1>1, <1>2 DEF Others
<1>4. slot' = slot \/ (slot = "idle" /\ slot' = "queued")
  BY DEF SyncReads, SyncEnds, SyncThrows, Respond, CancelEnqueue, Deliver, Enqueued
<1> QED
  BY <1>3, <1>4

\* The steps of runOnce between its first and its last leave it somewhere in withUser.
LEMMA RunStaysInside ==
  ASSUME WebhookInvariant, RunStep
  PROVE  call[Optimizer].pc # "idle" /\ call'[Optimizer].pc # "idle"
<1>1. /\ Optimizer \in Call /\ LeaseTypeOK /\ call \in [Call -> CallState]
      /\ call[Optimizer] \in CallState
  BY WebhookAssumption DEF WebhookInvariant, TypeOK, LeaseTypeOK, CallState, Pc
<1>2. CASE OpReturns(Optimizer)
  BY <1>1, <1>2, OpReturnsMoves
<1>3. CASE OpThrows(Optimizer)
  BY <1>1, <1>3, OpThrowsMoves
<1> QED
  BY <1>2, <1>3 DEF RunStep

\* What the queue may do with one slot.
QueueMoves ==
    \/ slot' = slot
    \/ slot = "idle" /\ slot' = "queued"
    \/ slot = "queued" /\ slot' = "running"
    \/ slot = "running" /\ slot' = "idle"
    \/ slot' = "idle" /\ call' = [c \in Call |-> NoCall]

LEMMA QueueAllows == QueueMoves => [Queue!Next]_([u \in {Optimizer} |-> slot])
<1> DEFINE s == [u \in {Optimizer} |-> slot]
<1> SUFFICES ASSUME QueueMoves PROVE [Queue!Next]_s
  OBVIOUS
<1>0. s[Optimizer] = slot /\ s' = [s EXCEPT ![Optimizer] = slot'] /\ s' = [u \in {Optimizer} |-> slot']
  OBVIOUS
<1>1. CASE slot' = slot
  BY <1>1
<1>2. CASE slot = "idle" /\ slot' = "queued"
  BY <1>0, <1>2 DEF Queue!Next, Queue!Accept
<1>3. CASE slot = "queued" /\ slot' = "running"
  <2>1. Queue!Running = {}
    BY <1>3 DEF Queue!Running
  <2>2. Queue!Cardinality(Queue!Running) = Cardinality({})
    BY <2>1 DEF Queue!Cardinality, Cardinality
  <2>3. Queue!Cardinality(Queue!Running) < 1
    BY <2>2, FS_EmptySet
  <2> QED
    BY <1>0, <1>3, <2>3 DEF Queue!Next, Queue!Start
<1>4. CASE slot = "running" /\ slot' = "idle"
  BY <1>0, <1>4 DEF Queue!Next, Queue!Finish
<1>5. CASE slot' = "idle"
  BY <1>0, <1>5 DEF Queue!Next, Queue!Restart
<1> QED
  BY <1>1, <1>2, <1>3, <1>4, <1>5 DEF QueueMoves

LEMMA QueueStep ==
  WebhookInvariant /\ SlotIsRun /\ [Next]_vars => SlotIsRun' /\ QueueMoves
<1> SUFFICES ASSUME WebhookInvariant, SlotIsRun, [Next]_vars PROVE SlotIsRun' /\ QueueMoves
  OBVIOUS
<1>0. /\ Optimizer \in Call /\ Optimizer \notin Handler /\ LeaseTypeOK
      /\ slot \in {"idle", "queued", "running"}
      /\ call \in [Call -> CallState] /\ call[Optimizer] \in CallState
  BY WebhookAssumption DEF WebhookInvariant, TypeOK, LeaseTypeOK, CallState, Pc
<1>1. CASE Happens \/ UNCHANGED vars
  BY <1>1 DEF Happens, vars, lease, SlotIsRun, QueueMoves
<1>2. ASSUME NEW h \in Handler,
             SyncReads(h) \/ SyncEnds(h) \/ SyncThrows(h) \/ Respond(h) \/ CancelEnqueue(h)
             \/ \E e \in Event : Deliver(e, h)
      PROVE  SlotIsRun' /\ QueueMoves
  <2>1. /\ call'[Optimizer] = call[Optimizer]
        /\ slot' = slot \/ (slot = "idle" /\ slot' = "queued")
    BY <1>2, RouteTakesSlot
  <2> QED
    BY <2>1 DEF SlotIsRun, QueueMoves
<1>3. ASSUME NEW c \in Call, UseSdk(c)
      PROVE  SlotIsRun' /\ QueueMoves
  <2>1. slot' = slot /\ Others(c) /\ call[c].pc # "idle" /\ call'[c].pc # "idle"
    BY <1>0, <1>3, UseSdkMoves DEF UseSdk
  <2>2. call[Optimizer].pc = "idle" <=> call'[Optimizer].pc = "idle"
    BY <1>0, <2>1 DEF Others
  <2> QED
    BY <2>1, <2>2 DEF SlotIsRun, QueueMoves
<1>4. CASE StartRun
  BY <1>0, <1>4, EnterMoves DEF StartRun, SlotIsRun, QueueMoves
<1>5. CASE RunStep
  <2>1. slot' = slot
    BY <1>5 DEF RunStep
  <2> QED
    BY <1>5, <2>1, RunStaysInside DEF SlotIsRun, QueueMoves
<1>6. CASE EndRun
  <2>1. slot' = "idle" /\ call[Optimizer].pc = "left"
    BY <1>6 DEF EndRun, At
  <2>2. call'[Optimizer].pc = "idle"
    BY <1>0, <1>6, ResumeMoves DEF EndRun
  <2> QED
    BY <2>1, <2>2 DEF SlotIsRun, QueueMoves
<1>7. CASE Restart
  <2>1. slot' = "idle" /\ call' = [c \in Call |-> NoCall]
    BY <1>7 DEF Restart, LeaseRestart
  <2> QED
    BY <1>0, <2>1 DEF SlotIsRun, QueueMoves, NoCall
<1> QED
  BY <1>1, <1>2, <1>3, <1>4, <1>5, <1>6, <1>7 DEF Next

\* The one slot that the webhooks of a user see does what OptimizeSlots lets a user's
\* slot do, with any number of deliveries at once and across restarts (Webhooks.kt 85-90,
\* Optimizer.kt 72-125): a run is started by an accepted event only, and the slot is
\* free again only when withUser has been left.
THEOREM WebhooksImplementQueue == Spec => ImplementsQueue
<1>1. Init => Queue!Init
  BY DEF Init, Queue!Init
<1>2. WebhookInvariant /\ SlotIsRun /\ [Next]_vars
          => SlotIsRun' /\ [Queue!Next]_([u \in {Optimizer} |-> slot])
  BY QueueStep, QueueAllows
<1> QED
  BY <1>1, <1>2, SlotInit, WebhookAlways, PTL DEF Spec, ImplementsQueue, Queue!Spec

\* An optimization is inside withUser exactly while its slot says running, however it
\* fails or is cut off, so no second one enters withUser beside it (Optimizer.kt 78-125).
THEOREM RunHoldsSlot == Spec => []SlotIsRun
  BY SlotInit, QueueStep, WebhookAlways, PTL DEF Spec
=============================================================================
