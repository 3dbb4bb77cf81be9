---------------------------- MODULE SendDialogProofs ----------------------------
(* Theorems about SendDialog, for any number of openings, swap rounds and       *)
(* requests: above all that it implements IdealSend.                            *)
EXTENDS SendDialog, Integers, FiniteSetTheorems, TLAPS

Reply == {"none", "error"} \cup PublishAnswer
RunState ==
    [pc : RunPc, leg : 1 .. Legs, prep : Prepare, text : Input, reviewed : Input,
     phase : CallPhase, reply : Reply, told : Told]
Query == [id : Id, kind : Kind, stamp : Stamp]
Dialog == [step : Steps, text : Input, asked : Input, prepared : Prepare]

\* The locals of doSend.
RunSafe(m) ==
    /\ run[m].pc # "done" => run[m].told = NoResult
    /\ run[m].pc # "publish" => run[m].reply = "none"
    /\ run[m].reply = "none" /\ run[m].pc \notin {"reprepare", "asking"} =>
        run[m].phase = "headers"
    /\ run[m].pc \in {"ensure", "sign"} => run[m].prep.kind \in Kinds
    /\ run[m].pc \in {"ensure", "sign", "publish"} =>
        \/ run[m].prep.request = run[m].reviewed
        \/ run[m].leg > 1 /\ run[m].prep.request = run[m].text
    /\ \A l \in 1 .. Legs : <<m, l>> \in resolvers => run[m].pc = "waiting" /\ l = run[m].leg

\* What doSend may conclude about the payment from the await it is at.
PaidSafe(m) ==
    /\ \A l, k \in PaidLegs(m) : l = k
    /\ run[m].pc \in {"idle", "ensure", "sign", "reprepare"} => PaidLegs(m) = {}
    /\ run[m].pc = "publish" =>
        /\ run[m].reply \in {"none", "swap"} => PaidLegs(m) = {}
        /\ run[m].reply \in Status => run[m].leg \in PaidLegs(m)
        /\ run[m].reply \in Terminal => pays[Leg(m)].status = run[m].reply
    /\ run[m].pc \in {"waiting", "asking"} => run[m].leg \in PaidLegs(m)

\* At most one submitted package of a mount is on its way, and then no payment is made.
InboxSafe(m) ==
    /\ \A q \in inbox : q.id[1] = m =>
        /\ PaidLegs(m) = {}
        /\ run[m].pc = "done" \/ (run[m].pc = "publish" /\ q.id = Leg(m) /\ run[m].reply = "none")
    /\ \A q, r \in inbox : q.id[1] = m /\ r.id[1] = m => q = r

MountSafe(m) == RunSafe(m) /\ PaidSafe(m) /\ InboxSafe(m)

PackagesTapped == \A q \in inbox : clientSigned /\ q.kind # "swap" => q.stamp = "passkey"

\* A mount on the page can be sent from once, and the later ones have not begun.
DialogSafe ==
    /\ dlg.asked # NoRequest => dlg.step = "input"
    /\ dlg.step = "review" /\ dlg.prepared # NoPrepare => dlg.prepared.kind \in Kinds
    /\ isOpen /\ mounted \in Mount /\ dlg.step \in {"input", "review"} => run[mounted].pc = "idle"
    /\ \A m \in Mount : m > mounted => run[m].pc = "idle"

SendInvariant ==
    /\ TypeOK
    /\ DialogSafe
    /\ PackagesTapped
    /\ EveryPaymentTapped
    /\ \A m \in Mount : MountSafe(m)

-----------------------------------------------------------------------------
LEMMA Types ==
  ASSUME TypeOK
  PROVE  /\ run \in [Mount -> RunState] /\ dlg \in Dialog /\ inbox \subseteq Query
         /\ pays \in [Id -> Payment \cup {NoPayment}] /\ resolvers \subseteq Id
         /\ mounted \in 0 .. Opens /\ Opens \in Nat \ {0} /\ Legs \in Nat \ {0}
         /\ NoRequest \in Input /\ NoPayment \notin Payment
  BY SendDialogAssumption DEF TypeOK, RunState, Dialog, Query, Reply, Input

\* A step that leaves what belongs to a mount alone keeps it safe.
LEMMA OtherMount ==
  ASSUME SendInvariant, NEW t \in Mount, run'[t] = run[t], clientSigned' = clientSigned,
         \A l \in 1 .. Legs : pays'[<<t, l>>] = pays[<<t, l>>],
         \A q \in inbox' : q.id[1] = t => q \in inbox,
         \A l \in 1 .. Legs : <<t, l>> \in resolvers' => <<t, l>> \in resolvers
  PROVE  MountSafe(t)'
<1>1. MountSafe(t) /\ run[t] \in RunState
  BY Types DEF SendInvariant
<1>2. PaidLegs(t)' = PaidLegs(t) /\ Leg(t)' = Leg(t) /\ Kinds' = Kinds
  BY DEF PaidLegs, Leg, Kinds
<1>3. RunSafe(t)'
  BY <1>1, <1>2 DEF MountSafe, RunSafe
<1>4. PaidSafe(t)'
  <2>1. pays'[Leg(t)] = pays[Leg(t)]
    BY <1>1 DEF Leg, RunState
  <2> QED
    BY <1>1, <1>2, <2>1 DEF MountSafe, PaidSafe
<1>5. InboxSafe(t)'
  BY <1>1, <1>2 DEF MountSafe, InboxSafe
<1> QED
  BY <1>3, <1>4, <1>5 DEF MountSafe

\* A step of the dialog that doSend does not see.
LEMMA DialogOnly ==
  ASSUME SendInvariant, NEW d \in Dialog, dlg' = d,
         UNCHANGED <<ui, run, resolvers, server>>,
         d.asked # NoRequest => d.step = "input",
         d.step = "review" /\ d.prepared # NoPrepare => d.prepared.kind \in Kinds,
         d.step \in {"input", "review"} => dlg.step \in {"input", "review"}
  PROVE  SendInvariant'
<1>1. UNCHANGED <<clientSigned, mounted, isOpen, inbox, pays>>
  BY DEF ui, server
<1>2. TypeOK'
  BY <1>1 DEF SendInvariant, TypeOK, Dialog
<1>3. DialogSafe'
  BY <1>1 DEF SendInvariant, DialogSafe, Kinds
<1>4. PackagesTapped' /\ EveryPaymentTapped'
  BY <1>1 DEF SendInvariant, PackagesTapped, EveryPaymentTapped
<1>5. \A m \in Mount : MountSafe(m)'
  BY <1>1, OtherMount
<1> QED
  BY <1>2, <1>3, <1>4, <1>5 DEF SendInvariant

\* A step of doSend that makes no payment.
LEMMA RunStep ==
  ASSUME SendInvariant, NEW m \in Mount, NEW r \in RunState, run' = [run EXCEPT ![m] = r],
         UNCHANGED <<ui, pays>>, inbox' \subseteq Query, resolvers' \subseteq Id, dlg' \in Dialog,
         \A q \in inbox' : q \in inbox \/ q.id[1] = m,
         \A i \in resolvers' : i \in resolvers \/ i[1] = m,
         DialogSafe', PackagesTapped', MountSafe(m)'
  PROVE  SendInvariant'
<1>1. /\ run' \in [Mount -> RunState] /\ run'[m] = r /\ \A t \in Mount : t # m => run'[t] = run[t]
  BY Types DEF SendInvariant
<1>2. UNCHANGED <<clientSigned, mounted, isOpen, pays>>
  BY DEF ui
<1>3. TypeOK'
  BY <1>1, <1>2 DEF SendInvariant, TypeOK, RunState, Reply, Dialog, Query
<1>4. EveryPaymentTapped'
  BY <1>2 DEF SendInvariant, EveryPaymentTapped
<1>5. ASSUME NEW t \in Mount, t # m
      PROVE  MountSafe(t)'
  <2>1. \A l \in 1 .. Legs : <<t, l>> \in resolvers' => <<t, l>> \in resolvers
    BY <1>5
  <2>2. \A q \in inbox' : q.id[1] = t => q \in inbox
    BY <1>5
  <2> QED
    BY <1>1, <1>2, <1>5, <2>1, <2>2, OtherMount
<1> QED
  BY <1>3, <1>4, <1>5 DEF SendInvariant

\* While doSend of the mount on the page runs, the dialog is past its review.
LEMMA DialogBehind ==
  ASSUME SendInvariant, NEW m \in Mount, run[m].pc # "idle", NEW r, r.pc # "idle",
         run' = [run EXCEPT ![m] = r], UNCHANGED ui,
         dlg' = dlg \/ SetDialog(m, [dlg EXCEPT !.step = "result"])
  PROVE  DialogSafe' /\ dlg' \in Dialog
<1>1. /\ run \in [Mount -> RunState] /\ dlg \in Dialog /\ UNCHANGED <<clientSigned, mounted, isOpen>>
      /\ Kinds' = Kinds
  BY Types DEF SendInvariant, ui, Kinds
<1>2. run'[m] = r /\ \A t \in Mount : t # m => run'[t] = run[t]
  BY <1>1
<1>3. CASE dlg' = dlg
  BY <1>1, <1>2, <1>3 DEF SendInvariant, DialogSafe
<1>4. CASE OnScreen(m) /\ dlg' = [dlg EXCEPT !.step = "result"]
  <2>1. dlg.asked = NoRequest
    BY <1>4 DEF OnScreen, SendInvariant, DialogSafe
  <2>2. dlg' \in Dialog /\ dlg'.step = "result" /\ dlg'.asked = NoRequest
    BY <1>1, <1>4, <2>1 DEF Dialog, Steps
  <2> QED
    BY <1>1, <1>2, <2>2 DEF SendInvariant, DialogSafe
<1> QED
  BY <1>3, <1>4 DEF SetDialog

LEMMA Results ==
  /\ Result(FALSE, "error") \in Told
  /\ Report("pending") = Result(FALSE, "pending")
  /\ \A status \in Status : Report(status) \in Told
  BY DEF Result, Report, Told, Message, Status

LEMMA NoRunTyped == NoRun \in RunState
<1>1. NoPrepare \in Prepare
  BY DEF NoPrepare, Prepare, PrepareOf, Input, Kind
<1>2. 1 \in 1 .. Legs
  BY SendDialogAssumption
<1> QED
  BY <1>1, <1>2 DEF NoRun, RunState, RunPc, Input, Reply, Told, CallPhase, NoResult, Result

\* doSend ends.
LEMMA TellKeeps ==
  ASSUME SendInvariant, NEW m \in Mount, NEW result \in Told, Tell(m, result),
         run[m].pc \notin {"idle", "done"}, UNCHANGED <<ui, server>>,
         resolvers' \subseteq resolvers, \A l \in 1 .. Legs : <<m, l>> \notin resolvers'
  PROVE  SendInvariant'
<1> DEFINE r == [NoRun EXCEPT !.pc = "done", !.told = result]
<1>1. r \in RunState /\ r.pc = "done" /\ r.reply = "none" /\ r.phase = "headers"
  BY NoRunTyped DEF NoRun, RunState, RunPc
<1>2. run' = [run EXCEPT ![m] = r] /\ UNCHANGED <<inbox, pays>> /\ UNCHANGED <<clientSigned>>
  BY DEF Tell, SetRun, server, ui
<1>3. run'[m] = r
  BY <1>2, Types DEF SendInvariant
<1>4. DialogSafe' /\ dlg' \in Dialog
  BY <1>1, <1>2, DialogBehind DEF Tell
<1>5. PackagesTapped'
  BY <1>2 DEF SendInvariant, PackagesTapped
<1>6. MountSafe(m)'
  <2>1. PaidLegs(m)' = PaidLegs(m)
    BY <1>2 DEF PaidLegs
  <2>2. RunSafe(m)'
    BY <1>1, <1>3 DEF RunSafe
  <2>3. PaidSafe(m)'
    BY <1>1, <1>3, <2>1 DEF SendInvariant, MountSafe, PaidSafe
  <2>4. InboxSafe(m)'
    BY <1>1, <1>2, <1>3, <2>1 DEF SendInvariant, MountSafe, InboxSafe
  <2> QED
    BY <2>2, <2>3, <2>4 DEF MountSafe
<1>7. inbox' \subseteq Query /\ resolvers' \subseteq Id
  BY <1>2, Types DEF SendInvariant
<1> QED
  BY <1>1, <1>2, <1>4, <1>5, <1>6, <1>7, RunStep DEF ui

LEMMA NotAwaited ==
  ASSUME SendInvariant, NEW m \in Mount, run[m].pc # "waiting"
  PROVE  \A l \in 1 .. Legs : <<m, l>> \notin resolvers
  BY DEF SendInvariant, MountSafe, RunSafe

\* doSend throws at an await other than that of the outcome.
LEMMA ThrowKeeps ==
  ASSUME SendInvariant, NEW m \in Mount, Throw(m), UNCHANGED <<ui, resolvers, server>>,
         run[m].pc \notin {"idle", "done", "waiting"}
  PROVE  SendInvariant'
<1>1. Tell(m, Result(FALSE, "error"))
  BY DEF Throw
<1> QED
  BY <1>1, Results, NotAwaited, TellKeeps

\* A step of doSend that goes on to the next await, with nothing submitted.
LEMMA GoOn ==
  ASSUME SendInvariant, NEW m \in Mount, NEW r \in RunState, run' = [run EXCEPT ![m] = r],
         run[m].pc # "idle", r.pc # "idle", UNCHANGED <<ui, server, dlg>>,
         resolvers' \subseteq Id, \A i \in resolvers' : i \in resolvers \/ i[1] = m,
         MountSafe(m)'
  PROVE  SendInvariant'
<1>1. UNCHANGED <<inbox, pays, clientSigned>>
  BY DEF server, ui
<1>2. DialogSafe' /\ dlg' \in Dialog
  BY DialogBehind
<1>3. PackagesTapped'
  BY <1>1 DEF SendInvariant, PackagesTapped
<1>4. inbox' \subseteq Query
  BY <1>1, Types DEF SendInvariant
<1> QED
  BY <1>1, <1>2, <1>3, <1>4, RunStep

LEMMA EnsureKeeps ==
  ASSUME SendInvariant, NEW m \in Mount, EnsureSession(m)
  PROVE  SendInvariant'
<1>1. run[m].pc = "ensure" /\ UNCHANGED <<ui, resolvers, server>> /\ run[m] \in RunState
  BY Types DEF EnsureSession, SendInvariant
<1>2. CASE Throw(m)
  BY <1>1, <1>2, ThrowKeeps
<1>3. CASE SetRun(m, [run[m] EXCEPT !.pc = "sign"]) /\ UNCHANGED dlg
  <2> DEFINE r == [run[m] EXCEPT !.pc = "sign"]
  <2>1. /\ r \in RunState /\ r.pc = "sign" /\ r.told = run[m].told /\ r.prep = run[m].prep
        /\ r.reviewed = run[m].reviewed /\ r.leg = run[m].leg /\ r.text = run[m].text
        /\ r.reply = run[m].reply /\ r.phase = run[m].phase
    BY <1>1 DEF RunState, RunPc
  <2>2. run' = [run EXCEPT ![m] = r]
    BY <1>3 DEF SetRun
  <2>3. run'[m] = r
    BY <2>2, Types DEF SendInvariant
  <2>4. PaidLegs(m)' = PaidLegs(m) /\ Kinds' = Kinds /\ UNCHANGED <<inbox>>
    BY <1>1 DEF server, ui, PaidLegs, Kinds
  <2>5. MountSafe(m)'
    <3>1. RunSafe(m)'
      BY <1>1, <2>1, <2>3, <2>4 DEF SendInvariant, MountSafe, RunSafe
    <3>2. PaidSafe(m)'
      BY <1>1, <2>1, <2>3, <2>4 DEF SendInvariant, MountSafe, PaidSafe
    <3>3. InboxSafe(m)'
      BY <1>1, <2>1, <2>3, <2>4 DEF SendInvariant, MountSafe, InboxSafe
    <3> QED
      BY <3>1, <3>2, <3>3 DEF MountSafe
  <2> QED
    BY <1>1, <1>3, <2>1, <2>2, <2>5, GoOn, Types DEF SendInvariant
<1> QED
  BY <1>2, <1>3 DEF EnsureSession

\* A package, or a server-signed prepare, goes out: the first of this mount that may
\* still be on its way.
LEMMA SubmitKeeps ==
  ASSUME SendInvariant, NEW m \in Mount, NEW r \in RunState, run' = [run EXCEPT ![m] = r],
         run[m].pc \in {"idle", "sign"}, r.pc = "publish", r.reply = "none", r.told = NoResult,
         r.phase = "headers",
         \/ r.prep.request = r.reviewed
         \/ r.leg > 1 /\ r.prep.request = r.text,
         NEW kind \in Kind, NEW stamp \in Stamp, Submit(<<m, r.leg>>, kind, stamp),
         clientSigned /\ kind # "swap" => stamp = "passkey",
         UNCHANGED <<ui, resolvers, pays>>, DialogSafe', dlg' \in Dialog
  PROVE  SendInvariant'
<1> DEFINE q == [id |-> <<m, r.leg>>, kind |-> kind, stamp |-> stamp]
<1>1. /\ run'[m] = r /\ clientSigned' = clientSigned /\ inbox' = inbox \cup {q}
      /\ PaidLegs(m)' = PaidLegs(m)
  BY Types DEF SendInvariant, ui, Submit, PaidLegs
<1>2. q \in Query /\ q.id[1] = m /\ q.id = <<m, r.leg>>
  BY DEF Query, RunState, Id
<1>3. PackagesTapped'
  BY <1>1 DEF SendInvariant, PackagesTapped
<1>4. /\ \A x \in inbox : x.id[1] # m
      /\ PaidLegs(m) = {} /\ \A l \in 1 .. Legs : <<m, l>> \notin resolvers
  <2>1. \A x \in inbox : x.id[1] # m
    BY DEF SendInvariant, MountSafe, InboxSafe
  <2>2. PaidLegs(m) = {}
    BY DEF SendInvariant, MountSafe, PaidSafe
  <2> QED
    BY <2>1, <2>2, NotAwaited
<1>5. MountSafe(m)'
  <2>1. RunSafe(m)'
    BY <1>1, <1>4 DEF RunSafe
  <2>2. PaidSafe(m)'
    BY <1>1, <1>4 DEF PaidSafe, Status, Terminal
  <2>3. InboxSafe(m)'
    BY <1>1, <1>2, <1>4 DEF InboxSafe, Leg
  <2> QED
    BY <2>1, <2>2, <2>3 DEF MountSafe
<1>6. inbox' \subseteq Query /\ resolvers' \subseteq Id
  BY <1>1, <1>2, Types DEF SendInvariant
<1>7. \A x \in inbox' : x \in inbox \/ x.id[1] = m
  BY <1>1, <1>2
<1> QED
  BY <1>3, <1>5, <1>6, <1>7, RunStep

LEMMA SignKeeps ==
  ASSUME SendInvariant, NEW m \in Mount, Sign(m)
  PROVE  SendInvariant'
<1> DEFINE r == [run[m] EXCEPT !.pc = "publish"]
           kind == run[m].prep.kind
<1>1. /\ run[m].pc = "sign" /\ UNCHANGED <<ui, dlg, resolvers, pays>> /\ run[m] \in RunState
      /\ run' = [run EXCEPT ![m] = r] /\ Submit(<<m, run[m].leg>>, kind, Stamper(kind))
  BY Types DEF Sign, SetRun, Leg, SendInvariant
<1>2. /\ r \in RunState /\ r.pc = "publish" /\ r.told = run[m].told /\ r.prep = run[m].prep
      /\ r.reviewed = run[m].reviewed /\ r.leg = run[m].leg /\ r.text = run[m].text
      /\ r.reply = run[m].reply /\ r.phase = run[m].phase
  BY <1>1 DEF RunState, RunPc
<1>3. /\ r.told = NoResult /\ r.reply = "none" /\ kind \in Kinds /\ r.phase = "headers"
      /\ \/ r.prep.request = r.reviewed
         \/ r.leg > 1 /\ r.prep.request = r.text
  BY <1>1, <1>2 DEF SendInvariant, MountSafe, RunSafe
<1>4. /\ kind \in Kind /\ Stamper(kind) \in Stamp
      /\ clientSigned /\ kind # "swap" => Stamper(kind) = "passkey"
  BY <1>3 DEF Kinds, Kind, PackageKind, Stamper, Stamp
<1>5. DialogSafe' /\ dlg' \in Dialog
  BY <1>1, <1>2, DialogBehind
<1> HIDE DEF r, kind
<1> QED
  BY <1>1, <1>2, <1>3, <1>4, <1>5, SubmitKeeps

LEMMA PressSendKeeps ==
  ASSUME SendInvariant, NEW m \in Mount, PressSend(m)
  PROVE  SendInvariant'
<1> DEFINE started == [NoRun EXCEPT !.prep = dlg.prepared, !.reviewed = dlg.prepared.request]
           d == [dlg EXCEPT !.step = "processing", !.prepared = NoPrepare]
<1>1. /\ m = mounted /\ isOpen /\ dlg.step = "review" /\ dlg \in Dialog /\ run[m].pc = "idle"
      /\ UNCHANGED <<ui, resolvers, pays>> /\ dlg' = d /\ dlg.prepared.kind \in Kinds
      /\ dlg.asked = NoRequest
  BY Types DEF PressSend, AtReview, OnScreen, SetDialog, SendInvariant, DialogSafe
<1>2. /\ started \in RunState /\ started.leg = 1 /\ started.prep = dlg.prepared
      /\ started.reviewed = dlg.prepared.request /\ started.reply = "none"
      /\ started.told = NoResult /\ started.pc = "idle" /\ started.phase = "headers"
  BY <1>1, NoRunTyped DEF NoRun, RunState, Dialog, Prepare, PrepareOf
<1>3. d \in Dialog /\ d.step = "processing" /\ d.asked = NoRequest
  BY <1>1 DEF Dialog, Steps, NoPrepare, Prepare, PrepareOf, Input, Kind
<1>4. UNCHANGED <<clientSigned, mounted>> /\ Kinds' = Kinds
  BY <1>1 DEF ui, Kinds
<1>5. ASSUME NEW r \in RunState, run' = [run EXCEPT ![m] = r]
      PROVE  DialogSafe' /\ dlg' \in Dialog
  <2>1. \A t \in Mount : t > mounted => t # m
    BY <1>1 DEF Mount
  <2> QED
    BY <1>1, <1>3, <1>4, <1>5, <2>1, Types DEF SendInvariant, DialogSafe
<1>6. CASE clientSigned
  <2> DEFINE r == [started EXCEPT !.pc = "ensure", !.text = dlg.text]
  <2>1. run' = [run EXCEPT ![m] = r] /\ UNCHANGED inbox
    BY <1>6 DEF PressSend, SetRun
  <2>2. /\ r \in RunState /\ r.pc = "ensure" /\ r.reply = "none" /\ r.told = NoResult
        /\ r.prep = dlg.prepared /\ r.reviewed = dlg.prepared.request /\ r.phase = "headers"
    BY <1>1, <1>2 DEF RunState, RunPc, Dialog
  <2>3. run'[m] = r
    BY <2>1, Types DEF SendInvariant
  <2>4. MountSafe(m)'
    <3>1. PaidLegs(m)' = PaidLegs(m) /\ PaidLegs(m) = {}
      BY <1>1 DEF PaidLegs, SendInvariant, MountSafe, PaidSafe
    <3>2. \A l \in 1 .. Legs : <<m, l>> \notin resolvers'
      BY <1>1, NotAwaited
    <3>3. \A x \in inbox' : x.id[1] # m
      BY <1>1, <2>1 DEF SendInvariant, MountSafe, InboxSafe
    <3>4. RunSafe(m)'
      BY <1>1, <1>4, <2>2, <2>3, <3>2 DEF RunSafe
    <3>5. PaidSafe(m)'
      BY <2>2, <2>3, <3>1 DEF PaidSafe
    <3>6. InboxSafe(m)'
      BY <3>3 DEF InboxSafe
    <3> QED
      BY <3>4, <3>5, <3>6 DEF MountSafe
  <2>5. PackagesTapped'
    BY <1>4, <2>1 DEF SendInvariant, PackagesTapped
  <2>6. inbox' \subseteq Query /\ resolvers' \subseteq Id
    BY <1>1, <2>1, Types DEF SendInvariant
  <2>7. DialogSafe' /\ dlg' \in Dialog
    BY <1>5, <2>1, <2>2
  <2> HIDE DEF r
  <2> QED
    BY <1>1, <2>1, <2>2, <2>4, <2>5, <2>6, <2>7, RunStep
<1>7. CASE ~clientSigned
  <2> DEFINE r == [started EXCEPT !.pc = "publish"]
  <2>1. run' = [run EXCEPT ![m] = r] /\ Submit(<<m, 1>>, "none", "none")
    BY <1>7 DEF PressSend, SetRun
  <2>2. /\ r \in RunState /\ r.pc = "publish" /\ r.reply = "none" /\ r.told = NoResult
        /\ r.prep = dlg.prepared /\ r.reviewed = dlg.prepared.request /\ r.leg = 1
        /\ r.phase = "headers"
    BY <1>2 DEF RunState, RunPc
  <2>3. DialogSafe' /\ dlg' \in Dialog
    BY <1>5, <2>1, <2>2
  <2>4. "none" \in Kind /\ "none" \in Stamp
    BY DEF Kind, Stamp
  <2> HIDE DEF r
  <2> QED
    BY <1>1, <1>7, <2>1, <2>2, <2>3, <2>4, SubmitKeeps
<1> QED
  BY <1>6, <1>7

LEMMA AnswerKeeps ==
  ASSUME SendInvariant, NEW m \in Mount, Answer(m)
  PROVE  SendInvariant'
<1> DEFINE answer == run[m].reply
           goes == NextStep(answer)
<1>1. /\ run[m].pc = "publish" /\ answer # "none" /\ UNCHANGED <<ui, server>> /\ run[m] \in RunState
      /\ run \in [Mount -> RunState] /\ answer \in Reply
  BY Types DEF Answer, Reading, SendInvariant, MountSafe, RunSafe, RunState
<1>2. \A l \in 1 .. Legs : <<m, l>> \notin resolvers
  BY <1>1, NotAwaited
<1>3. /\ PaidLegs(m)' = PaidLegs(m) /\ Leg(m) = <<m, run[m].leg>> /\ run[m].told = NoResult
      /\ UNCHANGED <<inbox, pays>>
  BY <1>1 DEF server, PaidLegs, Leg, SendInvariant, MountSafe, RunSafe
<1>4. \A x \in inbox : x.id[1] # m
  BY <1>1 DEF SendInvariant, MountSafe, InboxSafe
<1>5. CASE goes = "throw" /\ Throw(m) /\ UNCHANGED resolvers
  BY <1>1, <1>5, ThrowKeeps
<1>6. CASE goes = "leave" /\ answer \in Terminal /\ Tell(m, Report(answer)) /\ UNCHANGED resolvers
  <2>1. Report(answer) \in Told
    BY <1>6, Results DEF Terminal
  <2> QED
    BY <1>1, <1>2, <1>6, <2>1, TellKeeps
<1>7. CASE /\ goes = "reprepare" /\ UNCHANGED <<dlg, resolvers>>
           /\ SetRun(m, [run[m] EXCEPT !.pc = "reprepare", !.phase = "headers",
                                       !.reply = "none"])
  <2> DEFINE r == [run[m] EXCEPT !.pc = "reprepare", !.phase = "headers", !.reply = "none"]
  <2>1. r \in RunState /\ r.pc = "reprepare" /\ r.reply = "none" /\ r.told = run[m].told
    BY <1>1 DEF RunState, RunPc, Reply, CallPhase
  <2>2. run' = [run EXCEPT ![m] = r] /\ run'[m] = r
    BY <1>1, <1>7 DEF SetRun
  <2>3. answer = "swap"
    BY <1>7 DEF NextStep
  <2>4. PaidLegs(m) = {}
    BY <1>1, <2>3 DEF SendInvariant, MountSafe, PaidSafe
  <2>5. MountSafe(m)'
    BY <1>2, <1>3, <1>4, <1>7, <2>1, <2>2, <2>4 DEF MountSafe, RunSafe, PaidSafe, InboxSafe
  <2> HIDE DEF r
  <2> QED
    BY <1>1, <1>7, <2>1, <2>2, <2>5, GoOn, Types DEF SendInvariant
<1>8. CASE /\ goes = "leave" /\ answer \notin Terminal /\ UNCHANGED dlg
           /\ SetRun(m, [NoRun EXCEPT !.pc = "waiting", !.leg = run[m].leg])
           /\ resolvers' = resolvers \cup {Leg(m)}
  <2> DEFINE r == [NoRun EXCEPT !.pc = "waiting", !.leg = run[m].leg]
  <2>1. /\ r \in RunState /\ r.pc = "waiting" /\ r.reply = "none" /\ r.told = NoResult
        /\ r.leg = run[m].leg /\ r.leg \in 1 .. Legs /\ r.phase = "headers"
    BY <1>1, NoRunTyped DEF NoRun, RunState, RunPc
  <2>2. run' = [run EXCEPT ![m] = r] /\ run'[m] = r
    BY <1>1, <1>8 DEF SetRun
  <2>3. answer = "pending"
    BY <1>1, <1>8 DEF NextStep, Reply, PublishAnswer, Terminal, Status
  <2>4. run[m].leg \in PaidLegs(m) /\ \A l, k \in PaidLegs(m) : l = k
    BY <1>1, <2>3 DEF SendInvariant, MountSafe, PaidSafe, Status
  <2>5. /\ resolvers' \subseteq Id /\ \A i \in resolvers' : i \in resolvers \/ i[1] = m
        /\ \A l \in 1 .. Legs : <<m, l>> \in resolvers' => l = run[m].leg
    BY <1>2, <1>3, <1>8, <2>1, Types DEF SendInvariant, Id
  <2>6. MountSafe(m)'
    BY <1>3, <1>4, <2>1, <2>2, <2>4, <2>5 DEF MountSafe, RunSafe, PaidSafe, InboxSafe
  <2> HIDE DEF r
  <2> QED
    BY <1>1, <1>8, <2>1, <2>2, <2>5, <2>6, GoOn
<1> QED
  BY <1>5, <1>6, <1>7, <1>8 DEF Answer

LEMMA RePrepareKeeps ==
  ASSUME SendInvariant, NEW m \in Mount, RePrepareEnds(m)
  PROVE  SendInvariant'
<1>1. /\ run[m].pc = "reprepare" /\ UNCHANGED <<ui, resolvers, server>> /\ run[m] \in RunState
      /\ run \in [Mount -> RunState] /\ Legs \in Nat
  BY Types DEF RePrepareEnds, SendInvariant
<1>2. CASE Throw(m)
  BY <1>1, <1>2, ThrowKeeps
<1>3. ASSUME NEW k \in Kinds, run[m].leg < Legs, UNCHANGED dlg,
             SetRun(m, [run[m] EXCEPT !.pc = "sign", !.phase = "headers", !.leg = @ + 1,
                                      !.prep = RePrepared(m, k)])
      PROVE  SendInvariant'
  <2> DEFINE r == [run[m] EXCEPT !.pc = "sign", !.phase = "headers", !.leg = @ + 1,
                                 !.prep = RePrepared(m, k)]
  <2>1. RePrepared(m, k) \in Prepare /\ RePrepared(m, k).kind = k
        /\ RePrepared(m, k).request = run[m].text
    BY <1>1, <1>3 DEF RePrepared, Prepare, PrepareOf, RunState, Kinds, Kind, PackageKind
  <2>2. /\ r \in RunState /\ r.pc = "sign" /\ r.prep = RePrepared(m, k) /\ r.leg = run[m].leg + 1
        /\ r.text = run[m].text /\ r.told = run[m].told /\ r.reply = run[m].reply /\ r.leg > 1
        /\ r.phase = "headers"
    <3>1. run[m].leg \in 1 .. Legs /\ run[m].leg + 1 \in 1 .. Legs /\ run[m].leg + 1 > 1
      BY <1>1, <1>3 DEF RunState
    <3>2. "sign" \in RunPc /\ "headers" \in CallPhase
      BY DEF RunPc, CallPhase
    <3> QED
      BY <1>1, <2>1, <3>1, <3>2 DEF RunState
  <2>3. run' = [run EXCEPT ![m] = r] /\ run'[m] = r
    BY <1>1, <1>3 DEF SetRun
  <2>4. /\ PaidLegs(m)' = {} /\ Kinds' = Kinds /\ \A x \in inbox' : x.id[1] # m
        /\ \A l \in 1 .. Legs : <<m, l>> \notin resolvers'
    BY <1>1, NotAwaited
      DEF server, ui, PaidLegs, Kinds, SendInvariant, MountSafe, PaidSafe, InboxSafe
  <2>5. r.told = NoResult /\ r.reply = "none"
    BY <1>1, <2>2 DEF SendInvariant, MountSafe, RunSafe
  <2>6. MountSafe(m)'
    <3>1. RunSafe(m)'
      <4>1. r.prep.kind \in Kinds' /\ r.prep.request = r.text
        BY <1>3, <2>1, <2>2, <2>4
      <4> HIDE DEF r
      <4> QED
        BY <2>2, <2>3, <2>4, <2>5, <4>1 DEF RunSafe
    <3>2. PaidSafe(m)'
      <4> HIDE DEF r
      <4> QED
        BY <2>2, <2>3, <2>4, <2>5 DEF PaidSafe
    <3>3. InboxSafe(m)'
      BY <2>4 DEF InboxSafe
    <3> QED
      BY <3>1, <3>2, <3>3 DEF MountSafe
  <2> HIDE DEF r
  <2> QED
    BY <1>1, <1>3, <2>2, <2>3, <2>6, GoOn, Types DEF SendInvariant
<1> QED
  BY <1>2, <1>3 DEF RePrepareEnds, RoundsLeft

LEMMA WaitingKeeps ==
  ASSUME SendInvariant, NEW m \in Mount, Event(m) \/ AwaitTimer(m) \/ GetPaymentEnds(m)
  PROVE  SendInvariant'
<1>1. /\ UNCHANGED <<ui, server>> /\ run[m] \in RunState /\ run \in [Mount -> RunState]
      /\ Leg(m) = <<m, run[m].leg>> /\ run[m].leg \in 1 .. Legs /\ pays \in [Id -> Payment \cup {NoPayment}]
      /\ Leg(m) \in Id
  BY Types DEF Event, AwaitTimer, GetPaymentEnds, SendInvariant, Leg, RunState, Id
<1>2. \A l \in 1 .. Legs : <<m, l>> \in resolvers => run[m].pc = "waiting" /\ l = run[m].leg
  BY DEF SendInvariant, MountSafe, RunSafe
<1>3. \A l \in 1 .. Legs : <<m, l>> \notin resolvers \ {Leg(m)}
  BY <1>1, <1>2
<1>4. CASE Event(m)
  <2>1. run[m].pc = "waiting"
    BY <1>1, <1>2, <1>4 DEF Event
  <2>2. Report(pays[Leg(m)].status) \in Told
    BY <1>1, <1>4, Results DEF Event, Terminal
  <2> QED
    BY <1>1, <1>3, <1>4, <2>1, <2>2, TellKeeps DEF Event
<1>5. CASE AwaitTimer(m)
  <2> DEFINE r == [run[m] EXCEPT !.pc = "asking"]
  <2>1. /\ r \in RunState /\ r.pc = "asking" /\ r.leg = run[m].leg /\ r.told = run[m].told
        /\ r.reply = run[m].reply
    BY <1>1 DEF RunState, RunPc
  <2>2. /\ run' = [run EXCEPT ![m] = r] /\ run'[m] = r /\ run[m].pc = "waiting" /\ UNCHANGED dlg
        /\ resolvers' = resolvers \ {Leg(m)}
    BY <1>1, <1>5 DEF AwaitTimer, SetRun
  <2>3. /\ PaidLegs(m)' = PaidLegs(m) /\ \A l, k \in PaidLegs(m) : l = k
        /\ run[m].leg \in PaidLegs(m) /\ \A x \in inbox' : x.id[1] # m
        /\ run[m].told = NoResult /\ run[m].reply = "none"
    BY <1>1, <2>2 DEF server, PaidLegs, SendInvariant, MountSafe, RunSafe, PaidSafe, InboxSafe
  <2>4. MountSafe(m)'
    BY <1>3, <2>1, <2>2, <2>3 DEF MountSafe, RunSafe, PaidSafe, InboxSafe
  <2>5. resolvers' \subseteq Id
    BY <2>2, Types DEF SendInvariant
  <2> HIDE DEF r
  <2> QED
    BY <1>1, <2>1, <2>2, <2>4, <2>5, GoOn
<1>6. CASE GetPaymentEnds(m)
  <2>1. PICK status \in {"pending", pays[Leg(m)].status} :
          Tell(m, Report(status)) /\ (status = "pending" \/ pays[Leg(m)] # NoPayment)
    BY <1>6 DEF GetPaymentEnds
  <2>2. Report(status) \in Told
    BY <1>1, <2>1, Results DEF Payment, Status
  <2> QED
    BY <1>1, <1>2, <1>6, <2>1, <2>2, TellKeeps DEF GetPaymentEnds
<1> QED
  BY <1>4, <1>5, <1>6

LEMMA SignThrowsKeeps ==
  ASSUME SendInvariant, NEW m \in Mount, SignThrows(m)
  PROVE  SendInvariant'
BY ThrowKeeps DEF SignThrows

\* A response's headers arrive.
LEMMA HeadersKeeps ==
  ASSUME SendInvariant, NEW m \in Mount, Headers(m)
  PROVE  SendInvariant'
<1> DEFINE r == [run[m] EXCEPT !.phase = "body"]
<1>1. /\ UNCHANGED <<ui, dlg, resolvers, server>> /\ run[m] \in RunState
      /\ run \in [Mount -> RunState] /\ run' = [run EXCEPT ![m] = r]
      /\ run[m].pc \in {"publish", "reprepare", "asking"}
      /\ run[m].pc = "publish" => run[m].reply # "none"
  BY Types DEF Headers, Calling, SetRun, SendInvariant
<1>2. /\ r \in RunState /\ r.pc = run[m].pc /\ r.told = run[m].told /\ r.prep = run[m].prep
      /\ r.reviewed = run[m].reviewed /\ r.leg = run[m].leg /\ r.text = run[m].text
      /\ r.reply = run[m].reply
  BY <1>1 DEF RunState, CallPhase
<1>3. run'[m] = r
  BY <1>1
<1>4. PaidLegs(m)' = PaidLegs(m) /\ Kinds' = Kinds /\ UNCHANGED <<inbox, pays, resolvers>>
  BY <1>1 DEF server, ui, PaidLegs, Kinds
<1> HIDE DEF r
<1>5. RunSafe(m)'
  BY <1>1, <1>2, <1>3, <1>4 DEF SendInvariant, MountSafe, RunSafe
<1>6. PaidSafe(m)'
  BY <1>1, <1>2, <1>3, <1>4 DEF SendInvariant, MountSafe, PaidSafe, Leg
<1>7. InboxSafe(m)'
  BY <1>1, <1>2, <1>3, <1>4 DEF SendInvariant, MountSafe, InboxSafe, Leg
<1>8. MountSafe(m)'
  BY <1>5, <1>6, <1>7 DEF MountSafe
<1> QED
  BY <1>1, <1>2, <1>8, GoOn, Types DEF SendInvariant

\* The timer aborts a call without a response.
LEMMA AbortKeeps ==
  ASSUME SendInvariant, NEW m \in Mount, Abort(m)
  PROVE  SendInvariant'
<1>1. /\ run[m].pc \in {"publish", "reprepare", "asking"}
      /\ Tell(m, Report("pending")) \/ Throw(m)
      /\ UNCHANGED <<ui, resolvers, server>>
  BY DEF Abort, Calling
<1>2. Report("pending") \in Told
  BY Results DEF Status
<1> QED
  BY <1>1, <1>2, NotAwaited, TellKeeps, ThrowKeeps

\* The handler acts on a submitted prepare.
LEMMA ServeKeeps ==
  ASSUME SendInvariant, NEW q \in inbox, Serve(q)
  PROVE  SendInvariant'
<1> DEFINE m == q.id[1]
           l == q.id[2]
<1>1. PICK effect \in Effects(q), e \in CallEnd :
        /\ e.served = (effect # "refused")
        /\ pays' = IF effect \in Status
                   THEN [pays EXCEPT ![q.id] = [stamp |-> q.stamp, status |-> effect]]
                   ELSE pays
        /\ run' = [t \in Mount |->
                      IF run[t].pc = "publish" /\ Leg(t) = q.id
                      THEN [run[t] EXCEPT !.reply = IF e.seen = "answer" THEN effect ELSE "error"]
                      ELSE run[t]]
  BY DEF Serve
<1> DEFINE reply == IF e.seen = "answer" THEN effect ELSE "error"
<1>2. /\ q \in Query /\ m \in Mount /\ l \in 1 .. Legs /\ q.id = <<m, l>> /\ q.id \in Id
      /\ UNCHANGED <<ui, dlg, resolvers>> /\ inbox' = inbox \ {q} /\ clientSigned' = clientSigned
      /\ run \in [Mount -> RunState] /\ pays \in [Id -> Payment \cup {NoPayment}]
      /\ Kinds' = Kinds /\ mounted' = mounted /\ isOpen' = isOpen
  BY Types DEF SendInvariant, Serve, Query, Id, ui, Kinds
<1>3. /\ reply \in Reply \ {"none"}
      /\ reply = "swap" => effect \notin Status
      /\ reply \in Status => effect = reply /\ effect \in Status
  BY <1>1 DEF Effects, CallEnd, Reply, PublishAnswer, Status
<1>4. /\ effect \in Status => q.kind # "swap" /\ [stamp |-> q.stamp, status |-> effect] \in Payment
      /\ NoPayment \notin Payment
  BY <1>2, Types DEF Effects, Status, Query, Payment, SendInvariant
<1> HIDE DEF reply
<1>5. /\ PaidLegs(m) = {}
      /\ run[m].pc = "done" \/ (run[m].pc = "publish" /\ q.id = Leg(m) /\ run[m].reply = "none")
      /\ \A x \in inbox' : x.id[1] # m
  BY <1>2 DEF SendInvariant, MountSafe, InboxSafe
<1>6. ASSUME NEW t \in Mount, t # m
      PROVE  run'[t] = run[t] /\ MountSafe(t)'
  <2>1. run'[t] = run[t]
    BY <1>1, <1>2, <1>6 DEF Leg
  <2>2. \A k \in 1 .. Legs : pays'[<<t, k>>] = pays[<<t, k>>]
    BY <1>1, <1>2, <1>6 DEF Id
  <2>3. \A x \in inbox' : x.id[1] = t => x \in inbox
    BY <1>2
  <2> QED
    BY <1>2, <2>1, <2>2, <2>3, OtherMount
<1>7. /\ run'[m].pc = run[m].pc /\ run'[m].leg = run[m].leg /\ run'[m].told = run[m].told
      /\ run'[m].prep = run[m].prep /\ run'[m].text = run[m].text
      /\ run'[m].reviewed = run[m].reviewed /\ run'[m].phase = run[m].phase
      /\ run'[m] \in RunState
      /\ run[m].pc = "done" => run'[m].reply = run[m].reply
      /\ run[m].pc = "publish" => run'[m].reply = reply
  <2>1. CASE run[m].pc = "done"
    BY <1>1, <1>2, <2>1
  <2>2. CASE run[m].pc = "publish"
    <3>1. run'[m] = [run[m] EXCEPT !.reply = reply]
      BY <1>1, <1>2, <1>5, <2>2 DEF reply
    <3>2. run[m] \in RunState /\ reply \in Reply
      BY <1>2, <1>3
    <3> HIDE DEF m
    <3> QED
      BY <2>2, <3>1, <3>2 DEF RunState
  <2> QED
    BY <1>5, <2>1, <2>2
<1>8. /\ effect \notin Status => PaidLegs(m)' = {}
      /\ effect \in Status => PaidLegs(m)' = {l} /\ pays'[<<m, l>>].status = effect
  <2>1. CASE effect \notin Status
    BY <1>1, <1>5, <2>1 DEF PaidLegs
  <2>2. CASE effect \in Status
    <3>1. pays'[<<m, l>>] = [stamp |-> q.stamp, status |-> effect]
      BY <1>1, <1>2, <2>2
    <3>2. \A k \in 1 .. Legs : k # l => pays'[<<m, k>>] = pays[<<m, k>>]
      BY <1>1, <1>2, <2>2 DEF Id
    <3>3. PaidLegs(m)' = {l}
      BY <1>2, <1>4, <1>5, <2>2, <3>1, <3>2 DEF PaidLegs
    <3> QED
      BY <2>2, <3>1, <3>3
  <2> QED
    BY <2>1, <2>2
<1>9. MountSafe(m)'
  <2>1. RunSafe(m)'
    BY <1>2, <1>3, <1>5, <1>7 DEF SendInvariant, MountSafe, RunSafe
  <2>2. PaidSafe(m)'
    <3>1. CASE run[m].pc = "done"
      BY <1>7, <1>8, <3>1 DEF PaidSafe
    <3>2. CASE run[m].pc = "publish"
      <4>1. Leg(m)' = <<m, l>> /\ run'[m].leg = l
        BY <1>2, <1>5, <1>7, <3>2 DEF Leg
      <4>2. \A j, k \in PaidLegs(m)' : j = k
        BY <1>8
      <4>3. run'[m].pc = "publish" /\ run'[m].reply = reply
        BY <1>7, <3>2
      <4>4. reply \in {"none", "swap"} => PaidLegs(m)' = {}
        BY <1>3, <1>8
      <4>5. reply \in Status => l \in PaidLegs(m)' /\ pays'[<<m, l>>].status = reply
        BY <1>3, <1>8
      <4> HIDE DEF m, l
      <4> QED
        BY <4>1, <4>2, <4>3, <4>4, <4>5 DEF PaidSafe, Terminal
    <3> QED
      BY <1>5, <3>1, <3>2
  <2>3. InboxSafe(m)'
    BY <1>5 DEF InboxSafe
  <2> QED
    BY <2>1, <2>2, <2>3 DEF MountSafe
<1>10. TypeOK'
  <2>1. pays' \in [Id -> Payment \cup {NoPayment}]
    BY <1>1, <1>2, <1>4
  <2>2. run' \in [Mount -> RunState]
    <3>1. \A t \in Mount : run'[t] \in RunState
      BY <1>2, <1>6, <1>7
    <3> QED
      BY <1>1, <3>1
  <2> QED
    BY <1>2, <2>1, <2>2 DEF SendInvariant, TypeOK, RunState, Reply, ui
<1>11. DialogSafe'
  <2>1. \A t \in Mount : run'[t].pc = run[t].pc
    BY <1>6, <1>7
  <2> QED
    BY <1>2, <2>1 DEF SendInvariant, DialogSafe
<1>12. PackagesTapped'
  BY <1>2 DEF SendInvariant, PackagesTapped
<1>13. EveryPaymentTapped'
  BY <1>1, <1>2, <1>4 DEF SendInvariant, PackagesTapped, EveryPaymentTapped
<1>14. \A t \in Mount : MountSafe(t)'
  BY <1>6, <1>9
<1> QED
  BY <1>10, <1>11, <1>12, <1>13, <1>14 DEF SendInvariant

\* The network settles a payment.
LEMMA SettleKeeps ==
  ASSUME SendInvariant, NEW i \in Id, Settle(i)
  PROVE  /\ SendInvariant'
         /\ \A m \in Mount : PaidLegs(m)' = PaidLegs(m)
<1>1. PICK s \in Terminal : pays' = [pays EXCEPT ![i].status = s]
  BY DEF Settle
<1>2. /\ UNCHANGED <<ui, dlg, run, resolvers, inbox>> /\ pays[i] # NoPayment
      /\ pays[i].status = "pending" /\ UNCHANGED <<clientSigned, mounted, isOpen>> /\ Kinds' = Kinds
      /\ pays \in [Id -> Payment \cup {NoPayment}] /\ NoPayment \notin Payment /\ pays[i] \in Payment
      /\ s \in Status \ {"pending"}
  BY Types DEF Settle, ui, SendInvariant, Kinds, Terminal
<1>3. /\ pays'[i] \in Payment /\ pays'[i].stamp = pays[i].stamp
      /\ \A k \in Id : k # i => pays'[k] = pays[k]
      /\ pays' \in [Id -> Payment \cup {NoPayment}]
  BY <1>1, <1>2 DEF Payment
<1>4. ASSUME NEW m \in Mount
      PROVE  PaidLegs(m)' = PaidLegs(m)
  BY <1>2, <1>3 DEF PaidLegs, Id
<1>5. ASSUME NEW m \in Mount
      PROVE  MountSafe(m)'
  <2>1. MountSafe(m) /\ Leg(m)' = Leg(m) /\ Leg(m) \in Id
    BY <1>2, Types DEF SendInvariant, Leg, Id, RunState
  <2>2. PaidSafe(m)'
    BY <1>2, <1>3, <1>4, <2>1 DEF MountSafe, PaidSafe, Terminal
  <2>3. RunSafe(m)' /\ InboxSafe(m)'
    BY <1>2, <1>4, <2>1 DEF MountSafe, RunSafe, InboxSafe, Leg
  <2> QED
    BY <2>2, <2>3 DEF MountSafe
<1>6. TypeOK' /\ DialogSafe' /\ PackagesTapped'
  BY <1>2, <1>3 DEF SendInvariant, TypeOK, DialogSafe, PackagesTapped
<1>7. EveryPaymentTapped'
  BY <1>2, <1>3 DEF SendInvariant, EveryPaymentTapped
<1> QED
  BY <1>4, <1>5, <1>6, <1>7 DEF SendInvariant

\* The steps of the dialog before Send.
LEMMA UserKeeps ==
  ASSUME SendInvariant, NEW m \in Mount,
         \/ \E r \in Input : Type(m, r)
         \/ \E r \in Request : PasteLands(m, r)
         \/ Continue(m) \/ Back(m) \/ PrepareEnds(m)
  PROVE  SendInvariant'
<1>1. /\ m = mounted /\ UNCHANGED <<ui, run, resolvers, server>> /\ dlg \in Dialog
      /\ NoRequest \in Input /\ Request \subseteq Input
  BY Types DEF Type, PasteLands, Continue, Back, PrepareEnds, AtInput, AtReview, OnScreen,
               SendInvariant, Input
<1>2. DialogSafe
  BY DEF SendInvariant
<1>3. CASE \E r \in Input : Type(m, r)
  <2>1. PICK r \in Input : Type(m, r)
    BY <1>3
  <2> DEFINE d == [dlg EXCEPT !.text = r]
  <2>2. d \in Dialog /\ d.step = dlg.step /\ d.asked = dlg.asked /\ d.prepared = dlg.prepared
    BY <1>1 DEF Dialog
  <2>3. dlg' = d
    BY <2>1 DEF Type, AtInput, SetDialog
  <2> HIDE DEF d
  <2> QED
    BY <1>1, <1>2, <2>2, <2>3, DialogOnly DEF DialogSafe
<1>4. CASE dlg' = dlg
  BY <1>1, <1>2, <1>4, DialogOnly DEF DialogSafe
<1>5. CASE \E r \in Request : PasteLands(m, r) /\ dlg' # dlg
  <2>1. PICK r \in Request : dlg' = [dlg EXCEPT !.text = r]
    BY <1>5 DEF PasteLands, SetDialog
  <2> DEFINE d == [dlg EXCEPT !.text = r]
  <2>2. d \in Dialog /\ d.step = dlg.step /\ d.asked = dlg.asked /\ d.prepared = dlg.prepared
    BY <1>1 DEF Dialog
  <2>3. dlg' = d
    BY <2>1
  <2> HIDE DEF d
  <2> QED
    BY <1>1, <1>2, <2>2, <2>3, DialogOnly DEF DialogSafe
<1>6. CASE Continue(m)
  <2> DEFINE d == [dlg EXCEPT !.asked = dlg.text]
  <2>1. /\ d \in Dialog /\ d.step = dlg.step /\ d.prepared = dlg.prepared
        /\ dlg.step = "input"
    BY <1>1, <1>6 DEF Dialog, Continue, AtInput
  <2>2. dlg' = d
    BY <1>6 DEF Continue, AtInput, SetDialog
  <2> HIDE DEF d
  <2> QED
    BY <1>1, <1>2, <2>1, <2>2, DialogOnly DEF DialogSafe
<1>7. CASE Back(m)
  <2> DEFINE d == [dlg EXCEPT !.step = "input", !.prepared = NoPrepare]
  <2>1. d \in Dialog /\ d.step = "input" /\ d.asked = dlg.asked /\ dlg.step = "review"
    BY <1>1, <1>7 DEF Dialog, Steps, Back, AtReview, NoPrepare, Prepare, PrepareOf, Kind
  <2>2. dlg' = d
    BY <1>7 DEF Back, AtReview, SetDialog
  <2> HIDE DEF d
  <2> QED
    BY <1>1, <1>2, <2>1, <2>2, DialogOnly DEF DialogSafe
<1>8. CASE PrepareEnds(m) /\ dlg' # dlg
  <2>1. dlg.step = "input"
    BY <1>2, <1>8 DEF DialogSafe, PrepareEnds
  <2>2. PICK p \in {NoPrepare} \cup {[request |-> dlg.asked, kind |-> k] : k \in Kinds} :
          \/ dlg' = [dlg EXCEPT !.asked = NoRequest, !.step = "review", !.prepared = p]
          \/ dlg' = [dlg EXCEPT !.asked = NoRequest]
    BY <1>8 DEF PrepareEnds, SetDialog, CallEnd
  <2>3. p \in Prepare /\ (p = NoPrepare \/ p.kind \in Kinds)
    BY <1>1, <2>2 DEF Kinds, Kind, PackageKind, Dialog, Prepare, PrepareOf, NoPrepare
  <2>4. CASE dlg' = [dlg EXCEPT !.asked = NoRequest]
    <3> DEFINE d == [dlg EXCEPT !.asked = NoRequest]
    <3>1. d \in Dialog /\ d.step = dlg.step /\ d.asked = NoRequest /\ d.prepared = dlg.prepared
      BY <1>1 DEF Dialog
    <3> HIDE DEF d
    <3> QED
      BY <1>1, <1>2, <2>4, <3>1, DialogOnly DEF DialogSafe, d
  <2>5. CASE dlg' = [dlg EXCEPT !.asked = NoRequest, !.step = "review", !.prepared = p]
    <3> DEFINE d == [dlg EXCEPT !.asked = NoRequest, !.step = "review", !.prepared = p]
    <3>1. d \in Dialog /\ d.step = "review" /\ d.asked = NoRequest /\ d.prepared = p
      BY <1>1, <2>3 DEF Dialog, Steps
    <3>2. dlg' = d
      BY <2>5
    <3> HIDE DEF d
    <3> QED
      BY <1>1, <1>2, <2>1, <2>3, <3>1, <3>2, DialogOnly
  <2> QED
    BY <2>2, <2>4, <2>5
<1> QED
  BY <1>3, <1>4, <1>5, <1>6, <1>7, <1>8

\* The page opens a fresh mount, or closes the sheet.
LEMMA PageKeeps ==
  ASSUME SendInvariant, Open \/ Close
  PROVE  SendInvariant'
<1>1. UNCHANGED <<clientSigned, run, resolvers, inbox, pays>> /\ mounted \in 0 .. Opens
  BY Types DEF Open, Close, SendInvariant
<1>2. \A m \in Mount : MountSafe(m)'
  BY <1>1, OtherMount
<1>3. PackagesTapped' /\ EveryPaymentTapped'
  BY <1>1 DEF SendInvariant, PackagesTapped, EveryPaymentTapped
<1>4. FreshDialog \in Dialog /\ FreshDialog.step = "input" /\ FreshDialog.asked = NoRequest
  BY DEF FreshDialog, Dialog, Steps, Input, NoPrepare, Prepare, PrepareOf, Kind
<1>5. CASE Open
  <2>1. /\ mounted' = mounted + 1 /\ mounted < Opens /\ dlg' = FreshDialog /\ isOpen' = TRUE
        /\ Opens \in Nat
    BY <1>5, SendDialogAssumption DEF Open
  <2>2. /\ mounted' \in 0 .. Opens /\ mounted' \in Mount /\ mounted' > mounted
        /\ \A t \in Mount : t > mounted' => t > mounted
    BY <1>1, <2>1 DEF Mount
  <2>3. TypeOK'
    BY <1>1, <1>4, <2>1, <2>2 DEF SendInvariant, TypeOK, Dialog
  <2>4. DialogSafe'
    BY <1>1, <1>4, <2>1, <2>2 DEF SendInvariant, DialogSafe
  <2> QED
    BY <1>2, <1>3, <2>3, <2>4 DEF SendInvariant
<1>6. CASE Close
  <2>1. isOpen' = FALSE /\ dlg' = FreshDialog /\ UNCHANGED mounted
    BY <1>6 DEF Close
  <2>2. TypeOK'
    BY <1>1, <1>4, <2>1 DEF SendInvariant, TypeOK, Dialog
  <2>3. DialogSafe'
    BY <1>1, <1>4, <2>1 DEF SendInvariant, DialogSafe
  <2> QED
    BY <1>2, <1>3, <2>2, <2>3 DEF SendInvariant
<1> QED
  BY <1>5, <1>6

LEMMA SendStepKeeps ==
  ASSUME SendInvariant, [Next]_vars
  PROVE  SendInvariant'
<1>1. CASE Open \/ Close
  BY <1>1, PageKeeps
<1>2. ASSUME NEW m \in Mount, UserStep(m)
      PROVE  SendInvariant'
  BY <1>2, UserKeeps, PressSendKeeps DEF UserStep
<1>3. ASSUME NEW m \in Mount, SendStep(m)
      PROVE  SendInvariant'
  BY <1>3, UserKeeps, EnsureKeeps, SignKeeps, SignThrowsKeeps, HeadersKeeps, AbortKeeps,
     AnswerKeeps, RePrepareKeeps, WaitingKeeps
    DEF SendStep
<1>4. CASE ServerStep
  BY <1>4, ServeKeeps, SettleKeeps DEF ServerStep
<1>5. CASE UNCHANGED vars
  <2>1. UNCHANGED <<clientSigned, mounted, isOpen, dlg, run, resolvers, inbox, pays>>
    BY <1>5 DEF vars
  <2>2. \A m \in Mount : MountSafe(m)'
    BY <2>1, OtherMount
  <2> QED
    BY <2>1, <2>2 DEF SendInvariant, TypeOK, DialogSafe, PackagesTapped, EveryPaymentTapped, Kinds
<1> QED
  BY <1>1, <1>2, <1>3, <1>4, <1>5 DEF Next

LEMMA SendBegins ==
  ASSUME Init
  PROVE  SendInvariant
<1>1. /\ \A m \in Mount : run[m] = NoRun /\ PaidLegs(m) = {}
      /\ inbox = {} /\ resolvers = {} /\ \A i \in Id : pays[i] = NoPayment
  BY DEF Init, PaidLegs, Id
<1>2. TypeOK
  <2>1. FreshDialog \in Dialog
    BY DEF FreshDialog, Dialog, Steps, Input, NoPrepare, Prepare, PrepareOf, Kind
  <2>2. run \in [Mount -> RunState]
    BY NoRunTyped DEF Init
  <2>3. 0 \in 0 .. Opens /\ FALSE \in BOOLEAN
    BY SendDialogAssumption
  <2>4. pays \in [Id -> Payment \cup {NoPayment}]
    BY DEF Init
  <2> QED
    BY <1>1, <2>1, <2>2, <2>3, <2>4 DEF Init, TypeOK, Dialog, RunState, Reply
<1>3. DialogSafe
  BY <1>1 DEF Init, DialogSafe, FreshDialog, NoRun
<1>4. ASSUME NEW m \in Mount
      PROVE  MountSafe(m)
  BY <1>1 DEF MountSafe, RunSafe, PaidSafe, InboxSafe, NoRun
<1>5. PackagesTapped /\ EveryPaymentTapped
  BY <1>1 DEF PackagesTapped, EveryPaymentTapped
<1> QED
  BY <1>2, <1>3, <1>4, <1>5 DEF SendInvariant

\* The inductive invariant holds: what doSend knows at each await of its loop is
\* true of the payments the server made.
THEOREM SendHolds == Spec => []SendInvariant
<1>1. Init => SendInvariant
  BY SendBegins
<1>2. SendInvariant /\ [Next]_vars => SendInvariant'
  BY SendStepKeeps
<1> QED
  BY <1>1, <1>2, PTL DEF Spec

\* Type correctness of the dialog, of every doSend and of the server.
THEOREM SendDialogTypeOK == Spec => []TypeOK
<1>1. SendInvariant => TypeOK
  BY DEF SendInvariant
<1> QED
  BY <1>1, SendHolds, PTL

\* In a client-signed deployment every payment bears a stamp of the passkey,
\* through any number of swaps (SendDialog.tsx 126-131).
THEOREM PaymentsAreTapped == Spec => []EveryPaymentTapped
<1>1. SendInvariant => EveryPaymentTapped
  BY DEF SendInvariant
<1> QED
  BY <1>1, SendHolds, PTL

\* doSend submits the reviewed request, or after a swap the text of the moment Send
\* was pressed, never a later one (SendDialog.tsx 132-160).
THEOREM SubmitsAsSeen == Spec => []SubmitsReviewedOrTyped
<1>1. SendInvariant => SubmitsReviewedOrTyped
  BY DEF SendInvariant, MountSafe, RunSafe, SubmitsReviewedOrTyped, Submitted
<1> QED
  BY <1>1, SendHolds, PTL

-----------------------------------------------------------------------------
(* The refinement of IdealSend.  Each step of the program is one of its steps   *)
(* or leaves what it speaks of alone.                                           *)

\* The money of a mount, from the legs it paid with.
LEMMA OnePaid ==
  ASSUME NEW P, NEW l \in P, \A k \in P : k = l
  PROVE  P # {} /\ Cardinality(P) = 1 /\ (CHOOSE k \in P : TRUE) = l
<1>1. P = {l}
  OBVIOUS
<1>2. (CHOOSE k \in P : TRUE) \in P
  OBVIOUS
<1> QED
  BY <1>1, <1>2, FS_Singleton

LEMMA MoneyIs ==
  ASSUME SendInvariant, NEW m \in Mount
  PROVE  /\ PaidLegs(m) = {} => MoneyOf(m) = "none"
         /\ \A l \in PaidLegs(m) : MoneyOf(m) = pays[<<m, l>>].status /\ MoneyOf(m) \in Status
<1>1. PaidLegs(m) = {} => MoneyOf(m) = "none"
  BY FS_EmptySet DEF MoneyOf
<1>2. ASSUME NEW l \in PaidLegs(m)
      PROVE  MoneyOf(m) = pays[<<m, l>>].status /\ MoneyOf(m) \in Status
  <2>1. \A k \in PaidLegs(m) : k = l
    BY DEF SendInvariant, MountSafe, PaidSafe
  <2>2. /\ PaidLegs(m) # {} /\ Cardinality(PaidLegs(m)) = 1
        /\ (CHOOSE k \in PaidLegs(m) : TRUE) = l
    BY <2>1, OnePaid
  <2>3. MoneyOf(m) = pays[<<m, l>>].status
    BY <2>2 DEF MoneyOf
  <2>4. pays[<<m, l>>] \in Payment
    BY Types DEF SendInvariant, PaidLegs, Id
  <2> QED
    BY <2>3, <2>4 DEF Payment
<1> QED
  BY <1>1, <1>2

\* The same after a step.
LEMMA MoneyIsThen ==
  ASSUME SendInvariant', NEW m \in Mount
  PROVE  /\ PaidLegs(m)' = {} => MoneyOf(m)' = "none"
         /\ \A l \in PaidLegs(m)' : MoneyOf(m)' = pays'[<<m, l>>].status
<1>1. PaidLegs(m)' = {} => MoneyOf(m)' = "none"
  BY FS_EmptySet DEF MoneyOf
<1>2. ASSUME NEW l \in PaidLegs(m)'
      PROVE  MoneyOf(m)' = pays'[<<m, l>>].status
  <2>1. \A k \in PaidLegs(m)' : k = l
    BY DEF SendInvariant, MountSafe, PaidSafe
  <2>2. /\ PaidLegs(m)' # {} /\ Cardinality(PaidLegs(m)') = 1
        /\ (CHOOSE k \in PaidLegs(m)' : TRUE) = l
    BY <2>1, OnePaid
  <2> QED
    BY <2>2 DEF MoneyOf
<1> QED
  BY <1>1, <1>2

Begun(m) == run[m].pc # "idle"

MoneyStays(m) == MoneyOf(m)' = MoneyOf(m)

LEMMA MoneyAlone ==
  ASSUME SendInvariant, SendInvariant', NEW m \in Mount,
         \A l \in 1 .. Legs : pays'[<<m, l>>] = pays[<<m, l>>]
  PROVE  MoneyStays(m)
<1>1. PaidLegs(m)' = PaidLegs(m)
  BY DEF PaidLegs
<1>2. \A l \in PaidLegs(m) : pays'[<<m, l>>] = pays[<<m, l>>]
  BY DEF PaidLegs
<1>3. CASE PaidLegs(m) = {}
  BY <1>1, <1>3, MoneyIs, MoneyIsThen DEF MoneyStays
<1>4. ASSUME NEW l \in PaidLegs(m)
      PROVE  MoneyStays(m)
  BY <1>1, <1>2, MoneyIs, MoneyIsThen DEF MoneyStays
<1> QED
  BY <1>3, <1>4

\* One mount is all a step of IdealSend is about.
AloneAside(m) ==
    \A t \in Mount : t # m =>
        (Begun(t)' <=> Begun(t)) /\ MoneyStays(t) /\ run'[t].told = run[t].told

LEMMA IdealStutters ==
  ASSUME \A t \in Mount : (Begun(t)' <=> Begun(t)) /\ MoneyStays(t) /\ run'[t].told = run[t].told
  PROVE  UNCHANGED Ideal!vars
<1>1. [m \in Mount |-> run'[m].pc # "idle"] = [m \in Mount |-> run[m].pc # "idle"]
  BY DEF Begun
<1>2. [m \in Mount |-> MoneyOf(m)]' = [m \in Mount |-> MoneyOf(m)]
  BY DEF MoneyStays
<1>3. [m \in Mount |-> run'[m].told] = [m \in Mount |-> run[m].told]
  OBVIOUS
<1> QED
  BY <1>1, <1>2, <1>3 DEF Ideal!vars

LEMMA IdealApproves ==
  ASSUME NEW m \in Mount, AloneAside(m), ~Begun(m), Begun(m)', MoneyStays(m),
         run'[m].told = run[m].told
  PROVE  Ideal!Next
<1>1. [t \in Mount |-> run'[t].pc # "idle"] = [[t \in Mount |-> run[t].pc # "idle"] EXCEPT ![m] = TRUE]
  BY DEF Begun, AloneAside
<1>2. [t \in Mount |-> MoneyOf(t)]' = [t \in Mount |-> MoneyOf(t)]
  BY DEF MoneyStays, AloneAside
<1>3. [t \in Mount |-> run'[t].told] = [t \in Mount |-> run[t].told]
  BY DEF AloneAside
<1>4. ~[t \in Mount |-> run[t].pc # "idle"][m]
  BY DEF Begun
<1>5. Ideal!Approve(m)
  BY <1>1, <1>2, <1>3, <1>4 DEF Ideal!Approve
<1> QED
  BY <1>5 DEF Ideal!Next

LEMMA IdealTells ==
  ASSUME NEW m \in Mount, AloneAside(m), Begun(m), Begun(m)', MoneyStays(m),
         run[m].told = NoResult,
         NEW result \in [success : BOOLEAN, message : Message], run'[m].told = result,
         result.success <=> result.message = "sent",
         result.message = "sent" => MoneyOf(m) = "completed",
         result.message = "failed" => MoneyOf(m) = "failed",
         result.message = "pending" => MoneyOf(m) # "none"
  PROVE  Ideal!Next
<1>1. [t \in Mount |-> run'[t].pc # "idle"] = [t \in Mount |-> run[t].pc # "idle"]
  BY DEF Begun, AloneAside
<1>2. [t \in Mount |-> MoneyOf(t)]' = [t \in Mount |-> MoneyOf(t)]
  BY DEF MoneyStays, AloneAside
<1>3. [t \in Mount |-> run'[t].told] = [[t \in Mount |-> run[t].told] EXCEPT ![m] = result]
  BY DEF AloneAside
<1>4. /\ [t \in Mount |-> run[t].pc # "idle"][m]
      /\ [t \in Mount |-> MoneyOf(t)][m] = MoneyOf(m)
      /\ [t \in Mount |-> run[t].told][m] = Ideal!Nothing
  BY DEF Begun, NoResult, Result, Ideal!Nothing
<1>5. Ideal!Truthful(m, result)
  BY <1>4 DEF Ideal!Truthful
<1>6. result \in [success : BOOLEAN, message : {"sent", "failed", "pending", "error"}]
  BY DEF Message
<1>7. Ideal!Tell(m)
  BY <1>1, <1>2, <1>3, <1>4, <1>5, <1>6 DEF Ideal!Tell
<1> QED
  BY <1>7 DEF Ideal!Next

LEMMA IdealMoves ==
  ASSUME NEW m \in Mount, AloneAside(m), Begun(m), Begun(m)', run'[m].told = run[m].told,
         \/ MoneyOf(m) = "none" /\ MoneyOf(m)' \in Status
         \/ MoneyOf(m) = "pending" /\ MoneyOf(m)' \in Terminal
  PROVE  Ideal!Next
<1>1. [t \in Mount |-> run'[t].pc # "idle"] = [t \in Mount |-> run[t].pc # "idle"]
  BY DEF Begun, AloneAside
<1>2. [t \in Mount |-> MoneyOf(t)]' = [[t \in Mount |-> MoneyOf(t)] EXCEPT ![m] = MoneyOf(m)']
  BY DEF MoneyStays, AloneAside
<1>3. [t \in Mount |-> run'[t].told] = [t \in Mount |-> run[t].told]
  BY DEF AloneAside
<1>4. /\ [t \in Mount |-> run[t].pc # "idle"][m]
      /\ [t \in Mount |-> MoneyOf(t)][m] = MoneyOf(m)
  BY DEF Begun
<1>5. CASE MoneyOf(m) = "none" /\ MoneyOf(m)' \in Status
  <2>1. Ideal!Pay(m)
    BY <1>1, <1>2, <1>3, <1>4, <1>5 DEF Ideal!Pay, Status
  <2> QED
    BY <2>1 DEF Ideal!Next
<1>6. CASE MoneyOf(m) = "pending" /\ MoneyOf(m)' \in Terminal
  <2>1. Ideal!Settle(m)
    BY <1>1, <1>2, <1>3, <1>4, <1>6 DEF Ideal!Settle, Status, Terminal
  <2> QED
    BY <2>1 DEF Ideal!Next
<1> QED
  BY <1>5, <1>6

-----------------------------------------------------------------------------
\* A step of doSend moves no money: it begins, goes on, or tells.
LEMMA RunStepAside ==
  ASSUME SendInvariant, SendInvariant', NEW m \in Mount, NEW r, run' = [run EXCEPT ![m] = r],
         pays' = pays
  PROVE  AloneAside(m) /\ MoneyStays(m) /\ run'[m] = r
<1>1. run'[m] = r /\ \A t \in Mount : t # m => run'[t] = run[t]
  BY Types DEF SendInvariant
<1>2. \A t \in Mount : MoneyStays(t)
  BY MoneyAlone
<1> QED
  BY <1>1, <1>2 DEF AloneAside, Begun

LEMMA TellIsIdeal ==
  ASSUME SendInvariant, SendInvariant', NEW m \in Mount,
         NEW result \in [success : BOOLEAN, message : Message],
         Tell(m, result), run[m].pc \notin {"idle", "done"}, pays' = pays,
         result.success <=> result.message = "sent",
         result.message # "error" => PaidLegs(m) # {},
         \A l \in PaidLegs(m) :
            /\ result.message = "sent" => pays[<<m, l>>].status = "completed"
            /\ result.message = "failed" => pays[<<m, l>>].status = "failed"
  PROVE  Ideal!Next
<1> DEFINE r == [NoRun EXCEPT !.pc = "done", !.told = result]
<1>1. r.pc = "done" /\ r.told = result /\ run' = [run EXCEPT ![m] = r]
  BY DEF NoRun, Tell, SetRun
<1> HIDE DEF r
<1>2. AloneAside(m) /\ MoneyStays(m) /\ run'[m] = r
  BY <1>1, RunStepAside
<1>3. Begun(m) /\ Begun(m)' /\ run'[m].told = result /\ run[m].told = NoResult
  BY <1>1, <1>2 DEF Begun, SendInvariant, MountSafe, RunSafe
<1>4. /\ result.message = "sent" => MoneyOf(m) = "completed"
      /\ result.message = "failed" => MoneyOf(m) = "failed"
      /\ result.message = "pending" => MoneyOf(m) # "none"
  BY MoneyIs DEF Status
<1> QED
  BY <1>2, <1>3, <1>4, IdealTells

\* The report of a status, or an exception, is true of the mount's money.
LEMMA ThrowIsIdeal ==
  ASSUME SendInvariant, SendInvariant', NEW m \in Mount, Throw(m),
         run[m].pc \notin {"idle", "done"}, pays' = pays
  PROVE  Ideal!Next
<1> DEFINE result == Result(FALSE, "error")
<1>1. /\ result \in [success : BOOLEAN, message : Message]
      /\ result.success = FALSE /\ result.message = "error"
  BY DEF Result, Message
<1>2. Tell(m, result)
  BY DEF Throw
<1> HIDE DEF result
<1> QED
  BY <1>1, <1>2, TellIsIdeal

LEMMA StatusIsIdeal ==
  ASSUME SendInvariant, SendInvariant', NEW m \in Mount, NEW status \in Status,
         Tell(m, Report(status)), run[m].pc \notin {"idle", "done"}, pays' = pays,
         PaidLegs(m) # {},
         status \in Terminal => \A l \in PaidLegs(m) : pays[<<m, l>>].status = status
  PROVE  Ideal!Next
<1> DEFINE result == Report(status)
<1>1. /\ result \in [success : BOOLEAN, message : Message]
      /\ result.success <=> result.message = "sent"
      /\ result.message = "sent" => status = "completed"
      /\ result.message = "failed" => status = "failed"
  BY DEF Report, Result, Message, Status
<1>2. \A l \in PaidLegs(m) :
          /\ result.message = "sent" => pays[<<m, l>>].status = "completed"
          /\ result.message = "failed" => pays[<<m, l>>].status = "failed"
  BY <1>1 DEF Terminal, Status
<1> HIDE DEF result
<1>3. Tell(m, result)
  BY DEF result
<1> QED
  BY <1>1, <1>2, <1>3, TellIsIdeal

LEMMA GoOnIsIdeal ==
  ASSUME SendInvariant, SendInvariant', NEW m \in Mount, NEW r, run' = [run EXCEPT ![m] = r],
         pays' = pays, run[m].pc # "idle", r.pc # "idle", r.told = run[m].told
  PROVE  UNCHANGED Ideal!vars
<1>1. AloneAside(m) /\ MoneyStays(m) /\ run'[m] = r
  BY RunStepAside
<1> QED
  BY <1>1, IdealStutters DEF AloneAside, Begun

LEMMA DialogIsIdeal ==
  ASSUME SendInvariant, SendInvariant', UNCHANGED <<run, pays>>
  PROVE  UNCHANGED Ideal!vars
<1>1. \A t \in Mount : MoneyStays(t)
  BY MoneyAlone
<1> QED
  BY <1>1, IdealStutters DEF Begun

LEMMA PressSendIsIdeal ==
  ASSUME SendInvariant, SendInvariant', NEW m \in Mount, PressSend(m)
  PROVE  Ideal!Next
<1> DEFINE started == [NoRun EXCEPT !.prep = dlg.prepared, !.reviewed = dlg.prepared.request]
<1>1. PICK r \in {[started EXCEPT !.pc = "ensure", !.text = dlg.text],
                  [started EXCEPT !.pc = "publish"]} : run' = [run EXCEPT ![m] = r]
  BY DEF PressSend, SetRun
<1>2. r.pc \in {"ensure", "publish"} /\ r.told = NoResult
  BY DEF NoRun
<1>3. run' = [run EXCEPT ![m] = r]
  BY <1>1
<1>4. pays' = pays /\ run[m].pc = "idle" /\ run[m].told = NoResult
  BY DEF PressSend, AtReview, OnScreen, SendInvariant, DialogSafe, MountSafe, RunSafe
<1>5. AloneAside(m) /\ MoneyStays(m) /\ run'[m] = r
  BY <1>3, <1>4, RunStepAside
<1>6. ~Begun(m) /\ Begun(m)'
  BY <1>2, <1>4, <1>5 DEF Begun
<1> QED
  BY <1>2, <1>4, <1>5, <1>6, IdealApproves

\* The steps up to a package's submission, and the arrival of headers.
LEMMA SignIsIdeal ==
  ASSUME SendInvariant, SendInvariant', NEW m \in Mount,
         EnsureSession(m) \/ Sign(m) \/ SignThrows(m) \/ Headers(m)
  PROVE  Ideal!Next \/ UNCHANGED Ideal!vars
<1>1. /\ run[m].pc \notin {"idle", "done"} /\ pays' = pays /\ run[m] \in RunState
      /\ \/ Throw(m)
         \/ \E pc \in {"sign", "publish"} : SetRun(m, [run[m] EXCEPT !.pc = pc])
         \/ SetRun(m, [run[m] EXCEPT !.phase = "body"])
  BY Types DEF EnsureSession, Sign, SignThrows, Headers, Calling, server, SendInvariant
<1>2. CASE Throw(m)
  BY <1>1, <1>2, ThrowIsIdeal
<1>3. CASE \E pc \in {"sign", "publish"} : SetRun(m, [run[m] EXCEPT !.pc = pc])
  <2>1. PICK pc \in {"sign", "publish"} : SetRun(m, [run[m] EXCEPT !.pc = pc])
    BY <1>3
  <2> DEFINE r == [run[m] EXCEPT !.pc = pc]
  <2>2. r.pc = pc /\ r.told = run[m].told /\ run' = [run EXCEPT ![m] = r]
    BY <1>1, <2>1 DEF SetRun, RunState
  <2> HIDE DEF r
  <2> QED
    BY <1>1, <2>2, GoOnIsIdeal
<1>4. CASE SetRun(m, [run[m] EXCEPT !.phase = "body"])
  <2> DEFINE r == [run[m] EXCEPT !.phase = "body"]
  <2>1. r.pc = run[m].pc /\ r.told = run[m].told /\ run' = [run EXCEPT ![m] = r]
    BY <1>1, <1>4 DEF SetRun, RunState
  <2> HIDE DEF r
  <2> QED
    BY <1>1, <2>1, GoOnIsIdeal
<1> QED
  BY <1>1, <1>2, <1>3, <1>4

LEMMA AnswerIsIdeal ==
  ASSUME SendInvariant, SendInvariant', NEW m \in Mount, Answer(m)
  PROVE  Ideal!Next \/ UNCHANGED Ideal!vars
<1> DEFINE answer == run[m].reply
<1>1. run[m].pc = "publish" /\ pays' = pays /\ run[m] \in RunState
  BY Types DEF Answer, server, SendInvariant
<1>2. CASE Throw(m)
  BY <1>1, <1>2, ThrowIsIdeal
<1>3. CASE answer \in Terminal /\ Tell(m, Report(answer))
  <2>1. answer \in Status
    BY <1>3 DEF Terminal
  <2>2. /\ run[m].leg \in PaidLegs(m) /\ pays[Leg(m)].status = answer
        /\ \A l, k \in PaidLegs(m) : l = k
    BY <1>1, <1>3, <2>1 DEF SendInvariant, MountSafe, PaidSafe
  <2>3. \A l \in PaidLegs(m) : pays[<<m, l>>].status = answer
    BY <2>2 DEF Leg
  <2> HIDE DEF answer
  <2> QED
    BY <1>1, <1>3, <2>1, <2>2, <2>3, StatusIsIdeal
<1>4. CASE SetRun(m, [run[m] EXCEPT !.pc = "reprepare", !.phase = "headers", !.reply = "none"])
  <2> DEFINE r == [run[m] EXCEPT !.pc = "reprepare", !.phase = "headers", !.reply = "none"]
  <2>1. r.pc = "reprepare" /\ r.told = run[m].told /\ run' = [run EXCEPT ![m] = r]
    BY <1>1, <1>4 DEF SetRun, RunState
  <2> HIDE DEF r
  <2> QED
    BY <1>1, <2>1, GoOnIsIdeal
<1>5. CASE SetRun(m, [NoRun EXCEPT !.pc = "waiting", !.leg = run[m].leg])
  <2> DEFINE r == [NoRun EXCEPT !.pc = "waiting", !.leg = run[m].leg]
  <2>1. r.pc = "waiting" /\ r.told = NoResult /\ run' = [run EXCEPT ![m] = r]
    BY <1>5 DEF SetRun, NoRun
  <2>2. run[m].told = NoResult
    BY <1>1 DEF SendInvariant, MountSafe, RunSafe
  <2> HIDE DEF r
  <2> QED
    BY <1>1, <2>1, <2>2, GoOnIsIdeal
<1> QED
  BY <1>2, <1>3, <1>4, <1>5 DEF Answer

LEMMA RePrepareIsIdeal ==
  ASSUME SendInvariant, SendInvariant', NEW m \in Mount, RePrepareEnds(m)
  PROVE  Ideal!Next \/ UNCHANGED Ideal!vars
<1>1. run[m].pc = "reprepare" /\ pays' = pays /\ run[m] \in RunState
  BY Types DEF RePrepareEnds, server, SendInvariant
<1>2. CASE Throw(m)
  BY <1>1, <1>2, ThrowIsIdeal
<1>3. ASSUME NEW k \in Kinds,
             SetRun(m, [run[m] EXCEPT !.pc = "sign", !.phase = "headers", !.leg = @ + 1,
                                      !.prep = RePrepared(m, k)])
      PROVE  UNCHANGED Ideal!vars
  <2> DEFINE r == [run[m] EXCEPT !.pc = "sign", !.phase = "headers", !.leg = @ + 1,
                                 !.prep = RePrepared(m, k)]
  <2>1. r.pc = "sign" /\ r.told = run[m].told /\ run' = [run EXCEPT ![m] = r]
    BY <1>1, <1>3 DEF SetRun, RunState
  <2> HIDE DEF r
  <2> QED
    BY <1>1, <2>1, GoOnIsIdeal
<1> QED
  BY <1>2, <1>3 DEF RePrepareEnds, RoundsLeft

\* What an event, the server or a timer says of an awaited payment is true of the
\* mount's money.
LEMMA ReportIsIdeal ==
  ASSUME SendInvariant, SendInvariant', NEW m \in Mount, run[m].pc \in {"waiting", "asking"},
         NEW status \in {"pending", pays[Leg(m)].status}, Tell(m, Report(status)), pays' = pays
  PROVE  Ideal!Next
<1>1. run[m].leg \in PaidLegs(m) /\ \A l, k \in PaidLegs(m) : l = k
  BY DEF SendInvariant, MountSafe, PaidSafe
<1>2. pays[Leg(m)].status \in Status
  BY <1>1, MoneyIs DEF Leg
<1>3. status \in Status
  BY <1>2 DEF Status
<1>4. status \in Terminal => \A l \in PaidLegs(m) : pays[<<m, l>>].status = status
  BY <1>1 DEF Leg, Terminal
<1> QED
  BY <1>1, <1>3, <1>4, StatusIsIdeal

LEMMA WaitingIsIdeal ==
  ASSUME SendInvariant, SendInvariant', NEW m \in Mount,
         Event(m) \/ AwaitTimer(m) \/ GetPaymentEnds(m) \/ Abort(m)
  PROVE  Ideal!Next \/ UNCHANGED Ideal!vars
<1>1. pays' = pays /\ run[m] \in RunState
  BY Types DEF Event, AwaitTimer, GetPaymentEnds, Abort, server, SendInvariant
<1>2. CASE Event(m)
  <2>1. run[m].pc = "waiting"
    BY <1>1, <1>2 DEF SendInvariant, MountSafe, RunSafe, Event, Leg, RunState
  <2> QED
    BY <1>1, <1>2, <2>1, ReportIsIdeal DEF Event
<1>3. CASE AwaitTimer(m)
  <2> DEFINE r == [run[m] EXCEPT !.pc = "asking"]
  <2>1. r.pc = "asking" /\ r.told = run[m].told /\ run' = [run EXCEPT ![m] = r]
        /\ run[m].pc = "waiting"
    BY <1>1, <1>3 DEF AwaitTimer, SetRun, RunState
  <2> HIDE DEF r
  <2> QED
    BY <1>1, <2>1, GoOnIsIdeal
<1>4. CASE GetPaymentEnds(m)
  <2>1. /\ run[m].pc = "asking"
        /\ \E status \in {"pending", pays[Leg(m)].status} : Tell(m, Report(status))
    BY <1>4 DEF GetPaymentEnds
  <2> QED
    BY <1>1, <2>1, ReportIsIdeal
<1>5. CASE Abort(m)
  <2>1. /\ run[m].pc \in {"publish", "reprepare", "asking"}
        /\ IF run[m].pc = "asking" THEN Tell(m, Report("pending")) ELSE Throw(m)
    BY <1>5 DEF Abort, Calling
  <2> QED
    BY <1>1, <2>1, ReportIsIdeal, ThrowIsIdeal
<1> QED
  BY <1>2, <1>3, <1>4, <1>5

\* The server pays a mount at most once, and only one whose Send was pressed.
LEMMA ServeIsIdeal ==
  ASSUME SendInvariant, SendInvariant', NEW q \in inbox, Serve(q)
  PROVE  Ideal!Next \/ UNCHANGED Ideal!vars
<1> DEFINE m == q.id[1]
           l == q.id[2]
<1>1. PICK effect \in Effects(q), e \in CallEnd :
        /\ pays' = IF effect \in Status
                   THEN [pays EXCEPT ![q.id] = [stamp |-> q.stamp, status |-> effect]]
                   ELSE pays
        /\ run' = [t \in Mount |->
                      IF run[t].pc = "publish" /\ Leg(t) = q.id
                      THEN [run[t] EXCEPT !.reply = IF e.seen = "answer" THEN effect ELSE "error"]
                      ELSE run[t]]
  BY DEF Serve
<1>2. /\ m \in Mount /\ l \in 1 .. Legs /\ q.id = <<m, l>> /\ q.id \in Id
      /\ run \in [Mount -> RunState] /\ pays \in [Id -> Payment \cup {NoPayment}]
  BY Types DEF SendInvariant, Query, Id
<1>3. PaidLegs(m) = {} /\ run[m].pc \in {"done", "publish"}
  BY <1>2 DEF SendInvariant, MountSafe, InboxSafe
<1>4. \A t \in Mount : run'[t].pc = run[t].pc /\ run'[t].told = run[t].told
  BY <1>1, <1>2 DEF RunState
<1>5. ASSUME NEW t \in Mount, t # m
      PROVE  MoneyStays(t)
  <2>1. \A k \in 1 .. Legs : pays'[<<t, k>>] = pays[<<t, k>>]
    BY <1>1, <1>2, <1>5 DEF Id
  <2> QED
    BY <2>1, MoneyAlone
<1>6. AloneAside(m) /\ Begun(m) /\ Begun(m)'
  BY <1>2, <1>3, <1>4, <1>5 DEF AloneAside, Begun
<1>7. CASE effect \in Status
  <2>1. pays'[<<m, l>>] = [stamp |-> q.stamp, status |-> effect]
    BY <1>1, <1>2, <1>7
  <2>2. l \in PaidLegs(m)'
    <3>1. [stamp |-> q.stamp, status |-> effect] \in Payment
      BY <1>7, Types DEF SendInvariant, Query, Payment
    <3> QED
      BY <1>2, <2>1, <3>1, Types DEF PaidLegs, SendInvariant
  <2>3. MoneyOf(m)' = effect
    BY <1>2, <2>1, <2>2, MoneyIsThen
  <2>4. MoneyOf(m) = "none"
    BY <1>2, <1>3, MoneyIs
  <2> QED
    BY <1>2, <1>4, <1>6, <1>7, <2>3, <2>4, IdealMoves
<1>8. CASE effect \notin Status
  <2>1. pays' = pays
    BY <1>1, <1>8
  <2>2. \A t \in Mount : MoneyStays(t)
    BY <2>1, MoneyAlone
  <2> QED
    BY <1>4, <2>2, IdealStutters DEF Begun
<1> QED
  BY <1>7, <1>8

LEMMA SettleIsIdeal ==
  ASSUME SendInvariant, SendInvariant', NEW i \in Id, Settle(i)
  PROVE  Ideal!Next
<1>1. PICK s \in Terminal : pays' = [pays EXCEPT ![i].status = s]
  BY DEF Settle
<1> DEFINE m == i[1]
           l == i[2]
<1>2. /\ m \in Mount /\ l \in 1 .. Legs /\ i = <<m, l>> /\ pays \in [Id -> Payment \cup {NoPayment}]
      /\ run' = run /\ pays[i] # NoPayment /\ pays[i].status = "pending"
      /\ pays[i] \in Payment
  BY Types DEF SendInvariant, Settle, Id
<1>3. l \in PaidLegs(m) /\ PaidLegs(m)' = PaidLegs(m)
  BY <1>2, SettleKeeps DEF PaidLegs
<1>4. pays'[<<m, l>>].status = s
  BY <1>1, <1>2 DEF Payment
<1>5. MoneyOf(m) = "pending" /\ MoneyOf(m)' \in Terminal
  BY <1>2, <1>3, <1>4, MoneyIs, MoneyIsThen
<1>6. Begun(m)
  BY <1>2, <1>3 DEF Begun, SendInvariant, MountSafe, PaidSafe
<1>7. ASSUME NEW t \in Mount, t # m
      PROVE  MoneyStays(t)
  <2>1. \A k \in 1 .. Legs : pays'[<<t, k>>] = pays[<<t, k>>]
    BY <1>1, <1>2, <1>7 DEF Id
  <2> QED
    BY <2>1, MoneyAlone
<1>8. AloneAside(m) /\ Begun(m)'
  BY <1>2, <1>6, <1>7 DEF AloneAside, Begun
<1> QED
  BY <1>2, <1>5, <1>6, <1>8, IdealMoves

LEMMA EachStepIsIdeal ==
  ASSUME SendInvariant, SendInvariant', [Next]_vars
  PROVE  [Ideal!Next]_(Ideal!vars)
<1>1. CASE Open \/ Close \/ UNCHANGED vars
  <2>1. UNCHANGED <<run, pays>>
    BY <1>1 DEF Open, Close, vars
  <2> QED
    BY <2>1, DialogIsIdeal
<1>2. ASSUME NEW m \in Mount, UserStep(m)
      PROVE  [Ideal!Next]_(Ideal!vars)
  <2>1. PressSend(m) \/ UNCHANGED <<run, pays>>
    BY <1>2 DEF UserStep, Type, PasteLands, Continue, Back, server
  <2> QED
    BY <2>1, PressSendIsIdeal, DialogIsIdeal
<1>3. ASSUME NEW m \in Mount, SendStep(m)
      PROVE  [Ideal!Next]_(Ideal!vars)
  <2>1. CASE PrepareEnds(m)
    <3>1. UNCHANGED <<run, pays>>
      BY <2>1 DEF PrepareEnds, server
    <3> QED
      BY <3>1, DialogIsIdeal
  <2>2. CASE ~PrepareEnds(m)
    BY <1>3, <2>2, SignIsIdeal, AnswerIsIdeal, RePrepareIsIdeal, WaitingIsIdeal DEF SendStep
  <2> QED
    BY <2>1, <2>2
<1>4. CASE ServerStep
  BY <1>4, ServeIsIdeal, SettleIsIdeal DEF ServerStep
<1> QED
  BY <1>1, <1>2, <1>3, <1>4 DEF Next

LEMMA BeginsIdeal ==
  ASSUME Init
  PROVE  Ideal!Init
<1>1. \A m \in Mount : run[m].pc = "idle" /\ run[m].told = NoResult /\ PaidLegs(m) = {}
  BY DEF Init, NoRun, PaidLegs, Id
<1>2. \A m \in Mount : MoneyOf(m) = "none"
  BY <1>1, SendBegins, MoneyIs
<1> QED
  BY <1>1, <1>2 DEF Ideal!Init, Ideal!Nothing, NoResult, Result

\* The refinement: whatever is lost, aborted, repeated or answered late, through any
\* number of openings and swap rounds, one approval pays at most once.  The headline
\* "Payment Sent!" is over a completed payment only, the messages "failed" and "still
\* pending" over payments that are so or were made; the headline "Payment Failed"
\* promises nothing (SendDialog.tsx 87-89 and 132-188, page.tsx 97-145).
THEOREM DialogImplementsIdeal == Spec => ImplementsIdeal
<1>1. Init => Ideal!Init
  BY BeginsIdeal
<1>2. SendInvariant /\ SendInvariant' /\ [Next]_vars => [Ideal!Next]_(Ideal!vars)
  BY EachStepIsIdeal
<1> QED
  BY <1>1, <1>2, SendHolds, PTL DEF Spec, ImplementsIdeal, Ideal!Spec
=============================================================================
