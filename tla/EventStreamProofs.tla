--------------------------- MODULE EventStreamProofs ---------------------------
(* Theorems about EventStream, for any capacities of the queues and any number  *)
(* of events and refetches.                                                     *)
EXTENDS EventStream, Integers, TLAPS

Version == 1 .. MaxVer

Increasing(s) == \A i, k \in DOMAIN s : i < k => s[i] < s[k]
Before(s, t) == \A i \in DOMAIN s, k \in DOMAIN t : s[i] < t[k]

\* Events that the session has relayed since it subscribed and the page has yet to get.
Current(s) == \A i \in DOMAIN s : s[i] > since /\ s[i] > last /\ s[i] <= ver

QueuesInOrder ==
    /\ Increasing(wire) /\ Increasing(outbox) /\ Increasing(buf)
    /\ Before(wire, outbox) /\ Before(wire, buf) /\ Before(outbox, buf)
    /\ Current(wire) /\ Current(outbox) /\ Current(buf)

\* Only a pumping session has a buffer, and one that has not subscribed has queued nothing.
QueuesOfSession ==
    /\ session # "pumping" => buf = <<>>
    /\ session \in {"none", "accepted"} => wire = <<>> /\ outbox = <<>> /\ last = 0
    /\ since <= ver /\ last <= ver

In(e, s) == \E i \in DOMAIN s : s[i] = e
NewestOnItsWay ==
    session = "pumping" /\ ver > since =>
        last = ver \/ In(ver, wire) \/ In(ver, outbox) \/ In(ver, buf)

StreamInvariant == TypeOK /\ QueuesInOrder /\ QueuesOfSession /\ NewestOnItsWay

-----------------------------------------------------------------------------
LEMMA Appended ==
  ASSUME NEW S, NEW s \in Seq(S), NEW e \in S
  PROVE  /\ Append(s, e) \in Seq(S) /\ Len(Append(s, e)) = Len(s) + 1
         /\ DOMAIN Append(s, e) = 1 .. Len(s) + 1 /\ DOMAIN s = 1 .. Len(s) /\ Len(s) \in Nat
         /\ \A i \in DOMAIN s : Append(s, e)[i] = s[i]
         /\ Append(s, e)[Len(s) + 1] = e
  OBVIOUS

LEMMA WithoutHead ==
  ASSUME NEW S, NEW s \in Seq(S), s # <<>>
  PROVE  /\ Tail(s) \in Seq(S) /\ Len(Tail(s)) = Len(s) - 1 /\ Len(s) \in Nat \ {0}
         /\ DOMAIN Tail(s) = 1 .. Len(s) - 1 /\ DOMAIN s = 1 .. Len(s)
         /\ \A i \in DOMAIN Tail(s) : Tail(s)[i] = s[i + 1]
         /\ Head(s) = s[1] /\ Head(s) \in S
  OBVIOUS

LEMMA Joined ==
  ASSUME NEW s \in Seq(Version), NEW t \in Seq(Version)
  PROVE  /\ s \o t \in Seq(Version) /\ DOMAIN (s \o t) = 1 .. Len(s) + Len(t)
         /\ \A i \in DOMAIN s : (s \o t)[i] = s[i]
         /\ \A i \in DOMAIN t : (s \o t)[Len(s) + i] = t[i]
         /\ \A i \in DOMAIN (s \o t) : i \in DOMAIN s \/ i - Len(s) \in DOMAIN t
         /\ DOMAIN s = 1 .. Len(s) /\ DOMAIN t = 1 .. Len(t) /\ Len(s) \in Nat /\ Len(t) \in Nat
  OBVIOUS

LEMMA JoinedInOrder ==
  ASSUME NEW s \in Seq(Version), NEW t \in Seq(Version), Increasing(s), Increasing(t), Before(s, t)
  PROVE  Increasing(s \o t)
<1> SUFFICES ASSUME NEW i \in DOMAIN (s \o t), NEW k \in DOMAIN (s \o t), i < k
             PROVE  (s \o t)[i] < (s \o t)[k]
  BY DEF Increasing
<1>1. i \in Int /\ k \in Int /\ Len(s) \in Nat
  BY Joined
<1>2. CASE k \in DOMAIN s
  <2>1. i \in DOMAIN s
    BY <1>1, <1>2, Joined
  <2> QED
    BY <1>2, <2>1, Joined DEF Increasing
<1>3. CASE k - Len(s) \in DOMAIN t
  <2> DEFINE j == k - Len(s)
  <2>1. (s \o t)[Len(s) + j] = t[j] /\ Len(s) + j = k
    BY <1>1, <1>3, Joined
  <2>2. CASE i \in DOMAIN s
    BY <1>3, <2>1, <2>2, Joined DEF Before
  <2>3. CASE i - Len(s) \in DOMAIN t
    <3> DEFINE l == i - Len(s)
    <3>1. (s \o t)[Len(s) + l] = t[l] /\ Len(s) + l = i /\ l < j
      BY <1>1, <2>3, Joined
    <3> QED
      BY <1>3, <2>1, <2>3, <3>1 DEF Increasing
  <2> QED
    BY <2>2, <2>3, Joined
<1> QED
  BY <1>2, <1>3, Joined

\* Every place of the queue of all three is one of a queue.
LEMMA JoinedHas ==
  ASSUME NEW s \in Seq(Version), NEW t \in Seq(Version), NEW i \in DOMAIN (s \o t)
  PROVE  (\E k \in DOMAIN s : (s \o t)[i] = s[k]) \/ (\E k \in DOMAIN t : (s \o t)[i] = t[k])
<1>1. i \in Int /\ Len(s) \in Nat
  BY Joined
<1>2. CASE i \in DOMAIN s
  BY <1>2, Joined
<1>3. CASE i - Len(s) \in DOMAIN t
  <2>1. (s \o t)[Len(s) + (i - Len(s))] = t[i - Len(s)] /\ Len(s) + (i - Len(s)) = i
    BY <1>1, <1>3, Joined
  <2> QED
    BY <1>3, <2>1
<1> QED
  BY <1>2, <1>3, Joined

LEMMA JoinedKeeps ==
  ASSUME NEW s \in Seq(Version), NEW t \in Seq(Version), NEW x, In(x, s) \/ In(x, t)
  PROVE  In(x, s \o t)
<1>1. CASE In(x, s)
  <2>1. PICK i \in DOMAIN s : s[i] = x
    BY <1>1 DEF In
  <2>2. i \in DOMAIN (s \o t) /\ (s \o t)[i] = x
    BY <2>1, Joined
  <2> QED
    BY <2>2 DEF In
<1>2. CASE In(x, t)
  <2>1. PICK i \in DOMAIN t : t[i] = x
    BY <1>2 DEF In
  <2>2. Len(s) + i \in DOMAIN (s \o t) /\ (s \o t)[Len(s) + i] = x
    BY <2>1, Joined
  <2> QED
    BY <2>2 DEF In
<1> QED
  BY <1>1, <1>2

\* A queue with one more, younger event ...
LEMMA PushOrder ==
  ASSUME NEW s \in Seq(Version), NEW e \in Version, NEW t \in Seq(Version)
  PROVE  /\ Increasing(s) /\ (\A i \in DOMAIN s : s[i] < e) => Increasing(Append(s, e))
         /\ Before(t, s) /\ (\A i \in DOMAIN t : t[i] < e) => Before(t, Append(s, e))
         /\ Before(s, t) /\ (\A i \in DOMAIN t : e < t[i]) => Before(Append(s, e), t)
         /\ In(e, Append(s, e)) /\ \A x : In(x, s) => In(x, Append(s, e))
<1>1. /\ DOMAIN Append(s, e) = 1 .. Len(s) + 1 /\ DOMAIN s = 1 .. Len(s) /\ Len(s) \in Nat
      /\ \A i \in DOMAIN s : Append(s, e)[i] = s[i]
      /\ Append(s, e)[Len(s) + 1] = e
  BY Appended
<1>2. \A i \in DOMAIN Append(s, e) : i \in DOMAIN s \/ i = Len(s) + 1
  BY <1>1
<1>3. ASSUME Increasing(s), \A i \in DOMAIN s : s[i] < e
      PROVE  Increasing(Append(s, e))
  BY <1>1, <1>2, <1>3 DEF Increasing
<1>4. In(e, Append(s, e)) /\ \A x : In(x, s) => In(x, Append(s, e))
  BY <1>1 DEF In
<1>5. ASSUME Before(t, s), \A i \in DOMAIN t : t[i] < e
      PROVE  Before(t, Append(s, e))
  BY <1>1, <1>2, <1>5 DEF Before
<1>6. ASSUME Before(s, t), \A i \in DOMAIN t : e < t[i]
      PROVE  Before(Append(s, e), t)
  BY <1>1, <1>2, <1>6 DEF Before
<1> QED
  BY <1>3, <1>4, <1>5, <1>6

\* ... and one without its oldest.
LEMMA PopOrder ==
  ASSUME NEW s \in Seq(Version), s # <<>>, NEW t \in Seq(Version)
  PROVE  /\ Increasing(s) =>
              Increasing(Tail(s)) /\ \A i \in DOMAIN Tail(s) : Head(s) < Tail(s)[i]
         /\ Before(s, t) => Before(Tail(s), t) /\ \A i \in DOMAIN t : Head(s) < t[i]
         /\ Before(t, s) => Before(t, Tail(s)) /\ \A i \in DOMAIN t : t[i] < Head(s)
         /\ Current(s) => Current(Tail(s)) /\ Head(s) > since /\ Head(s) > last /\ Head(s) <= ver
         /\ \A x : In(x, s) => x = Head(s) \/ In(x, Tail(s))
<1>1. /\ DOMAIN Tail(s) = 1 .. Len(s) - 1 /\ DOMAIN s = 1 .. Len(s) /\ Len(s) \in Nat \ {0}
      /\ \A i \in DOMAIN Tail(s) : Tail(s)[i] = s[i + 1] /\ i + 1 \in DOMAIN s
      /\ Head(s) = s[1] /\ 1 \in DOMAIN s
  BY WithoutHead
<1>2. ASSUME Increasing(s)
      PROVE  Increasing(Tail(s)) /\ \A i \in DOMAIN Tail(s) : Head(s) < Tail(s)[i]
  <2>1. \A i, k \in DOMAIN Tail(s) : i < k => i + 1 < k + 1
    BY <1>1
  <2>2. \A i \in DOMAIN Tail(s) : 1 < i + 1
    BY <1>1
  <2> QED
    BY <1>1, <1>2, <2>1, <2>2 DEF Increasing
<1>3. ASSUME Before(s, t)
      PROVE  Before(Tail(s), t) /\ \A i \in DOMAIN t : Head(s) < t[i]
  BY <1>1, <1>3 DEF Before
<1>4. ASSUME Before(t, s)
      PROVE  Before(t, Tail(s)) /\ \A i \in DOMAIN t : t[i] < Head(s)
  BY <1>1, <1>4 DEF Before
<1>5. ASSUME Current(s)
      PROVE  Current(Tail(s)) /\ Head(s) > since /\ Head(s) > last /\ Head(s) <= ver
  BY <1>1, <1>5 DEF Current
<1>6. ASSUME NEW x, In(x, s)
      PROVE  x = Head(s) \/ In(x, Tail(s))
  <2>1. PICK i \in DOMAIN s : s[i] = x
    BY <1>6 DEF In
  <2>2. CASE i = 1
    BY <1>1, <2>1, <2>2
  <2>3. CASE i # 1
    <3>1. i - 1 \in DOMAIN Tail(s) /\ (i - 1) + 1 = i
      BY <1>1, <2>3
    <3>2. Tail(s)[i - 1] = x
      BY <1>1, <2>1, <3>1
    <3> QED
      BY <3>1, <3>2 DEF In
  <2> QED
    BY <2>2, <2>3
<1> QED
  BY <1>2, <1>3, <1>4, <1>5, <1>6

-----------------------------------------------------------------------------
LEMMA Types ==
  ASSUME TypeOK
  PROVE  /\ wire \in Seq(Version) /\ outbox \in Seq(Version) /\ buf \in Seq(Version)
         /\ ver \in 0 .. MaxVer /\ since \in 0 .. MaxVer /\ last \in 0 .. MaxVer /\ MaxVer \in Nat
         /\ BusCap \in Nat \ {0} /\ OutboxCap \in Nat \ {0} /\ WireCap \in Nat \ {0}
         /\ Len(buf) <= BusCap /\ Len(outbox) <= OutboxCap /\ Len(wire) <= WireCap
         /\ \A i \in DOMAIN wire : wire[i] \in Version
         /\ \A i \in DOMAIN outbox : outbox[i] \in Version
         /\ \A i \in DOMAIN buf : buf[i] \in Version
  BY CapAssumption, MaxVerAssumption DEF TypeOK, Version

\* The empty queue is in order.
LEMMA EmptyQueue ==
  ASSUME NEW t
  PROVE  /\ Increasing(<<>>) /\ Before(<<>>, t) /\ Before(t, <<>>) /\ Current(<<>>)
         /\ \A x : ~In(x, <<>>)
  BY DEF Increasing, Before, Current, In

LEMMA PublishKeeps ==
  ASSUME StreamInvariant, Publish
  PROVE  StreamInvariant'
<1> USE DEF StreamInvariant
<1> PICK e : e = ver + 1
  OBVIOUS
<1>0. /\ ver \in 0 .. MaxVer /\ MaxVer \in Nat /\ since \in 0 .. MaxVer /\ last \in 0 .. MaxVer
      /\ since <= ver /\ last <= ver
  BY Types DEF QueuesOfSession
<1>1. /\ ver' = e /\ e \in Version /\ e \in 0 .. MaxVer /\ e > since /\ e > last /\ ver < e
      /\ UNCHANGED <<session, since, outbox, wire, page, rest>> /\ ver \in Nat
  <2>1. ver < MaxVer /\ ver' = e /\ UNCHANGED <<session, since, outbox, wire, page, rest>>
    BY DEF Publish
  <2> QED
    BY <1>0, <2>1 DEF Version
<1>2. /\ \A i \in DOMAIN wire : wire[i] < e /\ wire[i] <= e
      /\ \A i \in DOMAIN outbox : outbox[i] < e /\ outbox[i] <= e
      /\ \A i \in DOMAIN buf : buf[i] < e /\ buf[i] <= e
  <2>1. \A x \in Version : x <= ver => x < e /\ x <= e
    BY <1>0, <1>1 DEF Version
  <2> QED
    BY <2>1, Types DEF QueuesInOrder, Current
<1>3. UNCHANGED <<last, socket, reading, fetch, view>>
  BY <1>1 DEF page, rest
<1>4. CASE session # "pumping"
  <2>1. buf' = buf
    BY <1>4 DEF Publish
  <2>2. TypeOK'
    BY <1>1, <1>3, <2>1 DEF TypeOK
  <2>3. QueuesInOrder'
    BY <1>1, <1>2, <1>3, <2>1 DEF QueuesInOrder, Current
  <2> QED
    BY <1>1, <1>3, <1>4, <2>1, <2>2, <2>3, Types DEF QueuesOfSession, NewestOnItsWay
<1>5. CASE session = "pumping"
  <2>1. PICK b : b = IF Len(buf) = BusCap THEN Tail(buf) ELSE buf
    OBVIOUS
  <2>2. buf' = Append(b, e)
    BY <1>1, <1>5, <2>1 DEF Publish, Buffered
  <2>3. /\ b \in Seq(Version) /\ Len(b) < BusCap /\ Increasing(b) /\ Before(wire, b) /\ Before(outbox, b)
        /\ \A i \in DOMAIN b : b[i] < e /\ b[i] > since /\ b[i] > last
    <3>1. CASE Len(buf) = BusCap
      <4>1. buf # <<>>
        BY <3>1, Types
      <4>2. b = Tail(buf)
        BY <2>1, <3>1
      <4>3. b \in Seq(Version) /\ Len(b) < BusCap
        BY <3>1, <4>1, <4>2, Types, WithoutHead
      <4>4. Increasing(b) /\ Before(wire, b) /\ Before(outbox, b) /\ Current(b)
        BY <4>1, <4>2, Types, PopOrder DEF QueuesInOrder
      <4>5. \A i \in DOMAIN b : b[i] \in Version
        BY <4>3
      <4>6. \A x \in Version : x <= ver => x < e
        BY <1>0, <1>1 DEF Version
      <4> QED
        BY <4>3, <4>4, <4>5, <4>6 DEF Current
    <3>2. CASE Len(buf) # BusCap
      BY <1>2, <2>1, <3>2, Types DEF QueuesInOrder, Current
    <3> QED
      BY <3>1, <3>2
  <2>4. buf' \in Seq(Version) /\ Len(buf') <= BusCap
    BY <1>1, <2>2, <2>3, Appended, Types
  <2>5. Increasing(buf)' /\ Before(wire, buf)' /\ Before(outbox, buf)' /\ In(e, buf')
    <3>1. Increasing(Append(b, e)) /\ In(e, Append(b, e))
      BY <1>1, <2>3, PushOrder
    <3>2. Before(wire, Append(b, e)) /\ Before(outbox, Append(b, e))
      BY <1>1, <1>2, <2>3, Types, PushOrder
    <3> QED
      BY <1>1, <2>2, <3>1, <3>2
  <2>6. Current(buf)'
    <3>1. \A i \in DOMAIN buf' : (i \in DOMAIN b /\ buf'[i] = b[i]) \/ buf'[i] = e
      BY <1>1, <2>2, <2>3, Appended
    <3>2. \A i \in DOMAIN b : b[i] \in Version
      BY <2>3
    <3>3. \A x \in Version : x < e => x <= e
      BY <1>0, <1>1 DEF Version
    <3>4. e <= e
      BY <1>0, <1>1
    <3> QED
      BY <1>1, <1>3, <2>3, <3>1, <3>2, <3>3, <3>4 DEF Current
  <2>7. QueuesInOrder'
    BY <1>1, <1>2, <1>3, <2>5, <2>6 DEF QueuesInOrder, Current
  <2>8. TypeOK'
    BY <1>1, <1>3, <2>4 DEF TypeOK, Version
  <2> QED
    BY <1>1, <1>3, <1>5, <2>5, <2>7, <2>8, Types DEF QueuesOfSession, NewestOnItsWay
<1> QED
  BY <1>4, <1>5

LEMMA PumpKeeps ==
  ASSUME StreamInvariant, Pump
  PROVE  StreamInvariant'
<1> USE DEF StreamInvariant
<1> PICK h : h = Head(buf)
  OBVIOUS
<1>1. /\ session = "pumping" /\ buf # <<>> /\ Len(outbox) < OutboxCap
      /\ outbox' = Append(outbox, h) /\ buf' = Tail(buf)
      /\ UNCHANGED <<ver, session, since, wire, page, rest>>
  BY DEF Pump
<1>2. UNCHANGED <<last, socket, reading, fetch, view>>
  BY <1>1 DEF page, rest
<1>3. /\ buf' \in Seq(Version) /\ Len(buf') <= BusCap /\ h \in Version
  BY <1>1, Types, WithoutHead
<1>4. /\ Increasing(buf') /\ \A i \in DOMAIN buf' : h < buf'[i]
      /\ Before(wire, buf') /\ \A i \in DOMAIN wire : wire[i] < h
      /\ Before(outbox, buf') /\ \A i \in DOMAIN outbox : outbox[i] < h
      /\ Current(buf') /\ h > since /\ h > last /\ h <= ver
      /\ \A x : In(x, buf) => x = h \/ In(x, buf')
  BY <1>1, Types, PopOrder DEF QueuesInOrder
<1>5. /\ Increasing(outbox') /\ In(h, outbox') /\ \A x : In(x, outbox) => In(x, outbox')
  BY <1>1, <1>3, <1>4, Types, PushOrder DEF QueuesInOrder
<1>6. Before(wire, outbox')
  BY <1>1, <1>3, <1>4, Types, PushOrder DEF QueuesInOrder
<1>7. Before(outbox', buf')
  BY <1>1, <1>3, <1>4, Types, PushOrder
<1>8. /\ outbox' \in Seq(Version) /\ Len(outbox') <= OutboxCap
      /\ \A i \in DOMAIN outbox' : (i \in DOMAIN outbox /\ outbox'[i] = outbox[i]) \/ outbox'[i] = h
  BY <1>1, <1>3, Types, Appended
<1>9. Current(outbox')
  BY <1>4, <1>8 DEF QueuesInOrder, Current
<1>10. TypeOK'
  BY <1>1, <1>2, <1>3, <1>8 DEF TypeOK, Version
<1>11. QueuesInOrder'
  BY <1>1, <1>2, <1>4, <1>5, <1>6, <1>7, <1>9 DEF QueuesInOrder, Current
<1>12. NewestOnItsWay'
  BY <1>1, <1>2, <1>4, <1>5 DEF NewestOnItsWay
<1> QED
  BY <1>1, <1>2, <1>10, <1>11, <1>12 DEF QueuesOfSession

LEMMA SendKeeps ==
  ASSUME StreamInvariant, Send
  PROVE  StreamInvariant'
<1> USE DEF StreamInvariant
<1> PICK h : h = Head(outbox)
  OBVIOUS
<1>1. /\ session \in {"pumping", "overflowed"} /\ outbox # <<>> /\ Len(wire) < WireCap
      /\ wire' = Append(wire, h) /\ outbox' = Tail(outbox)
      /\ UNCHANGED <<ver, session, since, buf, page, rest>>
  BY DEF Send
<1>2. UNCHANGED <<last, socket, reading, fetch, view>>
  BY <1>1 DEF page, rest
<1>3. /\ outbox' \in Seq(Version) /\ Len(outbox') <= OutboxCap /\ h \in Version
  BY <1>1, Types, WithoutHead
<1>4. /\ Increasing(outbox') /\ \A i \in DOMAIN outbox' : h < outbox'[i]
      /\ Before(wire, outbox') /\ \A i \in DOMAIN wire : wire[i] < h
      /\ Before(outbox', buf) /\ \A i \in DOMAIN buf : h < buf[i]
      /\ Current(outbox') /\ h > since /\ h > last /\ h <= ver
      /\ \A x : In(x, outbox) => x = h \/ In(x, outbox')
  BY <1>1, Types, PopOrder DEF QueuesInOrder
<1>5. /\ Increasing(wire') /\ In(h, wire') /\ \A x : In(x, wire) => In(x, wire')
  BY <1>1, <1>3, <1>4, Types, PushOrder DEF QueuesInOrder
<1>6. Before(wire', buf)
  BY <1>1, <1>3, <1>4, Types, PushOrder DEF QueuesInOrder
<1>7. Before(wire', outbox')
  BY <1>1, <1>3, <1>4, Types, PushOrder
<1>8. /\ wire' \in Seq(Version) /\ Len(wire') <= WireCap
      /\ \A i \in DOMAIN wire' : (i \in DOMAIN wire /\ wire'[i] = wire[i]) \/ wire'[i] = h
  BY <1>1, <1>3, Types, Appended
<1>9. Current(wire')
  BY <1>4, <1>8 DEF QueuesInOrder, Current
<1>10. TypeOK'
  BY <1>1, <1>2, <1>3, <1>8 DEF TypeOK, Version
<1>11. QueuesInOrder'
  BY <1>1, <1>2, <1>4, <1>5, <1>6, <1>7, <1>9 DEF QueuesInOrder, Current
<1>12. NewestOnItsWay'
  BY <1>1, <1>2, <1>4, <1>5 DEF NewestOnItsWay
<1> QED
  BY <1>1, <1>2, <1>10, <1>11, <1>12 DEF QueuesOfSession

LEMMA ReceiveKeeps ==
  ASSUME StreamInvariant, NEW f \in Fetch, Receive(f)
  PROVE  StreamInvariant'
<1> USE DEF StreamInvariant
<1> PICK h : h = Head(wire)
  OBVIOUS
<1>1. /\ wire # <<>> /\ last' = h /\ wire' = Tail(wire) /\ StartFetch(f)
      /\ UNCHANGED <<server, socket, reading, view>>
  BY DEF Receive
<1>2. UNCHANGED <<ver, session, since, buf, outbox>>
  BY <1>1 DEF server
<1>3. /\ wire' \in Seq(Version) /\ Len(wire') <= WireCap /\ h \in Version
  BY <1>1, Types, WithoutHead
<1>4. /\ Increasing(wire') /\ \A i \in DOMAIN wire' : h < wire'[i]
      /\ Before(wire', buf) /\ \A i \in DOMAIN buf : h < buf[i]
      /\ Before(wire', outbox) /\ \A i \in DOMAIN outbox : h < outbox[i]
      /\ Current(wire') /\ h > since /\ h > last /\ h <= ver
      /\ \A x : In(x, wire) => x = h \/ In(x, wire')
  BY <1>1, Types, PopOrder DEF QueuesInOrder
<1>5. fetch' \in [Fetch -> [pc : {"none", "asked", "answered"}, snap : 0 .. MaxVer]]
  BY <1>1, MaxVerAssumption DEF StartFetch, TypeOK
<1>6. TypeOK'
  BY <1>1, <1>2, <1>3, <1>5 DEF TypeOK, Version
<1>7. QueuesInOrder'
  <2>1. \A x \in Version : h < x => x > h
    BY <1>3 DEF Version
  <2>2. \A i \in DOMAIN wire' : wire'[i] \in Version
    BY <1>3
  <2>3. Current(wire)' /\ Current(outbox)' /\ Current(buf)'
    BY <1>1, <1>2, <1>4, <2>1, <2>2, Types DEF QueuesInOrder, Current
  <2> QED
    BY <1>2, <1>4, <2>3 DEF QueuesInOrder
<1>8. NewestOnItsWay'
  <2>1. last # ver
    BY <1>3, <1>4, Types DEF Version
  <2> QED
    BY <1>1, <1>2, <1>4, <2>1 DEF NewestOnItsWay
<1> QED
  BY <1>1, <1>2, <1>4, <1>6, <1>7, <1>8 DEF QueuesOfSession

LEMMA BreakKeeps ==
  ASSUME StreamInvariant, Break
  PROVE  StreamInvariant'
<1> USE DEF StreamInvariant
<1>1. /\ session' = "none" /\ socket' = "closed" /\ reading' = TRUE /\ since' = 0 /\ last' = 0
      /\ buf' = <<>> /\ outbox' = <<>> /\ wire' = <<>> /\ UNCHANGED <<ver, fetch, view>>
  BY DEF Break, rest
<1>2. TypeOK'
  BY <1>1, Types DEF TypeOK
<1>3. QueuesInOrder'
  BY <1>1 DEF QueuesInOrder, Increasing, Before, Current
<1> QED
  BY <1>1, <1>2, <1>3, Types DEF QueuesOfSession, NewestOnItsWay

\* Steps that move no event.
LEMMA SessionKeeps ==
  ASSUME StreamInvariant,
         Connect \/ Subscribe \/ Reject \/ Stall \/ Overflow \/ CloseOverflowed
  PROVE  StreamInvariant'
<1> USE DEF StreamInvariant
<1>1. CASE Connect \/ Reject \/ Stall \/ CloseOverflowed
  <2>1. UNCHANGED <<ver, since, buf, outbox, wire, last, fetch, view>>
    BY <1>1 DEF Connect, Reject, Stall, CloseOverflowed, server, page, rest
  <2>2. /\ session' \in {"accepted", "closed"} \/ session' = session
        /\ session' = "accepted" => session \in {"none", "accepted"}
    BY <1>1 DEF Connect, Reject, Stall, CloseOverflowed, server
  <2>3. session' # session => session # "pumping"
    BY <1>1 DEF Connect, Reject, Stall, CloseOverflowed, server
  <2>4. TypeOK'
    BY <1>1, <2>1, <2>2 DEF Connect, Reject, Stall, CloseOverflowed, server, page, TypeOK
  <2>5. QueuesInOrder'
    BY <2>1 DEF QueuesInOrder, Current
  <2> QED
    BY <2>1, <2>2, <2>3, <2>4, <2>5 DEF QueuesOfSession, NewestOnItsWay
<1>2. CASE Subscribe
  <2>1. /\ session = "accepted" /\ session' = "pumping" /\ since' = ver
        /\ UNCHANGED <<ver, buf, outbox, wire, page, rest>>
    BY <1>2 DEF Subscribe
  <2>2. UNCHANGED <<last, socket, reading, fetch, view>>
    BY <2>1 DEF page, rest
  <2>3. wire = <<>> /\ outbox = <<>> /\ buf = <<>>
    BY <2>1 DEF QueuesOfSession
  <2>4. TypeOK'
    BY <2>1, <2>2 DEF TypeOK
  <2>5. QueuesInOrder'
    BY <2>1, <2>3 DEF QueuesInOrder, Increasing, Before, Current
  <2> QED
    BY <2>1, <2>2, <2>4, <2>5, Types DEF QueuesOfSession, NewestOnItsWay
<1>3. CASE Overflow
  <2>1. /\ session = "pumping" /\ session' = "overflowed" /\ buf' = <<>>
        /\ UNCHANGED <<ver, since, outbox, wire, page, rest>>
    BY <1>3 DEF Overflow
  <2>2. UNCHANGED <<last, socket, reading, fetch, view>>
    BY <2>1 DEF page, rest
  <2>3. TypeOK'
    BY <2>1, <2>2, Types DEF TypeOK
  <2>4. QueuesInOrder'
    BY <2>1, <2>2 DEF QueuesInOrder, Increasing, Before, Current
  <2> QED
    BY <2>1, <2>2, <2>3, <2>4 DEF QueuesOfSession, NewestOnItsWay
<1> QED
  BY <1>1, <1>2, <1>3

\* Steps of a refetch.
LEMMA FetchKeeps ==
  ASSUME StreamInvariant, NEW f \in Fetch,
         Open(f) \/ Refresh(f) \/ ServeFetch(f) \/ ShowFetch(f) \/ FailFetch(f)
  PROVE  StreamInvariant'
<1> USE DEF StreamInvariant
<1>1. UNCHANGED <<ver, session, since, buf, outbox, wire, reading, last>> /\ socket' \in {socket, "open"}
  BY DEF Open, Refresh, ServeFetch, ShowFetch, FailFetch, server, page
<1>2. /\ fetch' \in [Fetch -> [pc : {"none", "asked", "answered"}, snap : 0 .. MaxVer]]
      /\ view' \in 0 .. MaxVer
  <2> DEFINE Fetches == [pc : {"none", "asked", "answered"}, snap : 0 .. MaxVer]
  <2>1. /\ fetch \in [Fetch -> Fetches] /\ view \in 0 .. MaxVer /\ ver \in 0 .. MaxVer
        /\ fetch[f].snap \in 0 .. MaxVer /\ 0 \in 0 .. MaxVer
    BY MaxVerAssumption DEF TypeOK
  <2>2. CASE Open(f) \/ Refresh(f)
    <3>1. fetch' = [fetch EXCEPT ![f] = [pc |-> "asked", snap |-> 0]] /\ view' = view
      BY <2>2 DEF Open, Refresh, StartFetch
    <3>2. [pc |-> "asked", snap |-> 0] \in Fetches
      BY <2>1
    <3> QED
      BY <2>1, <3>1, <3>2
  <2>3. CASE ServeFetch(f)
    <3>1. fetch' = [fetch EXCEPT ![f] = [pc |-> "answered", snap |-> ver]] /\ view' = view
      BY <2>3 DEF ServeFetch
    <3> QED
      BY <2>1, <3>1
  <2>4. CASE ShowFetch(f) \/ FailFetch(f)
    <3>1. fetch' = [fetch EXCEPT ![f] = NoFetch] /\ view' \in {view, fetch[f].snap}
      BY <2>4 DEF ShowFetch, FailFetch
    <3> QED
      BY <2>1, <3>1 DEF NoFetch
  <2> QED
    BY <2>2, <2>3, <2>4
<1>3. TypeOK'
  BY <1>1, <1>2 DEF TypeOK
<1>4. QueuesInOrder'
  BY <1>1 DEF QueuesInOrder, Current
<1> QED
  BY <1>1, <1>3, <1>4 DEF QueuesOfSession, NewestOnItsWay

-----------------------------------------------------------------------------
LEMMA InitHolds == Init => StreamInvariant
<1> SUFFICES ASSUME Init PROVE StreamInvariant
  OBVIOUS
<1>1. TypeOK
  BY CapAssumption, MaxVerAssumption DEF Init, NoFetch, TypeOK
<1>2. QueuesInOrder
  BY DEF Init, QueuesInOrder, Increasing, Before, Current
<1>3. QueuesOfSession /\ NewestOnItsWay
  BY DEF Init, QueuesOfSession, NewestOnItsWay
<1> QED
  BY <1>1, <1>2, <1>3 DEF StreamInvariant

LEMMA StepKeeps == StreamInvariant /\ [Next]_vars => StreamInvariant'
<1> SUFFICES ASSUME StreamInvariant, [Next]_vars PROVE StreamInvariant'
  OBVIOUS
<1>1. CASE UNCHANGED vars
  <2>1. UNCHANGED <<ver, session, since, buf, outbox, wire, socket, reading, last, fetch, view>>
    BY <1>1 DEF vars, server, page, rest
  <2> QED
    BY <2>1 DEF StreamInvariant, TypeOK, QueuesInOrder, Current, QueuesOfSession, NewestOnItsWay
<1>2. ASSUME NetworkBreaks \/ PingTimeout \/ SeeClose
      PROVE  StreamInvariant'
  BY <1>2, BreakKeeps DEF NetworkBreaks, PingTimeout, SeeClose
<1> QED
  BY <1>1, <1>2, PublishKeeps, PumpKeeps, SendKeeps, ReceiveKeeps, SessionKeeps, FetchKeeps DEF Next

-----------------------------------------------------------------------------
\* The inductive invariant: the three queues in order, behind one another and after
\* what the page got, and the newest event among them.
THEOREM StreamHolds == Spec => []StreamInvariant
  BY InitHolds, StepKeeps, PTL DEF Spec

\* Type correctness; the queues stay within their capacities (TypeOK).
THEOREM StreamTypeOK == Spec => []TypeOK
<1>1. StreamInvariant => TypeOK
  BY DEF StreamInvariant
<1> QED
  BY <1>1, StreamHolds, PTL

\* Frames reach the page in order, none twice and none from before the subscription,
\* for queues of any size (routes/Events.kt, EventBus.kt).
THEOREM FramesAreInOrder == Spec => []FramesInOrder
<1>1. StreamInvariant => FramesInOrder
  <2> SUFFICES ASSUME StreamInvariant PROVE FramesInOrder
    OBVIOUS
  <2> USE DEF StreamInvariant
  <2> DEFINE front == wire \o outbox
  <2>1. /\ front \in Seq(Version) /\ wire \in Seq(Version) /\ outbox \in Seq(Version)
        /\ buf \in Seq(Version)
    BY Types, Joined
  <2>2. Increasing(front) /\ Increasing(buf)
    BY <2>1, JoinedInOrder DEF QueuesInOrder
  <2>3. \A i \in DOMAIN front :
          (\E k \in DOMAIN wire : front[i] = wire[k]) \/ (\E k \in DOMAIN outbox : front[i] = outbox[k])
    BY <2>1, JoinedHas
  <2>4. Before(front, buf) /\ Current(front)
    BY <2>3 DEF QueuesInOrder, Before, Current
  <2> HIDE DEF front
  <2>5. Increasing(front \o buf)
    BY <2>1, <2>2, <2>4, JoinedInOrder
  <2>6. \A i \in DOMAIN (front \o buf) :
          \/ \E k \in DOMAIN front : (front \o buf)[i] = front[k]
          \/ \E k \in DOMAIN buf : (front \o buf)[i] = buf[k]
    BY <2>1, JoinedHas
  <2>7. Current(front \o buf)
    BY <2>4, <2>6 DEF QueuesInOrder, Current
  <2>8. InFlight = front \o buf
    BY DEF InFlight, front
  <2> QED
    BY <2>5, <2>7, <2>8 DEF FramesInOrder, Increasing, Current
<1> QED
  BY <1>1, StreamHolds, PTL

\* However events pile up and are dropped, the newest one since the subscription has
\* come or is coming (EventBus.kt 19-21, routes/Events.kt 34-37).
THEOREM NewestSurvives == Spec => []NewestIsNotLost
<1>1. StreamInvariant => NewestIsNotLost
  <2> SUFFICES ASSUME StreamInvariant, session = "pumping", ver > since, last # ver
               PROVE  ver \in Range(InFlight)
    BY DEF NewestIsNotLost
  <2> USE DEF StreamInvariant
  <2> DEFINE front == wire \o outbox
  <2>1. /\ front \in Seq(Version) /\ wire \in Seq(Version) /\ outbox \in Seq(Version)
        /\ buf \in Seq(Version) /\ front \o buf \in Seq(Version)
    BY Types, Joined
  <2>2. In(ver, front) \/ In(ver, buf)
    BY <2>1, JoinedKeeps DEF NewestOnItsWay
  <2>3. In(ver, front \o buf)
    BY <2>1, <2>2, JoinedKeeps
  <2> QED
    BY <2>3 DEF In, InFlight, front, Range
<1> QED
  BY <1>1, StreamHolds, PTL
=============================================================================
