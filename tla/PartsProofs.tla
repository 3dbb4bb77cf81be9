---------------------------- MODULE PartsProofs ----------------------------
(* Theorems about the five specifications of MCParts, for every value of the    *)
(* constants: pages of any size, any number of refetches, deposits, openings of *)
(* the scanner, payments and toasts.  Each part has an inductive invariant of   *)
(* its own; since the parts share no variable, the run's specification keeps    *)
(* their conjunction.                                                           *)
EXTENDS MCParts, WebhookProofs, SequenceTheorems, FiniteSetTheorems

-----------------------------------------------------------------------------
(* WalletPage.                                                                *)

\* A function on 1 .. n is a sequence of length n.
LEMMA FunctionIsSeq ==
  ASSUME NEW S, NEW n \in Nat, NEW g \in [1 .. n -> S]
  PROVE  g \in Seq(S) /\ Len(g) = n
<1>1. g \in Seq(S)
  OBVIOUS
<1>2. DOMAIN g = 1 .. n /\ DOMAIN g = 1 .. Len(g) /\ Len(g) \in Nat
  BY <1>1, LenProperties
<1> QED
  BY <1>1, <1>2

\* How many payments a page of a history of v has.
PageLen(v, offset) == IF v < offset THEN 0 ELSE IF v - offset < PAGE THEN v - offset ELSE PAGE

\* A page is a run of neighbours of the history.
LEMMA PageIsRun ==
  ASSUME NEW v \in 0 .. History, NEW offset \in Nat
  PROVE  /\ PageLen(v, offset) \in Nat
         /\ Page!Page(v, offset) \in Seq(1 .. History)
         /\ Len(Page!Page(v, offset)) = PageLen(v, offset)
         /\ \A i \in 1 .. PageLen(v, offset) : Page!Page(v, offset)[i] = v + 1 - offset - i
<1> DEFINE n == PageLen(v, offset)
           f(i) == v + 1 - offset - i
<1>1. n \in Nat
  BY PartsAssumption DEF PageLen
<1>2. Page!Page(v, offset) = [i \in 1 .. n |-> f(i)]
  BY DEF Page!Page, PageLen
<1>3. \A i \in 1 .. n : f(i) \in 1 .. History
  BY PartsAssumption DEF PageLen
<1>4. Page!Page(v, offset) \in [1 .. n -> 1 .. History]
  BY <1>2, <1>3
<1>5. \A i \in 1 .. n : Page!Page(v, offset)[i] = f(i)
  BY <1>2
<1>6. Page!Page(v, offset) \in Seq(1 .. History) /\ Len(Page!Page(v, offset)) = n
  <2> HIDE DEF n, f
  <2> QED
    BY <1>1, <1>4, FunctionIsSeq
<1> QED
  BY <1>1, <1>5, <1>6

\* The list ends where the next page starts, or at the oldest payment.
EndsAt(v) ==
    /\ payments = <<>> => nextOffset = NoOffset
    /\ payments # <<>> =>
        payments[Len(payments)] <= (IF nextOffset = NoOffset THEN 1 ELSE v + 1 - nextOffset)

ListInvariant ==
    /\ Page!TypeOK
    /\ \A r \in Refetch : refetch[r].to <= history
    /\ nextOffset # NoOffset => nextOffset <= history
    /\ more # Page!NoMore => more.offset <= history /\ more.request.to <= history
    /\ ~raced =>
        /\ \A i \in 2 .. Len(payments) : payments[i] >= payments[i - 1] - 1
        /\ EndsAt(history)
        /\ more # Page!NoMore =>
            /\ more.offset = nextOffset /\ nextOffset <= more.request.from
            /\ EndsAt(more.request.from)

\* The requests and what they may answer with.
LEMMA RequestTypes ==
  ASSUME history \in 0 .. History
  PROVE  /\ Page!Idle \in Page!HttpRequest /\ Page!Asked \in Page!HttpRequest
         /\ Page!Idle.to <= history /\ Page!Idle.phase = "none"
         /\ Page!Asked.from = history /\ Page!Asked.to = history
         /\ \A q \in Page!HttpRequest :
              /\ Page!Answering(q) \in Page!HttpRequest
              /\ Page!Answering(q).from = q.from /\ Page!Answering(q).to = history
              /\ \A v \in Page!Reads(q) : v \in q.from .. q.to /\ v \in 0 .. q.to
<1> USE PartsAssumption
<1>1. /\ Page!Idle \in Page!HttpRequest /\ Page!Idle.to <= history /\ Page!Idle.phase = "none"
  BY DEF Page!Idle, Page!HttpRequest
<1>2. /\ Page!Asked \in Page!HttpRequest
      /\ Page!Asked.from = history /\ Page!Asked.to = history
  BY DEF Page!Asked, Page!HttpRequest, Page!CallPhase
<1>3. ASSUME NEW q \in Page!HttpRequest
      PROVE  /\ Page!Answering(q) \in Page!HttpRequest
             /\ Page!Answering(q).from = q.from /\ Page!Answering(q).to = history
  BY <1>3 DEF Page!Answering, Page!HttpRequest, Page!CallPhase
<1>4. ASSUME NEW q \in Page!HttpRequest, NEW v \in Page!Reads(q)
      PROVE  v \in q.from .. q.to /\ v \in 0 .. q.to
  <2>1. q.from \in Nat /\ q.to \in Nat
    BY DEF Page!HttpRequest
  <2> QED
    BY <2>1 DEF Page!Reads
<1> QED
  BY <1>1, <1>2, <1>3, <1>4

LEMMA FirstRefetchTypes ==
  ASSUME history \in 0 .. History, NEW f \in Page!FirstRefetch
  PROVE  f \in [Refetch -> Page!HttpRequest] /\ \A r \in Refetch : f[r].to <= history
<1>1. PICK first \in Refetch : f = [r \in Refetch |-> IF r = first THEN Page!Asked ELSE Page!Idle]
  BY DEF Page!FirstRefetch
<1> QED
  BY <1>1, RequestTypes

LEMMA ListInit == Page!Init => ListInvariant
<1> SUFFICES ASSUME Page!Init PROVE ListInvariant
  OBVIOUS
<1>1. /\ history \in 0 .. History /\ balance = 0 /\ nextOffset = NoOffset /\ isSyncing = TRUE
      /\ more = Page!NoMore /\ raced = FALSE /\ refetch \in Page!FirstRefetch
  BY DEF Page!Init
<1>2. /\ refetch \in [Refetch -> Page!HttpRequest]
      /\ \A r \in Refetch : refetch[r].to <= history
  BY <1>1, FirstRefetchTypes
<1>3. payments = <<>> /\ payments \in Seq(1 .. History) /\ Len(payments) = 0
  BY EmptySeq DEF Page!Init
<1>4. 0 \in 0 .. History
  BY PartsAssumption
<1>5. Page!TypeOK
  BY <1>1, <1>2, <1>3, <1>4 DEF Page!TypeOK
<1> QED
  BY <1>1, <1>2, <1>3, <1>5 DEF ListInvariant, EndsAt

LEMMA ListNext == ListInvariant /\ [Page!Next]_pageVars => ListInvariant'
<1> SUFFICES ASSUME ListInvariant, [Page!Next]_pageVars PROVE ListInvariant'
  OBVIOUS
<1> USE PartsAssumption DEF Page!TypeOK
<1>0. /\ history \in 0 .. History /\ payments \in Seq(1 .. History) /\ Len(payments) \in Nat
      /\ nextOffset \in Nat \cup {NoOffset} /\ refetch \in [Refetch -> Page!HttpRequest]
      /\ balance \in 0 .. History
  BY DEF ListInvariant
<1>00. Page!NoMore' = Page!NoMore /\ Page!HttpRequest' = Page!HttpRequest
  BY DEF Page!NoMore, Page!HttpRequest, Page!CallPhase, Page!Idle
<1>000. \A q \in Page!HttpRequest : q.from \in Nat /\ q.to \in 0 .. History
  BY DEF Page!HttpRequest
<1>1. CASE Page!NewPayment
  <2>1. history' = history + 1 /\ history' \in 0 .. History
    BY <1>1, <1>0 DEF Page!NewPayment
  <2>2. UNCHANGED <<payments, balance, nextOffset, isSyncing, refetch, more, raced>>
    BY <1>1 DEF Page!NewPayment
  <2>3. ~raced /\ EndsAt(history) => EndsAt(history)'
    BY <2>1, <2>2, <1>0, ElementOfSeq DEF EndsAt, ListInvariant
  <2>4. Page!TypeOK'
    BY <2>1, <2>2, <1>00 DEF ListInvariant
  <2>5. EndsAt(more.request.from)' <=> EndsAt(more.request.from)
    BY <2>2 DEF EndsAt
  <2>6. /\ \A r \in Refetch : refetch'[r].to <= history'
        /\ more' # Page!NoMore => more'.offset <= history' /\ more'.request.to <= history'
    BY <2>1, <2>2, <1>0, <1>000 DEF ListInvariant
  <2> QED
    BY <2>1, <2>2, <2>3, <2>4, <2>5, <2>6, <1>0, <1>00 DEF ListInvariant
<1>2. ASSUME NEW r \in Refetch,
             \/ Page!StartRefetch(r) \/ Page!RefetchHeaders(r)
             \/ Page!RefetchLandsInPart(r) \/ Page!RefetchFails(r)
      PROVE  ListInvariant'
  <2>1. PICK q \in Page!HttpRequest : refetch' = [refetch EXCEPT ![r] = q] /\ q.to <= history
    BY <1>2, <1>0, RequestTypes
    DEF Page!StartRefetch, Page!RefetchHeaders, Page!RefetchLandsInPart, Page!RefetchFails, Page!Ends
  <2>2. /\ refetch' \in [Refetch -> Page!HttpRequest]
        /\ \A p \in Refetch : refetch'[p].to <= history
    BY <2>1, <1>0 DEF ListInvariant
  <2>3. UNCHANGED <<history, payments, nextOffset, more, raced>> /\ isSyncing' \in BOOLEAN
    BY <1>2 DEF Page!StartRefetch, Page!RefetchHeaders, Page!RefetchLandsInPart, Page!RefetchFails,
                Page!StillSyncing, ListInvariant
  <2>4. balance' \in 0 .. History
    <3>1. CASE Page!RefetchLandsInPart(r)
      BY <3>1, <1>0, <1>000, RequestTypes DEF Page!RefetchLandsInPart
    <3>2. CASE ~Page!RefetchLandsInPart(r)
      BY <1>2, <3>2, <1>0 DEF Page!StartRefetch, Page!RefetchHeaders, Page!RefetchFails
    <3> QED
      BY <3>1, <3>2
  <2>5. Page!TypeOK'
    BY <2>2, <2>3, <2>4, <1>00 DEF ListInvariant
  <2>6. UNCHANGED <<EndsAt(history), EndsAt(more.request.from)>>
    BY <2>3 DEF EndsAt
  <2> QED
    BY <2>2, <2>3, <2>5, <2>6, <1>00 DEF ListInvariant
<1>3. ASSUME NEW r \in Refetch, Page!RefetchLands(r)
      PROVE  ListInvariant'
  <2>1. PICK list \in 0 .. history, info \in 0 .. history :
          payments' = Page!Page(list, 0) /\ nextOffset' = Page!NextOffset(list, 0) /\ balance' = info
    <3>1. refetch[r] \in Page!HttpRequest /\ refetch[r].to <= history
      BY <1>0 DEF ListInvariant
    <3>2. \A v \in Page!Reads(refetch[r]) : v \in 0 .. history
      BY <3>1, <1>0, <1>000, RequestTypes
    <3> QED
      BY <1>3, <3>2 DEF Page!RefetchLands
  <2>2. /\ history' = history /\ more' = more /\ isSyncing' = FALSE
        /\ raced' = (more # Page!NoMore)
    BY <1>3 DEF Page!RefetchLands
  <2>3. /\ refetch' \in [Refetch -> Page!HttpRequest]
        /\ \A s \in Refetch : refetch'[s].to <= history
    BY <1>3, <1>0, RequestTypes DEF Page!RefetchLands, Page!Ends, ListInvariant
  <2>4. /\ PageLen(list, 0) \in Nat
        /\ payments' \in Seq(1 .. History) /\ Len(payments') = PageLen(list, 0)
        /\ \A i \in 1 .. PageLen(list, 0) : payments'[i] = list + 1 - i
    <3>1. list \in 0 .. History /\ 0 \in Nat
      BY <1>0
    <3>2. \A i \in 1 .. PageLen(list, 0) : list + 1 - 0 - i = list + 1 - i
      BY <3>1, PageIsRun
    <3> QED
      BY <2>1, <3>1, <3>2, PageIsRun
  <2>5. nextOffset' = IF list >= PAGE THEN PAGE ELSE NoOffset
    BY <2>1, <1>0 DEF Page!NextOffset
  <2>6. Page!TypeOK'
    <3>1. balance' \in 0 .. History /\ raced' \in BOOLEAN /\ nextOffset' \in Nat \cup {NoOffset}
      BY <2>1, <2>2, <2>5, <1>0
    <3>2. more' = Page!NoMore' \/ more' \in [offset : Nat, request : Page!HttpRequest']
      BY <2>2, <1>00 DEF ListInvariant
    <3> QED
      BY <2>2, <2>3, <2>4, <3>1, <3>2, <1>0, <1>00
  <2>7. \A i \in 2 .. Len(payments') : payments'[i] >= payments'[i - 1] - 1
    <3>1. list \in Nat
      BY <1>0
    <3>2. \A i \in 2 .. Len(payments') :
            payments'[i] = list + 1 - i /\ payments'[i - 1] = list + 1 - (i - 1)
      BY <2>4
    <3> QED
      BY <2>4, <3>1, <3>2
  <2>8. EndsAt(history)'
    <3>1. payments' = <<>> <=> list = 0
      BY <2>1, <2>4, <1>0, EmptySeq DEF PageLen
    <3>2. CASE list = 0
      BY <3>1, <3>2, <2>5 DEF EndsAt
    <3>3. CASE list # 0
      <4>1. PageLen(list, 0) \in 1 .. list /\ payments'[Len(payments')] = list + 1 - PageLen(list, 0)
        BY <3>3, <2>1, <2>4, <1>0 DEF PageLen
      <4> QED
        BY <3>1, <3>3, <4>1, <2>1, <2>2, <2>5, <1>0 DEF EndsAt, PageLen
    <3> QED
      BY <3>2, <3>3
  <2> QED
    <3>1. nextOffset' # NoOffset => nextOffset' <= history
      BY <2>1, <2>5, <1>0
    <3>2. more # Page!NoMore => more.offset <= history /\ more.request.to <= history
      BY DEF ListInvariant
    <3> QED
      BY <2>2, <2>3, <2>6, <2>7, <2>8, <3>1, <3>2, <1>00 DEF ListInvariant
<1>4. CASE Page!LoadMore
  <2>1. /\ nextOffset # NoOffset /\ more' = [offset |-> nextOffset, request |-> Page!Asked]
        /\ UNCHANGED <<history, payments, balance, nextOffset, isSyncing, refetch, raced>>
    BY <1>4 DEF Page!LoadMore
  <2>2. /\ more'.offset = nextOffset /\ more'.request = Page!Asked
        /\ more'.request.from = history /\ more'.request.to = history
    BY <2>1, <1>0, RequestTypes
  <2>3. Page!TypeOK'
    BY <2>1, <1>0, <1>00, RequestTypes DEF ListInvariant
  <2>4. EndsAt(history)' <=> EndsAt(history)
    BY <2>1 DEF EndsAt
  <2>5. EndsAt(more.request.from)' <=> EndsAt(history)
    BY <2>1, <2>2 DEF EndsAt
  <2> QED
    BY <2>1, <2>2, <2>3, <2>4, <2>5, <1>0, <1>00 DEF ListInvariant
<1>5. CASE Page!MoreHeaders
  <2>0. /\ more # Page!NoMore /\ more \in [offset : Nat, request : Page!HttpRequest]
        /\ more.request \in Page!HttpRequest
    BY <1>5, <1>0, RequestTypes DEF Page!MoreHeaders, Page!NoMore, ListInvariant
  <2>1. /\ more' = [more EXCEPT !.request = Page!Answering(more.request)]
        /\ UNCHANGED <<history, payments, balance, nextOffset, isSyncing, refetch, raced>>
    BY <1>5 DEF Page!MoreHeaders
  <2>2. /\ more' \in [offset : Nat, request : Page!HttpRequest]
        /\ more'.offset = more.offset /\ more'.request = Page!Answering(more.request)
        /\ more'.request.from = more.request.from /\ more'.request.to = history
    BY <2>0, <2>1, <1>0, RequestTypes
  <2>3. Page!TypeOK'
    BY <2>1, <2>2, <1>00 DEF ListInvariant
  <2>4. EndsAt(history)' <=> EndsAt(history)
    BY <2>1 DEF EndsAt
  <2>5. EndsAt(more.request.from)' <=> EndsAt(more.request.from)
    BY <2>1, <2>2 DEF EndsAt
  <2> QED
    BY <2>0, <2>1, <2>2, <2>3, <2>4, <2>5, <1>0, <1>00 DEF ListInvariant
<1>6. CASE Page!MoreFails
  <2>1. /\ more' = Page!NoMore
        /\ UNCHANGED <<history, payments, balance, nextOffset, isSyncing, refetch, raced>>
    BY <1>6 DEF Page!MoreFails
  <2>2. EndsAt(history)' <=> EndsAt(history)
    BY <2>1 DEF EndsAt
  <2> QED
    BY <2>1, <2>2, <1>00 DEF ListInvariant
<1>7. CASE Page!MoreBreaks
  <2>1. /\ payments' = <<>> /\ balance' = 0 /\ nextOffset' = NoOffset /\ isSyncing' = TRUE
        /\ refetch' \in Page!FirstRefetch /\ more' = Page!NoMore /\ raced' = FALSE
        /\ history' = history
    BY <1>7 DEF Page!MoreBreaks
  <2>2. payments' \in Seq(1 .. History) /\ Len(payments') = 0
    BY <2>1, EmptySeq
  <2>3. /\ refetch' \in [Refetch -> Page!HttpRequest]
        /\ \A r \in Refetch : refetch'[r].to <= history
    BY <2>1, <1>0, FirstRefetchTypes
  <2>4. balance' \in 0 .. History /\ isSyncing' \in BOOLEAN /\ raced' \in BOOLEAN
        /\ history' \in 0 .. History /\ nextOffset' \in Nat \cup {NoOffset}
    <3>1. 0 \in 0 .. History
      BY PartsAssumption
    <3>2. balance' \in 0 .. History
      BY <2>1, <3>1, Zenon
    <3>3. history' \in 0 .. History
      BY <2>1, <1>0, Zenon
    <3> QED
      BY <2>1, <3>2, <3>3, Zenon
  <2>5. Page!TypeOK'
    BY <2>1, <2>2, <2>3, <2>4, <1>00
  <2> QED
    BY <2>1, <2>2, <2>3, <2>5, <1>00 DEF ListInvariant, EndsAt
<1>8. CASE Page!MoreLands
  <2>0. /\ more # Page!NoMore /\ more \in [offset : Nat, request : Page!HttpRequest]
        /\ more.request \in Page!HttpRequest /\ more.request.to <= history
    BY <1>8, <1>0, RequestTypes DEF Page!MoreLands, Page!NoMore, ListInvariant
  <2>1. PICK list \in more.request.from .. more.request.to :
          /\ payments' = payments \o Page!Page(list, more.offset)
          /\ nextOffset' = Page!NextOffset(list, more.offset)
    BY <1>8, <2>0, <1>0, RequestTypes DEF Page!MoreLands
  <2>2. more' = Page!NoMore /\ UNCHANGED <<history, balance, isSyncing, refetch, raced>>
    BY <1>8 DEF Page!MoreLands
  <2> DEFINE off == more.offset
             new == Page!Page(list, off)
             n == PageLen(list, off)
  <2>3. off \in Nat /\ list \in 0 .. History /\ list <= history /\ list >= more.request.from
        /\ more.request.from \in Nat
    BY <2>0, <2>1, <1>0, <1>000
  <2>4. /\ n \in Nat /\ new \in Seq(1 .. History) /\ Len(new) = n
        /\ \A i \in 1 .. n : new[i] = list + 1 - off - i
    BY <2>3, PageIsRun
  <2>5. /\ payments' \in Seq(1 .. History) /\ Len(payments') = Len(payments) + n
        /\ \A i \in 1 .. Len(payments) + n :
              payments'[i] = IF i <= Len(payments) THEN payments[i] ELSE new[i - Len(payments)]
    <3>1. payments' = payments \o new
      BY <2>1
    <3> HIDE DEF new, n
    <3>2. /\ payments \o new \in Seq(1 .. History) /\ Len(payments \o new) = Len(payments) + Len(new)
          /\ \A i \in 1 .. Len(payments) + Len(new) :
                (payments \o new)[i] = IF i <= Len(payments) THEN payments[i] ELSE new[i - Len(payments)]
      BY <2>4, <1>0, ConcatProperties
    <3> QED
      BY <3>1, <3>2, <2>4
  <2>6. nextOffset' = IF list >= off + PAGE THEN off + PAGE ELSE NoOffset
    BY <2>1, <2>3 DEF Page!NextOffset
  <2>7. nextOffset' # NoOffset => nextOffset' \in Nat /\ nextOffset' <= history
    <3> HIDE DEF off
    <3> QED
      BY <2>6, <2>3, <1>0
  <2>8. Page!TypeOK'
    BY <2>2, <2>5, <2>6, <2>3, <1>0, <1>00 DEF ListInvariant
  <2>9. ASSUME ~raced
        PROVE  (\A i \in 2 .. Len(payments') : payments'[i] >= payments'[i - 1] - 1) /\ EndsAt(history)'
    <3>1. off = nextOffset /\ off <= more.request.from /\ EndsAt(more.request.from) /\ nextOffset # NoOffset
      BY <2>9, <2>0, <2>3 DEF ListInvariant
    <3>2. payments # <<>> /\ Len(payments) >= 1
      BY <3>1, <1>0, EmptySeq DEF EndsAt
    <3> DEFINE last == payments[Len(payments)]
    <3>3. last \in 1 .. History /\ last <= list + 1 - off
      <4>1. last \in 1 .. History
        BY <3>2, <1>0, ElementOfSeq
      <4>2. last <= more.request.from + 1 - off
        BY <3>1, <3>2 DEF EndsAt
      <4> QED
        BY <4>1, <4>2, <2>0, <2>3
    <3>4. \A i \in 2 .. Len(payments') : payments'[i] >= payments'[i - 1] - 1
      <4> SUFFICES ASSUME NEW i \in 2 .. Len(payments')
                   PROVE  payments'[i] >= payments'[i - 1] - 1
        OBVIOUS
      <4>1. CASE i <= Len(payments)
        <5>1. payments'[i] = payments[i] /\ payments'[i - 1] = payments[i - 1]
          <6> HIDE DEF n, new
          <6>1. /\ i \in 1 .. Len(payments) + n /\ i - 1 \in 1 .. Len(payments) + n
                /\ i - 1 <= Len(payments)
            BY <4>1, <2>5, <2>4, <1>0
          <6> QED
            BY <6>1, <4>1, <2>5
        <5> QED
          BY <5>1, <4>1, <2>9, <1>0 DEF ListInvariant
      <4>2. CASE i = Len(payments) + 1
        <5>1. payments'[i] = new[1] /\ payments'[i - 1] = last /\ 1 \in 1 .. n
          <6> HIDE DEF n, new
          <6>1. n >= 1 /\ i - 1 = Len(payments) /\ i - Len(payments) = 1 /\ i - 1 \in 1 .. Len(payments) + n
            BY <4>2, <2>5, <2>4, <1>0, <3>2
          <6>2. i \in 1 .. Len(payments) + n /\ ~(i <= Len(payments)) /\ i - 1 <= Len(payments)
            BY <4>2, <6>1, <2>4, <1>0
          <6>3. payments'[i] = new[i - Len(payments)]
            BY <6>2, <2>5
          <6>4. payments'[i - 1] = payments[i - 1]
            BY <6>1, <6>2, <2>5
          <6>5. payments'[i] = new[1] /\ 1 \in 1 .. n
            <7>1. n \in Nat
              BY <2>4
            <7>2. 1 \in 1 .. n
              BY <6>1, <7>1
            <7>3. payments'[i] = new[1]
              <8>1. i - Len(payments) = 1
                BY <6>1
              <8> QED
                BY <8>1, <6>3
            <7> QED
              BY <7>2, <7>3
          <6>6. payments'[i - 1] = last
            BY <6>1, <6>4
          <6> QED
            BY <6>5, <6>6
        <5>2. new[1] = list + 1 - off - 1
          BY <5>1, <2>4
        <5> QED
          BY <5>1, <5>2, <3>3, <2>3
      <4>3. CASE i > Len(payments) + 1
        <5>1. /\ payments'[i] = new[i - Len(payments)] /\ payments'[i - 1] = new[i - 1 - Len(payments)]
              /\ i - Len(payments) \in 1 .. n /\ i - 1 - Len(payments) \in 1 .. n
          <6> HIDE DEF n, new
          <6>1. Len(payments) \in Nat /\ i \in 2 .. Len(payments) + n
            BY <2>5, <2>4, <1>0
          <6>2. /\ i \in 1 .. Len(payments) + n /\ i - 1 \in 1 .. Len(payments) + n
                /\ ~(i <= Len(payments)) /\ ~(i - 1 <= Len(payments))
                /\ i - Len(payments) \in 1 .. n /\ i - 1 - Len(payments) \in 1 .. n
            BY <4>3, <6>1, <2>4
          <6>3. payments'[i] = new[i - Len(payments)]
            BY <6>2, <2>5
          <6>4. payments'[i - 1] = new[i - 1 - Len(payments)]
            BY <6>2, <2>5
          <6> QED
            BY <6>2, <6>3, <6>4
        <5>2. /\ new[i - Len(payments)] = list + 1 - off - (i - Len(payments))
              /\ new[i - 1 - Len(payments)] = list + 1 - off - (i - 1 - Len(payments))
          BY <5>1, <2>4
        <5> QED
          BY <5>1, <5>2, <2>3, <1>0
      <4> QED
        <5> HIDE DEF n, new
        <5>1. i \in Nat
          BY <2>5, <2>4, <1>0
        <5> QED
          BY <4>1, <4>2, <4>3, <5>1, <1>0
    <3>5. payments' # <<>>
      BY <3>2, <2>5, <2>4, EmptySeq
    <3>6. payments'[Len(payments')] = IF n = 0 THEN last ELSE list + 1 - off - n
      <4>1. CASE n = 0
        BY <4>1, <3>2, <2>5, <1>0
      <4>2. CASE n # 0
        <5>1. payments'[Len(payments')] = new[n] /\ n \in 1 .. n
          <6> HIDE DEF n, new
          <6>1. /\ Len(payments') \in 1 .. Len(payments) + n /\ ~(Len(payments') <= Len(payments))
                /\ Len(payments') - Len(payments) = n /\ n \in 1 .. n
            BY <4>2, <2>5, <2>4, <1>0
          <6> QED
            BY <6>1, <2>5
        <5>2. new[n] = list + 1 - off - n
          BY <5>1, <2>4
        <5> QED
          BY <4>2, <5>1, <5>2
      <4> QED
        BY <4>1, <4>2
    <3>7. EndsAt(history)'
      BY <3>1, <3>3, <3>5, <3>6, <2>2, <2>3, <2>6, <1>0 DEF EndsAt, PageLen
    <3> QED
      BY <3>4, <3>7
  <2> QED
    BY <2>2, <2>7, <2>8, <2>9, <1>0, <1>00 DEF ListInvariant
<1>9. CASE UNCHANGED pageVars
  <2>1. UNCHANGED <<history, payments, balance, nextOffset, isSyncing, refetch, more, raced>>
    BY <1>9 DEF pageVars
  <2> QED
    BY <2>1, <1>00 DEF ListInvariant, EndsAt
<1> QED
  BY <1>1, <1>2, <1>3, <1>4, <1>5, <1>6, <1>7, <1>8, <1>9 DEF Page!Next

-----------------------------------------------------------------------------
(* Receiving.                                                                 *)

\* Two claims that are awaited are one; a deposit that can be claimed is one of the
\* wallet's.
ReceiveInvariant ==
    /\ Receive!TypeOK
    /\ Receive!OneAddressRequest
    /\ selected.mature => selected.deposit \in Deposit
    /\ busy <=> claims # {}
    /\ \A c, d \in claims : c = d

InvoiceState ==
    [step : {"input", "loading", "qr"}, input : Request \cup {None},
     asked : Request \cup {None}, shown : Request \cup {None}]

LEMMA ReceiveInit == Receive!Init => ReceiveInvariant
<1> SUFFICES ASSUME Receive!Init PROVE ReceiveInvariant
  OBVIOUS
<1>1. Receive!TypeOK
  <2>1. /\ Receive!FreshInvoice \in InvoiceState
        /\ Receive!FreshAddress \in [address : BOOLEAN, error : BOOLEAN, loading : BOOLEAN]
        /\ Receive!Nothing \in [deposit : Deposit \cup {None}, mature : BOOLEAN]
    BY DEF Receive!FreshInvoice, Receive!FreshAddress, Receive!Nothing, InvoiceState
  <2>2. /\ chain \in [Deposit -> {"confirming", "mature", "claimed"}]
        /\ shown \in [Deposit -> {"absent", "confirming", "mature"}]
    BY DEF Receive!Init
  <2>3. /\ isReceiveOpen = FALSE /\ tab = "lightning" /\ ln = Receive!FreshInvoice
        /\ btc = Receive!FreshAddress /\ selected = Receive!Nothing /\ busy = FALSE /\ claims = {}
    BY DEF Receive!Init
  <2>4. pending \in 0 .. 2
    BY DEF Receive!Init
  <2> QED
    BY <2>1, <2>2, <2>3, <2>4 DEF Receive!TypeOK, InvoiceState
<1> QED
  BY <1>1 DEF Receive!Init, Receive!FreshAddress, Receive!Nothing, Receive!OneAddressRequest,
              ReceiveInvariant

\* The steps of the receive dialog leave the deposits alone, and the other way round.
LEMMA ReceiveDialogKeeps ==
  ASSUME ReceiveInvariant, UNCHANGED Receive!deposits,
         isReceiveOpen' \in BOOLEAN, tab' \in {"lightning", "bitcoin"}, ln' \in InvoiceState,
         btc' \in [address : BOOLEAN, error : BOOLEAN, loading : BOOLEAN],
         pending' \in 0 .. 1, btc'.loading <=> pending' = 1
  PROVE  ReceiveInvariant'
BY DEF ReceiveInvariant, Receive!TypeOK, Receive!OneAddressRequest, Receive!deposits, InvoiceState

LEMMA DepositsKeep ==
  ASSUME ReceiveInvariant, UNCHANGED Receive!dialog,
         chain' \in [Deposit -> {"confirming", "mature", "claimed"}],
         shown' \in [Deposit -> {"absent", "confirming", "mature"}],
         selected' \in [deposit : Deposit \cup {None}, mature : BOOLEAN],
         selected'.mature => selected'.deposit \in Deposit,
         busy' \in BOOLEAN, claims' \subseteq [n : 1 .. Claims, deposit : Deposit],
         busy' <=> claims' # {}, \A c, d \in claims' : c = d
  PROVE  ReceiveInvariant'
BY DEF ReceiveInvariant, Receive!TypeOK, Receive!OneAddressRequest, Receive!dialog

LEMMA ReceiveNext == ReceiveInvariant /\ [Receive!Next]_receiveVars => ReceiveInvariant'
<1> SUFFICES ASSUME ReceiveInvariant, [Receive!Next]_receiveVars PROVE ReceiveInvariant'
  OBVIOUS
<1>0. /\ isReceiveOpen \in BOOLEAN /\ tab \in {"lightning", "bitcoin"} /\ ln \in InvoiceState
      /\ btc \in [address : BOOLEAN, error : BOOLEAN, loading : BOOLEAN]
      /\ pending \in 0 .. 1 /\ (btc.loading <=> pending = 1)
  BY DEF ReceiveInvariant, Receive!TypeOK, Receive!OneAddressRequest, InvoiceState
<1>00. /\ chain \in [Deposit -> {"confirming", "mature", "claimed"}]
       /\ shown \in [Deposit -> {"absent", "confirming", "mature"}]
       /\ selected \in [deposit : Deposit \cup {None}, mature : BOOLEAN]
       /\ selected.mature => selected.deposit \in Deposit
       /\ busy \in BOOLEAN /\ claims \subseteq [n : 1 .. Claims, deposit : Deposit]
       /\ (busy <=> claims # {}) /\ (\A c, d \in claims : c = d)
  BY DEF ReceiveInvariant, Receive!TypeOK
<1>1. CASE Receive!Open
  <2>1. Receive!FreshInvoice \in InvoiceState
    BY DEF Receive!FreshInvoice, InvoiceState
  <2> QED
    BY <1>1, <2>1, ReceiveDialogKeeps DEF Receive!Open, Receive!FreshAddress
<1>2. CASE Receive!Close
  BY <1>0, <1>2, ReceiveDialogKeeps DEF Receive!Close
<1>3. ASSUME NEW t \in {"lightning", "bitcoin"}, Receive!ToTab(t)
      PROVE  ReceiveInvariant'
  BY <1>0, <1>3, ReceiveDialogKeeps DEF Receive!ToTab
<1>4. ASSUME NEW r \in Request, Receive!Type(r)
      PROVE  ReceiveInvariant'
  <2>1. ln' \in InvoiceState
    BY <1>0, <1>4 DEF Receive!Type, InvoiceState
  <2> QED
    BY <1>0, <1>4, <2>1, ReceiveDialogKeeps DEF Receive!Type
<1>5. CASE Receive!CreateInvoice
  <2>1. ln' \in InvoiceState
    BY <1>0, <1>5 DEF Receive!CreateInvoice, InvoiceState
  <2> QED
    BY <1>0, <1>5, <2>1, ReceiveDialogKeeps DEF Receive!CreateInvoice
<1>6. CASE Receive!InvoiceEnds
  <2>1. ln' \in InvoiceState
    BY <1>0, <1>6 DEF Receive!InvoiceEnds, InvoiceState
  <2> QED
    BY <1>0, <1>6, <2>1, ReceiveDialogKeeps DEF Receive!InvoiceEnds
<1>7. CASE Receive!AddressEffect \/ Receive!TryAgain
  <2>1. ~btc.loading /\ Receive!AskAddress
    BY <1>7 DEF Receive!AddressEffect, Receive!TryAgain, Receive!NoAddressYet
  <2>2. pending' = 1 /\ UNCHANGED <<isReceiveOpen, tab, ln, Receive!deposits>>
    BY <1>0, <2>1 DEF Receive!AskAddress
  <2>3. btc' \in [address : BOOLEAN, error : BOOLEAN, loading : BOOLEAN] /\ btc'.loading
    BY <1>0, <2>1 DEF Receive!AskAddress
  <2> QED
    BY <1>0, <2>2, <2>3, ReceiveDialogKeeps
<1>8. CASE Receive!AddressEnds
  <2>1. pending' = 0 /\ UNCHANGED <<isReceiveOpen, tab, ln, Receive!deposits>>
    BY <1>0, <1>8 DEF Receive!AddressEnds
  <2>2. btc' \in [address : BOOLEAN, error : BOOLEAN, loading : BOOLEAN] /\ ~btc'.loading
    BY <1>0, <1>8 DEF Receive!AddressEnds
  <2> QED
    BY <1>0, <2>1, <2>2, ReceiveDialogKeeps
<1>9. ASSUME NEW d \in Deposit, Receive!Mature(d) \/ Receive!ClaimedBehind(d)
      PROVE  ReceiveInvariant'
  <2>1. chain' \in [Deposit -> {"confirming", "mature", "claimed"}]
    BY <1>00, <1>9 DEF Receive!Mature, Receive!ClaimedBehind
  <2> QED
    BY <1>00, <1>9, <2>1, DepositsKeep DEF Receive!Mature, Receive!ClaimedBehind
<1>10. CASE Receive!ShowDeposits
  <2>1. shown' \in [Deposit -> {"absent", "confirming", "mature"}]
    BY <1>10 DEF Receive!ShowDeposits
  <2> QED
    BY <1>00, <1>10, <2>1, DepositsKeep DEF Receive!ShowDeposits
<1>11. ASSUME NEW d \in Deposit, Receive!Select(d)
       PROVE  ReceiveInvariant'
  <2>1. /\ selected' \in [deposit : Deposit \cup {None}, mature : BOOLEAN]
        /\ selected'.deposit \in Deposit
    BY <1>11 DEF Receive!Select, Receive!PendingApproval
  <2>2. busy' = busy /\ UNCHANGED <<Receive!dialog, chain, shown, claims>>
    BY <1>11 DEF Receive!Select, Receive!BusyAfterSelect
  <2> QED
    BY <1>00, <2>1, <2>2, DepositsKeep
<1>12. CASE Receive!Deselect
  <2>1. /\ selected' \in [deposit : Deposit \cup {None}, mature : BOOLEAN]
        /\ ~selected'.mature
    BY <1>12 DEF Receive!Deselect, Receive!Nothing
  <2> QED
    BY <1>00, <1>12, <2>1, DepositsKeep DEF Receive!Deselect
<1>13. CASE Receive!Claim
  <2>1. PICK n \in 1 .. Claims : claims' = {[n |-> n, deposit |-> selected.deposit]}
    BY <1>00, <1>13 DEF Receive!Claim
  <2>2. busy' = TRUE /\ selected.deposit \in Deposit
        /\ UNCHANGED <<Receive!dialog, chain, shown, selected>>
    BY <1>00, <1>13 DEF Receive!Claim
  <2>3. claims' \subseteq [n : 1 .. Claims, deposit : Deposit]
    BY <2>1, <2>2
  <2> QED
    BY <1>00, <2>1, <2>2, <2>3, DepositsKeep
<1>14. ASSUME NEW c \in claims, Receive!ClaimEnds(c)
       PROVE  ReceiveInvariant'
  <2>1. claims' = {} /\ busy' = FALSE /\ UNCHANGED <<Receive!dialog, shown>>
    BY <1>00, <1>14 DEF Receive!ClaimEnds
  <2>2. chain' \in [Deposit -> {"confirming", "mature", "claimed"}]
    BY <1>00, <1>14 DEF Receive!ClaimEnds
  <2>3. selected' = selected \/ selected' = Receive!Nothing
    BY <1>14 DEF Receive!ClaimEnds
  <2>4. /\ selected' \in [deposit : Deposit \cup {None}, mature : BOOLEAN]
        /\ selected'.mature => selected'.deposit \in Deposit
    <3>1. CASE selected' = selected
      BY <1>00, <3>1
    <3>2. CASE selected' = Receive!Nothing
      BY <3>2 DEF Receive!Nothing
    <3> QED
      BY <2>3, <3>1, <3>2
  <2> QED
    BY <1>00, <2>1, <2>2, <2>4, DepositsKeep
<1>15. CASE UNCHANGED receiveVars
  BY <1>0, <1>15, ReceiveDialogKeeps DEF receiveVars, Receive!deposits
<1> QED
  BY <1>1, <1>2, <1>3, <1>4, <1>5, <1>6, <1>7, <1>8, <1>9, <1>10, <1>11, <1>12, <1>13, <1>14, <1>15
  DEF Receive!Next

-----------------------------------------------------------------------------
(* Notices.                                                                   *)

NoticeInvariant == Notice!TypeOK /\ Notice!NoInvisibleOverlay

LEMMA NoticeInit == Notice!Init => NoticeInvariant
<1> SUFFICES ASSUME Notice!Init PROVE NoticeInvariant
  OBVIOUS
<1>1. /\ renders \in 0 .. Renders /\ shownToasts \in 0 .. Toast
      /\ toasts \in [1 .. Toast -> {"none", "up", "hiding", "gone"}] /\ hides \in Nat
  BY PartsAssumption DEF Notice!Init
<1> QED
  BY <1>1 DEF Notice!Init, Notice!TypeOK, Notice!NoInvisibleOverlay, NoticeInvariant

LEMMA NoticeNext == NoticeInvariant /\ [Notice!Next]_noticeVars => NoticeInvariant'
<1> SUFFICES ASSUME NoticeInvariant, [Notice!Next]_noticeVars PROVE NoticeInvariant'
  OBVIOUS
<1> USE DEF NoticeInvariant, Notice!TypeOK, Notice!NoInvisibleOverlay
<1>0. Notice!Count => renders' \in 0 .. Renders
  BY PartsAssumption DEF Notice!Count
<1>00. Notice!Hide => ~visible' /\ visible' \in BOOLEAN /\ hides' \in Nat /\ hides' > 0
  <2>1. hides + 1 \in Nat /\ hides + 1 > 0
    OBVIOUS
  <2> QED
    BY <2>1, Zenon DEF Notice!Hide, Notice!HidesAfter
<1>1. ASSUME NEW p \in Payment, Notice!Celebrate(p)
      PROVE  NoticeInvariant'
  BY <1>0, <1>1 DEF Notice!Celebrate
<1>2. ASSUME NEW p \in Payment, Notice!Forget(p)
      PROVE  NoticeInvariant'
  BY <1>2 DEF Notice!Forget
<1>3. CASE Notice!Rerender
  BY <1>0, <1>3 DEF Notice!Rerender, Notice!ArmedAgain
<1>4. CASE Notice!Frame
  BY <1>4 DEF Notice!Frame
<1>5. CASE Notice!CloseTimer
  BY <1>00, <1>5 DEF Notice!CloseTimer
<1>6. CASE Notice!Tap
  BY <1>0, <1>00, <1>6 DEF Notice!Tap
<1>7. CASE Notice!HideEnds
  <2>1. hides' \in Nat
    BY <1>7 DEF Notice!HideEnds
  <2> QED
    BY <1>7, <2>1 DEF Notice!HideEnds
<1>8. CASE Notice!ShowToast
  <2>1. /\ shownToasts' \in 0 .. Toast
        /\ toasts' \in [1 .. Toast -> {"none", "up", "hiding", "gone"}]
    BY <1>8, PartsAssumption DEF Notice!ShowToast, Notice!SetToast
  <2> QED
    BY <1>8, <2>1 DEF Notice!ShowToast, Notice!overlay
<1>9. ASSUME NEW t \in 1 .. Toast, Notice!HideToast(t) \/ Notice!RemoveToast(t)
      PROVE  NoticeInvariant'
  BY <1>9 DEF Notice!HideToast, Notice!RemoveToast, Notice!SetToast, Notice!overlay
<1>10. CASE UNCHANGED noticeVars
  BY <1>10 DEF noticeVars
<1> QED
  BY <1>1, <1>2, <1>3, <1>4, <1>5, <1>6, <1>7, <1>8, <1>9, <1>10 DEF Notice!Next

-----------------------------------------------------------------------------
(* QrScan.                                                                    *)

\* The opening the dialog is in.
Current(o) == isScanOpen /\ o = opened

\* startScanning goes on in the dialog that started it, or its scanner will be lost;
\* a scanner that may have the camera is destroyed, lost, or the ref's and of the open
\* dialog.
ScanInvariant ==
    /\ Scan!TypeOK
    /\ \A o \in Scan!Opening : o > opened => flow[o] = "none"
    /\ timer => isScanOpen /\ opened \in Scan!Opening /\ flow[opened] = "none"
    /\ \A o \in Scan!Opening : flow[o] = "asking" => o \in lost \/ Current(o)
    /\ \A o \in Scan!Opening :
        flow[o] = "starting" \/ o \in on => o \in destroyed \/ o \in lost \/ (ref = o /\ Current(o))
    /\ \A o \in on : flow[o] = "ended"
    /\ on \cap destroyed = {}

LEMMA ScanInit == Scan!Init => ScanInvariant
<1> USE PartsAssumption
<1> SUFFICES ASSUME Scan!Init PROVE ScanInvariant
  OBVIOUS
<1>1. Scan!TypeOK
  <2>1. look \in [initializing : BOOLEAN, scanning : BOOLEAN, error : BOOLEAN]
    BY DEF Scan!Init
  <2>2. opened \in 0 .. Openings
    BY DEF Scan!Init
  <2> QED
    BY <2>1, <2>2 DEF Scan!Init, Scan!TypeOK, Scan!NoScanner
<1> QED
  BY <1>1 DEF Scan!Init, ScanInvariant, Scan!Opening, Scan!NoScanner, Current

\* Closing the dialog, by whatever way, is the step that destroys and loses.
LEMMA LeaveKeeps ==
  ASSUME ScanInvariant, NEW e \in BOOLEAN, Scan!Leave(e),
         UNCHANGED <<opened, flow>>, picking' \in BOOLEAN
  PROVE  ScanInvariant'
<1> USE PartsAssumption
<1>1. Scan!TypeOK'
  BY DEF ScanInvariant, Scan!TypeOK, Scan!Leave, Scan!TimerAfterClose, Scan!StopScanning, Scan!Stopped
<1>2. \A o \in Scan!Opening : flow'[o] = "asking" => o \in lost'
  BY DEF Scan!Leave
<1>3. \A o \in Scan!Opening :
        flow'[o] = "starting" \/ o \in on' => o \in destroyed' \/ o \in lost'
  BY DEF ScanInvariant, Scan!TypeOK, Scan!Leave, Scan!StopScanning, Scan!Stopped, Scan!Opening, Scan!NoScanner
<1>4. on' \cap destroyed' = {}
  BY DEF ScanInvariant, Scan!Leave, Scan!StopScanning
<1> QED
  BY <1>1, <1>2, <1>3, <1>4 DEF ScanInvariant, Scan!Leave, Scan!TimerAfterClose, Scan!StopScanning

LEMMA ScanNext ==
  ScanInvariant /\ [Scan!Next]_scanVars => ScanInvariant'
<1> SUFFICES ASSUME ScanInvariant, [Scan!Next]_scanVars PROVE ScanInvariant'
  OBVIOUS
<1> USE PartsAssumption DEF ScanInvariant, Scan!TypeOK, Scan!Opening, Scan!NoScanner, Current
<1>1. CASE Scan!Open
  BY <1>1 DEF Scan!Open
<1>2. CASE Scan!Close
  BY <1>2, LeaveKeeps DEF Scan!Close
<1>3. CASE Scan!TimerFires
  <2>1. flow' \in [Scan!Opening -> {"none", "asking", "starting", "ended"}] /\ flow'[opened] = "asking"
    BY <1>3 DEF Scan!TimerFires
  <2>2. \A o \in Scan!Opening : o # opened => flow'[o] = flow[o]
    BY <1>3 DEF Scan!TimerFires
  <2>3. Scan!TypeOK'
    BY <1>3, <2>1 DEF Scan!TimerFires
  <2> QED
    BY <1>3, <2>1, <2>2, <2>3 DEF Scan!TimerFires
<1>4. ASSUME NEW o \in Scan!Opening, Scan!NoCamera(o) \/ Scan!Fails(o)
      PROVE  ScanInvariant'
  <2>1. flow' \in [Scan!Opening -> {"none", "asking", "starting", "ended"}] /\ flow'[o] = "ended"
    BY <1>4 DEF Scan!NoCamera, Scan!Fails
  <2>2. \A p \in Scan!Opening : p # o => flow'[p] = flow[p]
    BY <1>4 DEF Scan!NoCamera, Scan!Fails
  <2>3. UNCHANGED <<isScanOpen, opened, timer, ref, destroyed, on, picking, lost>> /\ flow[o] # "none"
    BY <1>4 DEF Scan!NoCamera, Scan!Fails
  <2>4. look' \in [initializing : BOOLEAN, scanning : BOOLEAN, error : BOOLEAN]
    <3>1. CASE Scan!NoCamera(o)
      BY <3>1 DEF Scan!NoCamera
    <3>2. CASE Scan!Fails(o)
      BY <3>2 DEF Scan!Fails
    <3> QED
      BY <1>4, <3>1, <3>2
  <2> QED
    BY <2>1, <2>2, <2>3, <2>4
<1>5. ASSUME NEW o \in Scan!Opening, Scan!MakeScanner(o)
      PROVE  ScanInvariant'
  <2>1. flow' \in [Scan!Opening -> {"none", "asking", "starting", "ended"}] /\ flow'[o] = "starting"
    BY <1>5 DEF Scan!MakeScanner
  <2>2. \A p \in Scan!Opening : p # o => flow'[p] = flow[p]
    BY <1>5 DEF Scan!MakeScanner
  <2>3. Scan!TypeOK'
    BY <1>5, <2>1 DEF Scan!MakeScanner, Scan!Stopped
  <2>4. \A p \in Scan!Opening :
          flow'[p] = "starting" \/ p \in on' =>
            p \in destroyed' \/ p \in lost' \/ (ref' = p /\ Current(p)')
    BY <1>5, <2>1, <2>2 DEF Scan!MakeScanner, Scan!Stopped
  <2> QED
    BY <1>5, <2>1, <2>2, <2>3, <2>4 DEF Scan!MakeScanner, Scan!Stopped
<1>6. ASSUME NEW o \in Scan!Opening, Scan!Starts(o)
      PROVE  ScanInvariant'
  <2>1. flow' \in [Scan!Opening -> {"none", "asking", "starting", "ended"}] /\ flow'[o] = "ended"
    BY <1>6 DEF Scan!Starts
  <2>2. \A p \in Scan!Opening : p # o => flow'[p] = flow[p]
    BY <1>6 DEF Scan!Starts
  <2>3. Scan!TypeOK'
    BY <1>6, <2>1 DEF Scan!Starts
  <2> QED
    BY <1>6, <2>1, <2>2, <2>3 DEF Scan!Starts
<1>7. ASSUME NEW o \in Scan!Opening, Scan!Scan(o)
      PROVE  ScanInvariant'
  BY <1>7, LeaveKeeps DEF Scan!Scan
<1>8. CASE Scan!PickImage
  BY <1>8 DEF Scan!PickImage
<1>9. CASE Scan!ImageRead
  <2>1. CASE isScanOpen /\ Scan!Leave(look.error)
    BY <1>9, <2>1, LeaveKeeps DEF Scan!ImageRead
  <2>2. CASE UNCHANGED <<isScanOpen, timer, ref, destroyed, on, look, lost>>
    BY <1>9, <2>2 DEF Scan!ImageRead
  <2> QED
    BY <1>9, <2>1, <2>2 DEF Scan!ImageRead
<1>10. CASE UNCHANGED scanVars
  BY <1>10 DEF scanVars
<1> QED
  BY <1>1, <1>2, <1>3, <1>4, <1>5, <1>6, <1>7, <1>8, <1>9, <1>10 DEF Scan!Next

-----------------------------------------------------------------------------
(* The five together.                                                         *)

\* Each part has its own.
PartsInvariant ==
    ListInvariant /\ ReceiveInvariant /\ ScanInvariant /\ NoticeInvariant /\ WebhookInvariant

LEMMA PartsInitHolds == PartsInit => PartsInvariant
BY ListInit, ReceiveInit, ScanInit, NoticeInit, WebhookInit DEF PartsInit, PartsInvariant

LEMMA PartsNextHolds == PartsInvariant /\ [PartsNext]_partVars => PartsInvariant'
<1> SUFFICES ASSUME PartsInvariant, [PartsNext]_partVars PROVE PartsInvariant'
  OBVIOUS
<1>1. [Page!Next]_pageVars
  BY DEF PartsNext, PageMoves, ReceiveMoves, ScanMoves, NoticeMoves, WebhookMoves, partVars, uiVars
<1>2. [Receive!Next]_receiveVars
  BY DEF PartsNext, PageMoves, ReceiveMoves, ScanMoves, NoticeMoves, WebhookMoves, partVars, uiVars
<1>3. [Scan!Next]_scanVars
  BY DEF PartsNext, PageMoves, ReceiveMoves, ScanMoves, NoticeMoves, WebhookMoves, partVars, uiVars
<1>4. [Notice!Next]_noticeVars
  BY DEF PartsNext, PageMoves, ReceiveMoves, ScanMoves, NoticeMoves, WebhookMoves, partVars, uiVars
<1>5. [Next]_vars
  BY DEF PartsNext, PageMoves, ReceiveMoves, ScanMoves, NoticeMoves, WebhookMoves, partVars, uiVars
<1> QED
  BY <1>1, <1>2, <1>3, <1>4, <1>5, ListNext, ReceiveNext, ScanNext, NoticeNext, WebhookNext
  DEF PartsInvariant

\* The inductive invariant of the run's specification: list, dialogs, camera, notices
\* and webhooks together (app/page.tsx, ReceiveDialog.tsx, DepositDetailsDialog.tsx,
\* useQrScanner.ts, PaymentReceivedCelebration.tsx, Webhooks.kt).
THEOREM PartsHold == PartsSpec => []PartsInvariant
  BY PartsInitHolds, PartsNextHolds, PTL DEF PartsSpec

\* The variables of all five keep their types (PartsTypeOK).
THEOREM PartsTypeCorrect == PartsSpec => []PartsTypeOK
<1>1. PartsInvariant => PartsTypeOK
  BY DEF PartsInvariant, PartsTypeOK, ListInvariant, ReceiveInvariant, ScanInvariant, NoticeInvariant,
         WebhookInvariant
<1> QED
  BY <1>1, PartsHold, PTL

LEMMA ListIsWhole == ListInvariant => NoGapUnlessRaced
<1> SUFFICES ASSUME ListInvariant, ~raced PROVE NoGapUnlessRaced
  BY DEF NoGapUnlessRaced, Page!NoGapUnlessRaced
<1>1. \A i \in 2 .. Len(payments) : payments[i] >= payments[i - 1] - 1
  BY DEF ListInvariant
<1>2. ASSUME nextOffset = NoOffset, payments # <<>>
      PROVE  payments[Len(payments)] = 1
  <2>1. payments \in Seq(1 .. History)
    BY DEF ListInvariant, Page!TypeOK
  <2>2. payments[Len(payments)] \in 1 .. History
    <3>1. Len(payments) \in Nat \ {0}
      BY <1>2, <2>1, EmptySeq
    <3>2. Len(payments) \in 1 .. Len(payments)
      BY <3>1
    <3> QED
      BY <2>1, <3>2, ElementOfSeq
  <2>3. payments[Len(payments)] <= 1
    BY <1>2 DEF ListInvariant, EndsAt
  <2> QED
    BY <2>2, <2>3
<1> QED
  BY <1>1, <1>2 DEF NoGapUnlessRaced, Page!NoGapUnlessRaced

\* For pages of any size and any number of overlapping refetches: the shown list skips
\* no payment and does not end early, unless a refetch replaced it under a load-more
\* (NoGapUnlessRaced).
THEOREM ListHasNoGaps == PartsSpec => []NoGapUnlessRaced
<1>1. PartsInvariant => NoGapUnlessRaced
  BY ListIsWhole DEF PartsInvariant
<1> QED
  BY <1>1, PartsHold, PTL

\* The offset of the next page, and the one a load-more asks for, lie inside the history,
\* whatever refetches replaced the list meanwhile (page.tsx 147-153, Payments.kt 66).
THEOREM OffsetsStayInHistory ==
  PartsSpec => [](/\ nextOffset # NoOffset => nextOffset \in 0 .. history
                  /\ more # Page!NoMore => more.offset \in 0 .. history)
<1>1. PartsInvariant =>
        /\ nextOffset # NoOffset => nextOffset \in 0 .. history
        /\ more # Page!NoMore => more.offset \in 0 .. history
  BY PartsAssumption DEF PartsInvariant, ListInvariant, Page!TypeOK
<1> QED
  BY <1>1, PartsHold, PTL

\* The address effect, its retry and any number of closings never have two requests on
\* their way (OneAddressRequest).
THEOREM OneAddressIsAsked == PartsSpec => []OneAddressRequest
<1>1. PartsInvariant => OneAddressRequest
  BY DEF PartsInvariant, ReceiveInvariant, OneAddressRequest
<1> QED
  BY <1>1, PartsHold, PTL

LEMMA OneClaim == ReceiveInvariant => OneClaimAwaited
<1> SUFFICES ASSUME ReceiveInvariant PROVE OneClaimAwaited
  OBVIOUS
<1>0. Cardinality(claims) <= 1 => OneClaimAwaited
  <2>1. Receive!Cardinality(claims) = Cardinality(claims)
    BY DEF Receive!Cardinality, Cardinality
  <2> QED
    BY <2>1, Zenon DEF ReceiveInvariant, OneClaimAwaited, Receive!OneClaimAwaited
<1>1. CASE claims = {}
  <2>1. Cardinality(claims) = 0
    BY <1>1, FS_EmptySet
  <2> QED
    BY <1>0, <2>1
<1>2. CASE claims # {}
  <2>1. PICK c \in claims : TRUE
    BY <1>2
  <2>2. claims = {c}
    BY <2>1 DEF ReceiveInvariant
  <2>3. Cardinality(claims) = 1
    BY <2>2, FS_Singleton
  <2> QED
    BY <1>0, <2>3
<1> QED
  BY <1>1, <1>2

\* Whatever deposits there are and however stale their list is, the sheet awaits one
\* claim at a time, and its button is disabled exactly then (OneClaimAwaited).
THEOREM OneClaimIsAwaited == PartsSpec => []OneClaimAwaited
<1>1. PartsInvariant => OneClaimAwaited
  BY OneClaim DEF PartsInvariant
<1> QED
  BY <1>1, PartsHold, PTL

LEMMA CameraOff == ScanInvariant => CameraOffUnlessLost
BY DEF ScanInvariant, Scan!TypeOK, CameraOffUnlessLost, Scan!CameraOffUnlessLost, Current

\* However often the dialog is opened and closed under a starting camera, the camera
\* runs for the open dialog only, but for the leak of CameraOffUnlessLost.
THEOREM CameraIsReleased == PartsSpec => []CameraOffUnlessLost
<1>1. PartsInvariant => CameraOffUnlessLost
  BY CameraOff DEF PartsInvariant
<1> QED
  BY <1>1, PartsHold, PTL

\* However renders, taps, payments and timers interleave, a transparent overlay has a
\* frame that shows it or an onClose that removes it on its way (NoInvisibleOverlay).
THEOREM OverlayNeverHidden == PartsSpec => []NoInvisibleOverlay
<1>1. PartsInvariant => NoInvisibleOverlay
  BY DEF PartsInvariant, NoticeInvariant, NoInvisibleOverlay
<1> QED
  BY <1>1, PartsHold, PTL

\* The same of each specification by itself, without the run that joins them: the list
\* of app/page.tsx, the dialogs of ReceiveDialog.tsx and DepositDetailsDialog.tsx, the
\* camera of useQrScanner.ts and the overlay of PaymentReceivedCelebration.tsx.
THEOREM EachByItself ==
  /\ Page!Spec => []NoGapUnlessRaced
  /\ Receive!Spec => [](OneAddressRequest /\ OneClaimAwaited)
  /\ Scan!Spec => []CameraOffUnlessLost
  /\ Notice!Spec => []NoInvisibleOverlay
<1>1. Page!Spec => []NoGapUnlessRaced
  <2>1. Page!vars = pageVars
    BY DEF Page!vars, pageVars
  <2>2. ListInvariant /\ [Page!Next]_(Page!vars) => ListInvariant'
    BY ListNext DEF Page!vars, pageVars
  <2> QED
    BY ListInit, <2>2, ListIsWhole, PTL DEF Page!Spec
<1>2. Receive!Spec => [](OneAddressRequest /\ OneClaimAwaited)
  <2>1. ReceiveInvariant /\ [Receive!Next]_(Receive!vars) => ReceiveInvariant'
    BY ReceiveNext DEF Receive!vars, receiveVars
  <2>2. ReceiveInvariant => OneAddressRequest /\ OneClaimAwaited
    BY OneClaim DEF ReceiveInvariant, OneAddressRequest
  <2> QED
    BY ReceiveInit, <2>1, <2>2, PTL DEF Receive!Spec
<1>3. Scan!Spec => []CameraOffUnlessLost
  <2>1. ScanInvariant /\ [Scan!Next]_(Scan!vars) => ScanInvariant'
    BY ScanNext DEF Scan!vars, scanVars
  <2> QED
    BY ScanInit, <2>1, CameraOff, PTL DEF Scan!Spec
<1>4. Notice!Spec => []NoInvisibleOverlay
  <2>1. NoticeInvariant /\ [Notice!Next]_(Notice!vars) => NoticeInvariant'
    BY NoticeNext DEF Notice!vars, noticeVars
  <2>2. NoticeInvariant => NoInvisibleOverlay
    BY DEF NoticeInvariant, NoInvisibleOverlay
  <2> QED
    BY NoticeInit, <2>1, <2>2, PTL DEF Notice!Spec
<1> QED
  BY <1>1, <1>2, <1>3, <1>4
=============================================================================
