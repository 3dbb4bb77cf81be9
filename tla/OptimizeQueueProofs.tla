------------------------- MODULE OptimizeQueueProofs -------------------------
(***************************************************************************)
(* Proofs about OptimizeQueue for any number of users, handlers, job       *)
(* coroutines and permits.  QueueInv, the conjunction of the safety        *)
(* invariants, is inductive as a whole: that two jobs never share a user   *)
(* rests on the claim set being exactly what the jobs hold, and that the   *)
(* permits add up rests on the semaphore's line being the waiting jobs.    *)
(***************************************************************************)
EXTENDS OptimizeQueue, FiniteSetTheorems, TLAPS

-----------------------------------------------------------------------------
(* Sequences *)

\* Appending adds one element to what a sequence holds, and keeps it free of
\* duplicates if the element is new.
LEMMA AppendFacts ==
    ASSUME NEW S, NEW s \in Seq(S), NEW e \in S
    PROVE  /\ Append(s, e) \in Seq(S)
           /\ Range(Append(s, e)) = Range(s) \cup {e}
           /\ IsInjective(s) /\ e \notin Range(s) => IsInjective(Append(s, e))
<1>1. Append(s, e) \in Seq(S)
  OBVIOUS
<1>2. DOMAIN s = 1..Len(s) /\ DOMAIN Append(s, e) = 1..(Len(s) + 1) /\ Len(s) \in Nat
  OBVIOUS
<1>3. Append(s, e)[Len(s) + 1] = e /\ \A i \in 1..Len(s) : Append(s, e)[i] = s[i]
  OBVIOUS
<1>4. Range(Append(s, e)) = Range(s) \cup {e}
  BY <1>2, <1>3 DEF Range
<1>5. ASSUME IsInjective(s), e \notin Range(s)
      PROVE  IsInjective(Append(s, e))
  BY <1>2, <1>3, <1>5 DEF IsInjective, Range
<1> QED BY <1>1, <1>4, <1>5

\* Taking the head off a sequence without duplicates removes exactly the head.
LEMMA TailFacts ==
    ASSUME NEW S, NEW s \in Seq(S), s # <<>>, IsInjective(s)
    PROVE  /\ Head(s) \in S
           /\ Tail(s) \in Seq(S)
           /\ Head(s) \in Range(s)
           /\ Range(Tail(s)) = Range(s) \ {Head(s)}
           /\ IsInjective(Tail(s))
<1>1. /\ Len(s) \in Nat /\ Len(s) >= 1 /\ Head(s) = s[1] /\ Head(s) \in S
      /\ Tail(s) \in Seq(S) /\ Len(Tail(s)) = Len(s) - 1
  OBVIOUS
<1>2. DOMAIN s = 1..Len(s) /\ DOMAIN Tail(s) = 1..(Len(s) - 1)
  BY <1>1
<1>3. \A i \in 1..(Len(s) - 1) : Tail(s)[i] = s[i + 1]
  OBVIOUS
<1>4. Head(s) \in Range(s)
  BY <1>1, <1>2 DEF Range
<1>5. Range(Tail(s)) \subseteq Range(s) \ {Head(s)}
  BY <1>1, <1>2, <1>3 DEF Range, IsInjective
<1>6. ASSUME NEW x \in Range(s), x # Head(s)
      PROVE  x \in Range(Tail(s))
  <2>1. PICK i \in 1..Len(s) : s[i] = x
    BY <1>2 DEF Range
  <2>2. i # 1 /\ i - 1 \in 1..(Len(s) - 1)
    BY <1>1, <1>6, <2>1
  <2>3. Tail(s)[i - 1] = x
    BY <1>3, <2>1, <2>2
  <2> QED BY <1>2, <2>2, <2>3 DEF Range
<1>7. IsInjective(Tail(s))
  BY <1>1, <1>2, <1>3 DEF IsInjective
<1> QED BY <1>1, <1>4, <1>5, <1>6, <1>7

LEMMA HeadTailInSeq ==
    ASSUME NEW S, NEW s \in Seq(S), s # <<>>
    PROVE  Head(s) \in S /\ Tail(s) \in Seq(S)
OBVIOUS

-----------------------------------------------------------------------------
(* Type correctness *)

LEMMA TypeOKInit == Init => TypeOK
<1> SUFFICES ASSUME Init PROVE TypeOK
  OBVIOUS
<1> QED BY ConcurrencyAssumption DEF Init, TypeOK, IdleCaller, NoJob

LEMMA TypeOKStep == TypeOK /\ [Next]_vars => TypeOK'
<1> SUFFICES ASSUME TypeOK, [Next]_vars PROVE TypeOK'
  OBVIOUS
<1> USE DEF TypeOK, OwingPc, HoldingPc, IdleCaller, NoJob
<1>1. ASSUME NEW c \in Caller, NEW u \in User, Call(c, u) PROVE TypeOK'
  BY <1>1 DEF Call
<1>2. ASSUME NEW c \in Caller, Claim(c) PROVE TypeOK'
  BY <1>2 DEF Claim
<1>3. ASSUME NEW c \in Caller, Drop(c) PROVE TypeOK'
  BY <1>3 DEF Drop
<1>4. ASSUME NEW c \in Caller, Deliver(c) PROVE TypeOK'
  BY <1>4 DEF Deliver
<1>5. ASSUME NEW c \in Caller, Cancel(c) PROVE TypeOK'
  BY <1>5 DEF Cancel
<1>6. ASSUME NEW j \in Job, Launch(j) PROVE TypeOK'
  BY <1>6 DEF Launch
<1>7. ASSUME NEW j \in Job, Acquire(j) PROVE TypeOK'
  <2>1. permits' \in Nat /\ job' \in [Job -> [pc : {"none"} \cup OwingPc \cup HoldingPc,
                                            user : User \cup {NoUser}]]
    BY <1>7 DEF Acquire
  <2> QED BY <1>7, <2>1 DEF Acquire
<1>8. ASSUME NEW j \in Job, Park(j) PROVE TypeOK'
  <2>1. waiters' \in Seq(Job)
    BY <1>8 DEF Park
  <2>2. job' \in [Job -> [pc : {"none"} \cup OwingPc \cup HoldingPc,
                         user : User \cup {NoUser}]]
    BY <1>8 DEF Park
  <2> QED BY <1>8, <2>1, <2>2 DEF Park
<1>9. ASSUME NEW j \in Job, Free(j) PROVE TypeOK'
  <2>1. permits' \in Nat
    BY <1>9 DEF Free
  <2>2. job' \in [Job -> [pc : {"none"} \cup OwingPc \cup HoldingPc,
                         user : User \cup {NoUser}]]
    BY <1>9 DEF Free
  <2> QED BY <1>9, <2>1, <2>2 DEF Free
<1>14. ASSUME NEW j \in Job, HandOver(j) PROVE TypeOK'
  <2>1. Head(waiters) \in Job /\ Tail(waiters) \in Seq(Job)
    BY <1>14, HeadTailInSeq DEF HandOver
  <2>2. job' \in [Job -> [pc : {"none"} \cup OwingPc \cup HoldingPc,
                         user : User \cup {NoUser}]]
    BY <1>14, <2>1 DEF HandOver
  <2> QED BY <1>14, <2>1, <2>2 DEF HandOver
<1>10. ASSUME NEW j \in Job, EndRun(j) PROVE TypeOK'
  BY <1>10 DEF EndRun
<1>11. ASSUME NEW j \in Job, Unclaim(j) PROVE TypeOK'
  BY <1>11 DEF Unclaim
<1>12. CASE Restart
  BY <1>12, ConcurrencyAssumption DEF Restart
<1>13. CASE UNCHANGED vars
  BY <1>13 DEF vars
<1> QED
  BY <1>1, <1>2, <1>3, <1>4, <1>5, <1>6, <1>7, <1>8, <1>9, <1>10, <1>11, <1>12, <1>13, <1>14
     DEF Next, CallerStep, JobStep, Return, Timeout

\* Spec keeps every variable in its type (TypeOK).
THEOREM TypeCorrect == Spec => []TypeOK
<1> QED BY TypeOKInit, TypeOKStep, PTL DEF Spec

-----------------------------------------------------------------------------
(* Claims *)

ClaimInv == OneJobPerUser /\ ClaimsAreHeld

\* The part of PermitsConserved that a hand-over of a permit relies on.
WaitersWait == \A i \in DOMAIN waiters : waiters[i] \in Job /\ job[waiters[i]].pc = "waiting"

LEMMA ClaimInvInit == Init => ClaimInv
<1> SUFFICES ASSUME Init PROVE ClaimInv
  OBVIOUS
<1>1. Claimers = {} /\ Owing = {} /\ Range(channel) = {} /\ inflight = {}
  BY DEF Init, Claimers, Owing, OwingPc, IdleCaller, NoJob, Range
<1>2. IsInjective(channel)
  BY DEF Init, IsInjective
<1> QED BY <1>1, <1>2 DEF ClaimInv, OneJobPerUser, ClaimsAreHeld

\* The steps of a handler: only Claim and Deliver touch what the invariant is about.
LEMMA ClaimInvCaller ==
    ASSUME TypeOK, ClaimInv, NEW c \in Caller,
           CallerStep(c) \/ Cancel(c) \/ \E u \in User : Call(c, u)
    PROVE  ClaimInv'
<1> USE DEF ClaimInv
<1>1. \A d \in Caller : d # c => caller'[d] = caller[d]
  BY DEF TypeOK, CallerStep, Claim, Drop, Deliver, Cancel, Call
<1>2. Owing' = Owing /\ \A j \in Job : job'[j] = job[j]
  BY DEF Owing, CallerStep, Claim, Drop, Deliver, Cancel, Call
<1>3. CASE Claim(c)
  <2>1. /\ c \notin Claimers /\ Claimers' = Claimers \cup {c}
        /\ caller'[c].user = caller[c].user /\ caller[c].user \notin inflight
    BY <1>1, <1>3 DEF Claimers, Claim, TypeOK
  <2>2. channel' = channel /\ inflight' = inflight \cup {caller[c].user}
    BY <1>3 DEF Claim
  <2>3. OneJobPerUser'
    BY <1>1, <1>2, <2>1, <2>2 DEF OneJobPerUser, ClaimsAreHeld, Claimers, Owing
  <2>4. ClaimsAreHeld'
    BY <1>1, <1>2, <2>1, <2>2 DEF ClaimsAreHeld, Claimers, Owing
  <2> QED BY <2>3, <2>4
<1>4. CASE Deliver(c)
  <2> DEFINE u == caller[c].user
  <2>1. c \in Claimers /\ Claimers' = Claimers \ {c} /\ u \in User
    BY <1>1, <1>4 DEF Claimers, Deliver, TypeOK, IdleCaller
  <2>2. channel' = Append(channel, u) /\ inflight' = inflight /\ channel \in Seq(User)
    BY <1>4 DEF Deliver, TypeOK
  <2>3. /\ Range(channel') = Range(channel) \cup {u}
        /\ u \notin Range(channel) /\ IsInjective(channel')
    BY <2>1, <2>2, AppendFacts DEF OneJobPerUser
  <2>4. OneJobPerUser'
    BY <1>1, <1>2, <2>1, <2>2, <2>3 DEF OneJobPerUser, Claimers, Owing
  <2>5. ClaimsAreHeld'
    BY <1>1, <1>2, <2>1, <2>2, <2>3 DEF ClaimsAreHeld, Claimers, Owing
  <2> QED BY <2>4, <2>5
<1>5. CASE Drop(c) \/ Cancel(c) \/ \E u \in User : Call(c, u)
  <2>1. Claimers' = Claimers /\ c \notin Claimers
    BY <1>1, <1>5 DEF Claimers, Drop, Cancel, Cancellable, Call, IdleCaller, TypeOK
  <2>2. channel' = channel /\ inflight' = inflight
    BY <1>5 DEF Drop, Cancel, Call
  <2> QED BY <1>1, <1>2, <2>1, <2>2 DEF OneJobPerUser, ClaimsAreHeld, Claimers, Owing
<1> QED BY <1>3, <1>4, <1>5 DEF CallerStep

\* The steps of the consumer and of a job coroutine.
LEMMA ClaimInvJob ==
    ASSUME TypeOK, ClaimInv, WaitersWait, NEW j \in Job,
           Launch(j) \/ JobStep(j) \/ Return(j)
    PROVE  ClaimInv'
<1> USE DEF ClaimInv
<1>1. Claimers' = Claimers /\ \A c \in Caller : caller'[c] = caller[c]
  BY DEF Claimers, Launch, JobStep, Return, Timeout, EndRun, Acquire, Park, Unclaim, Free, HandOver
<1>2. CASE Launch(j)
  <2> DEFINE u == Head(channel)
  <2>1. /\ u \in Range(channel) /\ IsInjective(channel')
        /\ Range(channel') = Range(channel) \ {u}
    BY <1>2, TailFacts DEF Launch, TypeOK, OneJobPerUser
  <2>2. /\ j \notin Owing /\ Owing' = Owing \cup {j}
        /\ job'[j].user = u /\ \A k \in Owing : job'[k] = job[k]
    BY <1>2 DEF Launch, TypeOK, Owing, OwingPc
  <2>3. inflight' = inflight
    BY <1>2 DEF Launch
  <2>4. OneJobPerUser'
    BY <1>1, <2>1, <2>2, <2>3 DEF OneJobPerUser, Claimers
  <2>5. ClaimsAreHeld'
    BY <1>1, <2>1, <2>2, <2>3 DEF ClaimsAreHeld, Claimers
  <2> QED BY <2>4, <2>5
<1>3. CASE Unclaim(j)
  <2> DEFINE u == job[j].user
  <2>1. /\ j \in Owing /\ Owing' = Owing \ {j} /\ \A k \in Job : job'[k].user = job[k].user
    BY <1>3 DEF Unclaim, TypeOK, Owing, OwingPc
  <2>2. channel' = channel /\ inflight' = inflight \ {u}
    BY <1>3 DEF Unclaim
  <2>3. OneJobPerUser'
    BY <1>1, <2>1, <2>2 DEF OneJobPerUser, Claimers, Owing
  <2>4. ClaimsAreHeld'
    BY <1>1, <2>1, <2>2 DEF ClaimsAreHeld, OneJobPerUser, Claimers, Owing
  <2> QED BY <2>3, <2>4
<1>4. CASE Acquire(j) \/ Park(j) \/ EndRun(j) \/ Free(j) \/ HandOver(j)
  <2>1. channel' = channel /\ inflight' = inflight
    BY <1>4 DEF Acquire, Park, EndRun, Free, HandOver
  <2>2. Owing' = Owing /\ \A k \in Owing : job'[k].user = job[k].user
    <3>1. CASE Acquire(j) \/ Park(j) \/ EndRun(j)
      <4>1. /\ j \in Owing /\ job'[j].pc \in OwingPc /\ job'[j].user = job[j].user
            /\ \A k \in Job : k # j => job'[k] = job[k]
        BY <3>1 DEF Acquire, Park, EndRun, TypeOK, Owing, OwingPc
      <4> QED BY <4>1 DEF Owing
    <3>2. CASE Free(j)
      BY <3>2 DEF Free, TypeOK, Owing, OwingPc, NoJob
    <3>3. CASE HandOver(j)
      <4>1. Head(waiters) \in Job /\ job[Head(waiters)].pc = "waiting"
        BY <3>3, HeadTailInSeq DEF HandOver, TypeOK, WaitersWait
      <4> QED BY <3>3, <4>1 DEF HandOver, TypeOK, Owing, OwingPc, NoJob
    <3> QED BY <1>4, <3>1, <3>2, <3>3
  <2> QED BY <1>1, <2>1, <2>2 DEF OneJobPerUser, ClaimsAreHeld, Claimers, Owing
<1> QED BY <1>2, <1>3, <1>4 DEF JobStep, Return, Timeout

-----------------------------------------------------------------------------
(* Permits *)

Waiting == {j \in Job : job[j].pc = "waiting"}

LEMMA HoldingFinite == IsFiniteSet(Holding) /\ Cardinality(Holding) \in Nat
BY JobAssumption, FS_Subset, FS_CardinalityType DEF Holding

\* What HandOver needs of the line, from PermitsConserved.
LEMMA LineWaits == TypeOK /\ PermitsConserved => WaitersWait
BY DEF TypeOK, PermitsConserved, WaitersWait, Range

LEMMA PermitsInit == Init => PermitsConserved
<1> SUFFICES ASSUME Init PROVE PermitsConserved
  OBVIOUS
<1>1. Holding = {} /\ Waiting = {} /\ Range(waiters) = {}
  BY DEF Init, Holding, HoldingPc, Waiting, NoJob, Range
<1>2. Cardinality(Holding) = 0
  BY <1>1, FS_EmptySet
<1>3. IsInjective(waiters)
  BY DEF Init, IsInjective
<1> QED
  BY <1>1, <1>2, <1>3, ConcurrencyAssumption DEF Init, PermitsConserved, Waiting

\* Steps that neither take nor give a permit nor touch the line.
LEMMA PermitsUntouched ==
    ASSUME PermitsConserved, Holding' = Holding, Waiting' = Waiting,
           UNCHANGED <<permits, waiters>>
    PROVE  PermitsConserved'
BY DEF PermitsConserved, Waiting

LEMMA PermitsJob ==
    ASSUME TypeOK, PermitsConserved, NEW j \in Job,
           Launch(j) \/ JobStep(j) \/ Return(j)
    PROVE  PermitsConserved'
<1>1. CASE Launch(j) \/ EndRun(j) \/ Unclaim(j)
  <2>1. \A k \in Job : k # j => job'[k] = job[k]
    BY <1>1 DEF Launch, EndRun, Unclaim, TypeOK
  <2>2. /\ job[j].pc \in HoldingPc <=> job'[j].pc \in HoldingPc
        /\ job[j].pc # "waiting" /\ job'[j].pc # "waiting"
    BY <1>1 DEF Launch, EndRun, Unclaim, TypeOK, HoldingPc
  <2>3. Holding' = Holding /\ Waiting' = Waiting
    BY <2>1, <2>2 DEF Holding, Waiting
  <2> QED BY <1>1, <2>3, PermitsUntouched DEF Launch, EndRun, Unclaim
<1>2. CASE Acquire(j)
  <2>1. \A k \in Job : k # j => job'[k] = job[k]
    BY <1>2 DEF Acquire, TypeOK
  <2>2. job[j].pc = "launched" /\ job'[j].pc = "running"
    BY <1>2 DEF Acquire, TypeOK
  <2>3. /\ j \notin Holding /\ Holding' = Holding \cup {j} /\ Waiting' = Waiting
    BY <2>1, <2>2 DEF Holding, HoldingPc, Waiting
  <2>4. Cardinality(Holding') = Cardinality(Holding) + 1
    BY <2>3, HoldingFinite, FS_AddElement
  <2>5. permits' = permits - 1 /\ waiters' = waiters /\ waiters = <<>>
    BY <1>2 DEF Acquire, PermitsConserved
  <2> QED
    BY <2>3, <2>4, <2>5, HoldingFinite, ConcurrencyAssumption
       DEF PermitsConserved, Waiting, TypeOK
<1>3. CASE Park(j)
  <2>1. \A k \in Job : k # j => job'[k] = job[k]
    BY <1>3 DEF Park, TypeOK
  <2>2. job[j].pc = "launched" /\ job'[j].pc = "waiting"
    BY <1>3 DEF Park, TypeOK
  <2>3. /\ j \notin Waiting /\ Waiting' = Waiting \cup {j} /\ Holding' = Holding
    BY <2>1, <2>2 DEF Holding, HoldingPc, Waiting
  <2>4. waiters' = Append(waiters, j) /\ waiters \in Seq(Job) /\ permits' = 0 /\ permits = 0
    BY <1>3 DEF Park, TypeOK
  <2>5. Range(waiters') = Range(waiters) \cup {j} /\ IsInjective(waiters')
    BY <2>3, <2>4, AppendFacts DEF PermitsConserved, Waiting
  <2> QED
    BY <2>3, <2>4, <2>5 DEF PermitsConserved, Waiting
<1>4. CASE Free(j)
  <2>1. \A k \in Job : k # j => job'[k] = job[k]
    BY <1>4 DEF Free, TypeOK
  <2>2. job[j].pc = "releasing" /\ job'[j].pc = "none"
    BY <1>4 DEF Free, TypeOK, NoJob
  <2>3. j \in Holding /\ Holding' = Holding \ {j} /\ Waiting' = Waiting
    BY <2>1, <2>2 DEF Holding, HoldingPc, Waiting
  <2>4. Cardinality(Holding') = Cardinality(Holding) - 1
    BY <2>3, HoldingFinite, FS_RemoveElement
  <2>5. permits' = permits + 1 /\ waiters' = waiters /\ waiters = <<>>
    BY <1>4 DEF Free
  <2> QED
    BY <2>3, <2>4, <2>5, HoldingFinite, ConcurrencyAssumption
       DEF PermitsConserved, Waiting, TypeOK
<1>5. CASE HandOver(j)
  <2> DEFINE h == Head(waiters)
  <2>1. /\ h \in Job /\ h \in Range(waiters) /\ IsInjective(waiters')
        /\ Range(waiters') = Range(waiters) \ {h}
    BY <1>5, TailFacts DEF HandOver, TypeOK, PermitsConserved
  <2>2. /\ job[j].pc = "releasing" /\ job'[j].pc = "none"
        /\ job[h].pc = "waiting" /\ job'[h].pc = "running" /\ h # j
    BY <1>5, <2>1 DEF HandOver, TypeOK, PermitsConserved, NoJob
  <2>3. \A k \in Job : k # j /\ k # h => job'[k] = job[k]
    BY <1>5, <2>1 DEF HandOver, TypeOK
  <2>4. /\ j \in Holding /\ h \notin Holding
        /\ Holding' = (Holding \ {j}) \cup {h} /\ Waiting' = Waiting \ {h}
    BY <2>1, <2>2, <2>3 DEF Holding, HoldingPc, Waiting
  <2>5. /\ IsFiniteSet(Holding \ {j})
        /\ Cardinality(Holding \ {j}) = Cardinality(Holding) - 1
    BY <2>4, HoldingFinite, FS_RemoveElement
  <2>6. Cardinality(Holding') = Cardinality(Holding)
    <3>1. h \notin Holding \ {j}
      BY <2>4
    <3>2. Cardinality((Holding \ {j}) \cup {h}) = Cardinality(Holding \ {j}) + 1
      BY <2>5, <3>1, FS_AddElement
    <3> QED BY <2>4, <2>5, <3>2, HoldingFinite
  <2>7. permits' = permits /\ permits = 0
    BY <1>5 DEF HandOver, PermitsConserved
  <2> QED
    BY <2>1, <2>4, <2>6, <2>7 DEF PermitsConserved, Waiting
<1> QED BY <1>1, <1>2, <1>3, <1>4, <1>5 DEF JobStep, Return, Timeout

-----------------------------------------------------------------------------
(* The inductive invariant, and what follows from it *)

QueueInv == TypeOK /\ ClaimInv /\ PermitsConserved

LEMMA QueueInvStep == QueueInv /\ [Next]_vars => QueueInv'
<1> SUFFICES ASSUME QueueInv, [Next]_vars PROVE QueueInv'
  OBVIOUS
<1>1. TypeOK'
  BY TypeOKStep DEF QueueInv
<1>2. ASSUME NEW c \in Caller, CallerStep(c) \/ Cancel(c) \/ \E u \in User : Call(c, u)
      PROVE  ClaimInv' /\ PermitsConserved'
  <2>1. ClaimInv'
    BY <1>2, ClaimInvCaller DEF QueueInv
  <2>2. UNCHANGED <<job, permits, waiters>>
    BY <1>2 DEF CallerStep, Claim, Drop, Deliver, Cancel, Call
  <2>3. Holding' = Holding /\ Waiting' = Waiting
    BY <2>2 DEF Holding, Waiting
  <2> QED BY <2>1, <2>2, <2>3, PermitsUntouched DEF QueueInv
<1>3. ASSUME NEW j \in Job, Launch(j) \/ JobStep(j) \/ Return(j)
      PROVE  ClaimInv' /\ PermitsConserved'
  BY <1>3, ClaimInvJob, PermitsJob, LineWaits DEF QueueInv
<1>4. CASE Restart
  <2>1. /\ Claimers' = {} /\ Owing' = {} /\ Holding' = {} /\ Waiting' = {}
        /\ Range(channel') = {} /\ Range(waiters') = {}
        /\ IsInjective(channel') /\ IsInjective(waiters')
    BY <1>4 DEF Restart, Claimers, Owing, OwingPc, Holding, HoldingPc, Waiting,
                IdleCaller, NoJob, Range, IsInjective
  <2>2. ClaimInv'
    BY <1>4, <2>1 DEF Restart, ClaimInv, OneJobPerUser, ClaimsAreHeld
  <2>3. Cardinality(Holding') = 0
    BY <2>1, FS_EmptySet
  <2>4. PermitsConserved'
    BY <1>4, <2>1, <2>3, ConcurrencyAssumption DEF Restart, PermitsConserved, Waiting
  <2> QED BY <1>1, <2>2, <2>4 DEF QueueInv
<1>5. CASE UNCHANGED vars
  <2>1. /\ Claimers' = Claimers /\ Owing' = Owing /\ Holding' = Holding /\ Waiting' = Waiting
        /\ UNCHANGED <<inflight, channel, caller, job, permits, waiters>>
    BY <1>5 DEF vars, Claimers, Owing, Holding, Waiting
  <2>2. ClaimInv'
    BY <2>1 DEF QueueInv, ClaimInv, OneJobPerUser, ClaimsAreHeld
  <2> QED BY <1>1, <2>1, <2>2, PermitsUntouched DEF QueueInv
<1> QED BY <1>1, <1>2, <1>3, <1>4, <1>5 DEF Next, QueueInv

\* The whole invariant holds of every behaviour.
THEOREM QueueInvariant == Spec => []QueueInv
<1>1. Init => QueueInv
  BY TypeOKInit, ClaimInvInit, PermitsInit DEF QueueInv
<1> QED BY <1>1, QueueInvStep, PTL DEF Spec

\* Dedup: no user ever has two claims, channel entries or unfinished jobs.
THEOREM OneJobPerUserHolds == Spec => []OneJobPerUser
<1>1. QueueInv => OneJobPerUser
  BY DEF QueueInv, ClaimInv
<1> QED BY <1>1, QueueInvariant, PTL

\* No orphan: inflight is exactly what callers, the channel and jobs hold.
THEOREM ClaimsAreHeldHolds == Spec => []ClaimsAreHeld
<1>1. QueueInv => ClaimsAreHeld
  BY DEF QueueInv, ClaimInv
<1> QED BY <1>1, QueueInvariant, PTL

\* No permit is lost or made up, and none is idle while a job waits.
THEOREM PermitsConservedHolds == Spec => []PermitsConserved
<1>1. QueueInv => PermitsConserved
  BY DEF QueueInv
<1> QED BY <1>1, QueueInvariant, PTL

-----------------------------------------------------------------------------
(* The queue never waits for itself *)

\* Something other than a restart can be done: the guards of Deliver, Launch, Acquire or
\* Park, Timeout, Unclaim, and Free or HandOver.
SomebodyMoves ==
    \/ \E c \in Caller : caller[c].pc = "claimed"
    \/ channel # <<>> /\ \E j \in Job : job[j].pc = "none"
    \/ \E j \in Job : job[j].pc \in {"launched", "running", "finishing", "releasing"}

\* A parked job waits behind a full house: as many jobs as there are permits hold one.
LEMMA ParkedBehindHolders ==
    ASSUME QueueInv, NEW j \in Job, job[j].pc = "waiting"
    PROVE  Cardinality(Holding) = Concurrency /\ Holding # {}
<1>1. waiters # <<>>
  <2>1. j \in Range(waiters)
    BY DEF QueueInv, PermitsConserved
  <2> QED BY <2>1 DEF Range
<1>2. permits = 0 /\ Cardinality(Holding) = Concurrency
  BY <1>1, HoldingFinite DEF QueueInv, PermitsConserved
<1>3. Holding # {}
  BY <1>2, FS_EmptySet, ConcurrencyAssumption
<1> QED BY <1>2, <1>3

\* No deadlock inside the queue (Optimizer.kt 58-68, 90-125): as long as a user is in inflight,
\* some coroutine other than a parked one has a step to take.  The runs cannot see this
\* as a deadlock, since a restart is always possible there.
THEOREM QueueNeverStalls == Job # {} => (Spec => [](inflight # {} => SomebodyMoves))
<1> SUFFICES ASSUME Job # {}
             PROVE  Spec => [](inflight # {} => SomebodyMoves)
  OBVIOUS
<1>1. QueueInv => (inflight # {} => SomebodyMoves)
  <2> SUFFICES ASSUME QueueInv, inflight # {}, ~SomebodyMoves
               PROVE  FALSE
    OBVIOUS
  <2>1. \A j \in Job : job[j].pc \in {"none", "waiting"}
    BY DEF SomebodyMoves, QueueInv, TypeOK, OwingPc, HoldingPc
  <2>2. Holding = {}
    BY <2>1 DEF Holding, HoldingPc
  <2>3. \A j \in Job : job[j].pc = "none"
    BY <2>1, <2>2, ParkedBehindHolders
  <2>4. channel = <<>> /\ Claimers = {} /\ Owing = {}
    BY <2>3 DEF SomebodyMoves, Claimers, Owing, OwingPc
  <2>5. Range(channel) = {}
    BY <2>4 DEF Range
  <2> QED BY <2>4, <2>5 DEF QueueInv, ClaimInv, ClaimsAreHeld
<1> QED BY <1>1, QueueInvariant, PTL

-----------------------------------------------------------------------------
(* Refinement of OptimizeSlots *)

RunJobs == {j \in Job : job[j].pc \in {"running", "finishing"}}

\* The users that run, as OptimizeSlots counts them, are at most the jobs that run.
LEMMA RunningSlots ==
    ASSUME QueueInv
    PROVE  /\ IsFiniteSet(RunJobs)
           /\ Cardinality(Slots!Running) \in Nat
           /\ Cardinality(Slots!Running) <= Cardinality(RunJobs)
<1>1. IsFiniteSet(RunJobs)
  BY JobAssumption, FS_Subset DEF RunJobs
<1>2. Slots!Running = {job[j].user : j \in RunJobs}
  <2>1. \A j \in RunJobs : job[j].user \in inflight /\ job[j].user \in User
    BY DEF QueueInv, ClaimInv, ClaimsAreHeld, Owing, OwingPc, RunJobs, TypeOK
  <2>2. \A u \in User : slot[u] = "running" <=> u \in inflight /\ RunningFor(u)
    BY DEF slot
  <2> QED BY <2>1, <2>2 DEF Slots!Running, RunningFor, RunJobs
<1>3. [j \in RunJobs |-> job[j].user] \in Surjection(RunJobs, Slots!Running)
  BY <1>2 DEF Surjection
<1>4. IsFiniteSet(Slots!Running) /\ Cardinality(Slots!Running) <= Cardinality(RunJobs)
  BY <1>1, <1>3, FS_Surjection
<1> QED BY <1>1, <1>4, FS_CardinalityType

\* A job that is not yet running leaves its user's slot queued.
LEMMA QueuedSlot ==
    ASSUME QueueInv, NEW j \in Job, job[j].pc \in {"launched", "waiting"}
    PROVE  /\ job[j].user \in User /\ job[j].user \in inflight
           /\ ~RunningFor(job[j].user) /\ slot[job[j].user] = "queued"
<1>1. j \in Owing /\ job[j].user \in inflight /\ job[j].user \in User
  BY DEF QueueInv, ClaimInv, ClaimsAreHeld, Owing, OwingPc, TypeOK
<1>2. ~RunningFor(job[j].user)
  BY <1>1 DEF QueueInv, ClaimInv, OneJobPerUser, Owing, OwingPc, RunningFor
<1> QED BY <1>1, <1>2 DEF slot

\* When job k starts, its user's slot, and no other, goes from queued to running.
LEMMA StartSlot ==
    ASSUME QueueInv, NEW k \in Job, job[k].pc \in {"launched", "waiting"},
           job'[k] = [job[k] EXCEPT !.pc = "running"], inflight' = inflight,
           \A i \in Job : i # k =>
               (i \in RunJobs /\ job'[i] = job[i]) \/ (i \notin RunJobs /\ i \notin RunJobs'),
           Cardinality(RunJobs) < Concurrency
    PROVE  Slots!Start(job[k].user)
<1> DEFINE u == job[k].user
<1>1. u \in User /\ u \in inflight /\ ~RunningFor(u) /\ slot[u] = "queued"
  BY QueuedSlot
<1>2. job'[k].pc = "running" /\ job'[k].user = u
  BY DEF QueueInv, TypeOK
<1>3. \A v \in User : v # u => (RunningFor(v)' <=> RunningFor(v))
  BY <1>2 DEF RunningFor, RunJobs
<1>4. RunningFor(u)'
  BY <1>2 DEF RunningFor
<1>5. slot' = [slot EXCEPT ![u] = "running"]
  BY <1>1, <1>3, <1>4 DEF slot
<1>6. Cardinality(Slots!Running) < Concurrency
  <2>1. /\ Cardinality(RunJobs) \in Nat /\ Cardinality(Slots!Running) \in Nat
        /\ Cardinality(Slots!Running) <= Cardinality(RunJobs)
    BY RunningSlots, FS_CardinalityType
  <2> QED BY <2>1, ConcurrencyAssumption
<1>7. Slots!Cardinality(Slots!Running) = Cardinality(Slots!Running)
  BY DEF Slots!Cardinality, Cardinality
<1> QED BY <1>1, <1>5, <1>6, <1>7 DEF Slots!Start

\* The cap (Optimizer.kt 56, 65): however jobs start, hand on their permit and end, no
\* more than Concurrency users have a run at once.
THEOREM RunsAreCapped == Spec => [](Cardinality(Slots!Running) <= Concurrency)
<1>1. QueueInv => Cardinality(Slots!Running) <= Concurrency
  <2> SUFFICES ASSUME QueueInv PROVE Cardinality(Slots!Running) <= Concurrency
    OBVIOUS
  <2>1. RunJobs \subseteq Holding
    BY DEF RunJobs, Holding, HoldingPc
  <2>2. Cardinality(RunJobs) <= Cardinality(Holding) /\ Cardinality(RunJobs) \in Nat
    BY <2>1, HoldingFinite, FS_Subset, FS_CardinalityType
  <2>3. Cardinality(Holding) <= Concurrency
    BY HoldingFinite, ConcurrencyAssumption DEF QueueInv, TypeOK, PermitsConserved
  <2> QED BY <2>2, <2>3, RunningSlots, HoldingFinite, ConcurrencyAssumption
<1> QED BY <1>1, QueueInvariant, PTL

LEMMA SlotsStep == QueueInv /\ [Next]_vars => [Slots!Next]_slot
<1> SUFFICES ASSUME QueueInv, [Next]_vars PROVE [Slots!Next]_slot
  OBVIOUS
<1>1. ASSUME NEW c \in Caller, Claim(c) PROVE [Slots!Next]_slot
  <2> DEFINE u == caller[c].user
  <2>1. u \in User /\ u \notin inflight /\ inflight' = inflight \cup {u} /\ job' = job
    BY <1>1 DEF Claim, QueueInv, TypeOK
  <2>2. ~RunningFor(u)
    BY <2>1 DEF QueueInv, ClaimInv, ClaimsAreHeld, Owing, OwingPc, RunningFor
  <2>3. \A v \in User : RunningFor(v)' <=> RunningFor(v)
    BY <2>1 DEF RunningFor
  <2>4. slot[u] = "idle" /\ slot' = [slot EXCEPT ![u] = "queued"]
    BY <2>1, <2>2, <2>3 DEF slot
  <2> QED BY <2>1, <2>4 DEF Slots!Next, Slots!Accept
<1>2. ASSUME NEW j \in Job, Unclaim(j) PROVE [Slots!Next]_slot
  <2> DEFINE u == job[j].user
  <2>1. /\ u \in User /\ u \in inflight /\ RunningFor(u)
        /\ inflight' = inflight \ {u}
    BY <1>2 DEF Unclaim, QueueInv, TypeOK, ClaimInv, ClaimsAreHeld, Owing, OwingPc, RunningFor
  <2>2. \A k \in Job : k # j => job'[k] = job[k]
    BY <1>2 DEF Unclaim, QueueInv, TypeOK
  <2>3. job'[j].pc = "releasing"
    BY <1>2 DEF Unclaim, QueueInv, TypeOK
  <2>4. \A v \in User : v # u => (RunningFor(v)' <=> RunningFor(v))
    BY <2>2, <2>3 DEF RunningFor
  <2>5. slot[u] = "running" /\ slot' = [slot EXCEPT ![u] = "idle"]
    BY <2>1, <2>4 DEF slot
  <2> QED BY <2>1, <2>5 DEF Slots!Next, Slots!Finish
<1>3. ASSUME NEW j \in Job, Acquire(j) PROVE [Slots!Next]_slot
  <2>1. /\ job[j].pc = "launched" /\ job'[j] = [job[j] EXCEPT !.pc = "running"]
        /\ inflight' = inflight /\ permits > 0
        /\ \A i \in Job : i # j => job'[i] = job[i]
    BY <1>3 DEF Acquire, QueueInv, TypeOK
  <2>2. Cardinality(RunJobs) < Concurrency
    <3>1. RunJobs \subseteq Holding
      BY DEF RunJobs, Holding, HoldingPc
    <3>2. Cardinality(RunJobs) <= Cardinality(Holding) /\ Cardinality(RunJobs) \in Nat
      BY <3>1, HoldingFinite, FS_Subset, FS_CardinalityType
    <3> QED BY <2>1, <3>2, HoldingFinite, ConcurrencyAssumption
            DEF QueueInv, TypeOK, PermitsConserved
  <2>3. Slots!Start(job[j].user)
    BY <2>1, <2>2, StartSlot DEF RunJobs
  <2> QED BY <2>1, <2>3, QueuedSlot DEF Slots!Next
<1>4. ASSUME NEW j \in Job, HandOver(j) PROVE [Slots!Next]_slot
  <2> DEFINE h == Head(waiters)
  <2>1. h \in Job /\ job[h].pc = "waiting"
    BY <1>4, LineWaits, HeadTailInSeq DEF HandOver, QueueInv, TypeOK, PermitsConserved, WaitersWait
  <2>2. /\ job[j].pc = "releasing" /\ job'[j].pc = "none" /\ inflight' = inflight
        /\ job'[h] = [job[h] EXCEPT !.pc = "running"]
        /\ \A i \in Job : i # j /\ i # h => job'[i] = job[i]
    BY <1>4, <2>1 DEF HandOver, QueueInv, TypeOK, NoJob
  <2>3. Cardinality(RunJobs) < Concurrency
    <3>1. RunJobs \subseteq Holding \ {j} /\ j \in Holding
      BY <2>2 DEF RunJobs, Holding, HoldingPc
    <3>2. /\ IsFiniteSet(Holding \ {j})
          /\ Cardinality(Holding \ {j}) = Cardinality(Holding) - 1
      BY <3>1, HoldingFinite, FS_RemoveElement
    <3>3. Cardinality(RunJobs) <= Cardinality(Holding \ {j}) /\ Cardinality(RunJobs) \in Nat
      BY <3>1, <3>2, FS_Subset, FS_CardinalityType
    <3> QED BY <3>2, <3>3, HoldingFinite, ConcurrencyAssumption
            DEF QueueInv, TypeOK, PermitsConserved
  <2>4. Slots!Start(job[h].user)
    BY <2>1, <2>2, <2>3, StartSlot DEF RunJobs
  <2> QED BY <2>1, <2>4, QueuedSlot DEF Slots!Next
<1>5. ASSUME NEW j \in Job, Launch(j) \/ Park(j) \/ EndRun(j) \/ Free(j) PROVE [Slots!Next]_slot
  <2>1. /\ inflight' = inflight
        /\ \A i \in Job : i # j => job'[i] = job[i]
    BY <1>5 DEF Launch, Park, EndRun, Free, QueueInv, TypeOK
  <2>2. \/ job[j].pc = "running" /\ job'[j].pc = "finishing" /\ job'[j].user = job[j].user
        \/ /\ job[j].pc \notin {"running", "finishing"}
           /\ job'[j].pc \notin {"running", "finishing"}
    BY <1>5 DEF Launch, Park, EndRun, Free, NoJob, QueueInv, TypeOK
  <2>3. \A v \in User : RunningFor(v)' <=> RunningFor(v)
    BY <2>1, <2>2 DEF RunningFor
  <2> QED BY <2>1, <2>3 DEF slot
<1>6. ASSUME NEW c \in Caller, Drop(c) \/ Deliver(c) \/ Cancel(c) \/ \E u \in User : Call(c, u)
      PROVE  [Slots!Next]_slot
  BY <1>6 DEF Drop, Deliver, Cancel, Call, slot, RunningFor
<1>7. CASE Restart
  BY <1>7 DEF Restart, slot, Slots!Next, Slots!Restart
<1>8. CASE UNCHANGED vars
  BY <1>8 DEF vars, slot, RunningFor
<1> QED
  BY <1>1, <1>2, <1>3, <1>4, <1>5, <1>6, <1>7, <1>8
     DEF Next, CallerStep, JobStep, Return, Timeout

\* The queue implements OptimizeSlots.
THEOREM QueueImplementsSlots == Spec => ImplementsSlots
<1>1. Init => Slots!Init
  BY DEF Init, slot, Slots!Init
<1> QED BY <1>1, SlotsStep, QueueInvariant, PTL DEF Spec, ImplementsSlots, Slots!Spec
=============================================================================
