--------------------------- MODULE OptimizeQueue ---------------------------
(***************************************************************************)
(* The leaf-optimization queue of Optimizer.kt (class OptimizeQueue) with  *)
(* enabled = true, the SIGNER=seed deployment: request handlers (the       *)
(* webhook and send routes) call enqueue, one consumer coroutine drains    *)
(* the channel and launches one coroutine per job, and a fair semaphore    *)
(* caps the runs.                                                          *)
(*                                                                         *)
(* A step is the code between two suspension points.  The mutex of the     *)
(* code guards single set operations that never suspend, so each guarded   *)
(* operation is one atomic step and the mutex itself has no state here;    *)
(* the wait for it is the "calling" state of a caller and the "finishing"  *)
(* state of a job.  trySend on the UNLIMITED, never closed channel cannot  *)
(* fail, so enqueue's roll-back branch (84-87) has no step.                *)
(*                                                                         *)
(* An operator named ...Fault is a plausible bug in the definition that    *)
(* follows it; no action uses it.                                          *)
(***************************************************************************)
EXTENDS Naturals, Sequences, FiniteSets, Functions

CONSTANTS
    User,          \* user ids
    Caller,        \* request coroutines that may call enqueue
    Job,           \* identities of job coroutines: the bound on live ones
    Concurrency,   \* permits of the semaphore (4 in the code)
    NoUser

ASSUME ConcurrencyAssumption == Concurrency \in Nat \ {0}
ASSUME JobAssumption == IsFiniteSet(Job)
ASSUME NoUserAssumption == NoUser \notin User

VARIABLES
    inflight,      \* users queued or running (the HashSet)
    channel,       \* ids delivered and not yet consumed
    caller,        \* per caller: where it is in enqueue, and for whom
    job,           \* per job coroutine: where it is, and for whom
    permits,       \* free permits of the semaphore
    waiters        \* job coroutines suspended in acquire, in order

vars == <<inflight, channel, caller, job, permits, waiters>>

IdleCaller == [pc |-> "idle", user |-> NoUser]
NoJob == [pc |-> "none", user |-> NoUser]

\* Jobs inside withPermit: they keep a permit from acquire to release.
HoldingPc == {"running", "finishing", "releasing"}
\* Jobs that owe the removal of their user from inflight.
OwingPc == {"launched", "waiting", "running", "finishing"}

TypeOK ==
    /\ inflight \subseteq User
    /\ channel \in Seq(User)
    /\ caller \in [Caller -> [pc : {"idle", "calling", "claimed"}, user : User \cup {NoUser}]]
    /\ \A c \in Caller : caller[c].pc # "idle" => caller[c].user \in User
    /\ job \in [Job -> [pc : {"none"} \cup OwingPc \cup HoldingPc, user : User \cup {NoUser}]]
    /\ permits \in Nat
    /\ waiters \in Seq(Job)

Init ==
    /\ inflight = {}
    /\ channel = <<>>
    /\ caller = [c \in Caller |-> IdleCaller]
    /\ job = [j \in Job |-> NoJob]
    /\ permits = Concurrency
    /\ waiters = <<>>

-----------------------------------------------------------------------------
(* enqueue *)

\* A handler calls enqueue and asks for the mutex.
Call(c, u) ==
    /\ caller[c].pc = "idle"
    /\ caller' = [caller EXCEPT ![c] = [pc |-> "calling", user |-> u]]
    /\ UNCHANGED <<inflight, channel, job, permits, waiters>>

\* Fault: the set is not consulted before the claim.
ClaimFault(c) ==
    /\ caller[c].pc = "calling"
    /\ inflight' = inflight \cup {caller[c].user}
    /\ caller' = [caller EXCEPT ![c].pc = "claimed"]
    /\ UNCHANGED <<channel, job, permits, waiters>>

\* inflight.add returned true: the caller now owes a delivery.
Claim(c) ==
    /\ caller[c].pc = "calling"
    /\ caller[c].user \notin inflight
    /\ inflight' = inflight \cup {caller[c].user}
    /\ caller' = [caller EXCEPT ![c].pc = "claimed"]
    /\ UNCHANGED <<channel, job, permits, waiters>>

\* inflight.add returned false: already queued or running.
Drop(c) ==
    /\ caller[c].pc = "calling"
    /\ caller[c].user \in inflight
    /\ caller' = [caller EXCEPT ![c] = IdleCaller]
    /\ UNCHANGED <<inflight, channel, job, permits, waiters>>

\* Fault: the caller's record is cleared before it is read.
DeliverFault(c) ==
    /\ caller[c].pc = "claimed"
    /\ caller' = [caller EXCEPT ![c] = IdleCaller]
    /\ channel' = Append(channel, caller'[c].user)
    /\ UNCHANGED <<inflight, job, permits, waiters>>

Deliver(c) ==
    /\ caller[c].pc = "claimed"
    /\ channel' = Append(channel, caller[c].user)
    /\ caller' = [caller EXCEPT ![c] = IdleCaller]
    /\ UNCHANGED <<inflight, job, permits, waiters>>

\* Fault: send instead of trySend, which suspends after the claim.
CancellableFault(c) == caller[c].pc \in {"calling", "claimed"}

\* The request coroutine can be cancelled where it suspends: waiting for the
\* mutex.  Between the claim and the delivery there is no suspension point.
Cancellable(c) == caller[c].pc = "calling"

Cancel(c) ==
    /\ Cancellable(c)
    /\ caller' = [caller EXCEPT ![c] = IdleCaller]
    /\ UNCHANGED <<inflight, channel, job, permits, waiters>>

-----------------------------------------------------------------------------
(* The consumer and the semaphore *)

\* The consumer takes the head of the channel and launches a coroutine for it.
Launch(j) ==
    /\ channel # <<>>
    /\ job[j].pc = "none"
    /\ job' = [job EXCEPT ![j] = [pc |-> "launched", user |-> Head(channel)]]
    /\ channel' = Tail(channel)
    /\ UNCHANGED <<inflight, caller, permits, waiters>>

\* Fault: one permit too many.
AcquireFault(j) ==
    /\ job[j].pc = "launched"
    /\ permits >= 0
    /\ permits' = permits - 1
    /\ job' = [job EXCEPT ![j].pc = "running"]
    /\ UNCHANGED <<inflight, channel, caller, waiters>>

Acquire(j) ==
    /\ job[j].pc = "launched"
    /\ permits > 0
    /\ permits' = permits - 1
    /\ job' = [job EXCEPT ![j].pc = "running"]
    /\ UNCHANGED <<inflight, channel, caller, waiters>>

Park(j) ==
    /\ job[j].pc = "launched"
    /\ permits = 0
    /\ waiters' = Append(waiters, j)
    /\ job' = [job EXCEPT ![j].pc = "waiting"]
    /\ UNCHANGED <<inflight, channel, caller, permits>>

\* withPermit ends and nobody waits: the permit is free again.
Free(j) ==
    /\ job[j].pc = "releasing"
    /\ waiters = <<>>
    /\ permits' = permits + 1
    /\ job' = [job EXCEPT ![j] = NoJob]
    /\ UNCHANGED <<inflight, channel, caller, waiters>>

\* Fault: the permit is handed over and freed too.
HandOverFault(j) ==
    /\ job[j].pc = "releasing"
    /\ waiters # <<>>
    /\ job' = [job EXCEPT ![j] = NoJob, ![Head(waiters)].pc = "running"]
    /\ waiters' = Tail(waiters)
    /\ permits' = permits + 1
    /\ UNCHANGED <<inflight, channel, caller>>

\* withPermit ends and the first waiter inherits the permit.
HandOver(j) ==
    /\ job[j].pc = "releasing"
    /\ waiters # <<>>
    /\ job' = [job EXCEPT ![j] = NoJob, ![Head(waiters)].pc = "running"]
    /\ waiters' = Tail(waiters)
    /\ UNCHANGED <<inflight, channel, caller, permits>>

-----------------------------------------------------------------------------
(* runOnce *)

EndRun(j) ==
    /\ job[j].pc = "running"
    /\ job' = [job EXCEPT ![j].pc = "finishing"]
    /\ UNCHANGED <<inflight, channel, caller, permits, waiters>>

\* optimizeLeaves came back: completed, preempted by a payment, or failed.  The
\* upstream call may also never come back, so nothing makes this step happen.
Return(j) == EndRun(j)

\* Fault: no circuit breaker.
TimeoutFault(j) == FALSE /\ EndRun(j)

\* withTimeout cancels the run and raises TimeoutCancellationException.
Timeout(j) == EndRun(j)

\* The finally block.
Unclaim(j) ==
    /\ job[j].pc = "finishing"
    /\ inflight' = inflight \ {job[j].user}
    /\ job' = [job EXCEPT ![j].pc = "releasing"]
    /\ UNCHANGED <<channel, caller, permits, waiters>>

-----------------------------------------------------------------------------
\* The process restarts; all of the queue's state is in memory.
Restart ==
    /\ inflight' = {}
    /\ channel' = <<>>
    /\ caller' = [c \in Caller |-> IdleCaller]
    /\ job' = [j \in Job |-> NoJob]
    /\ permits' = Concurrency
    /\ waiters' = <<>>

CallerStep(c) == Claim(c) \/ Drop(c) \/ Deliver(c)

JobStep(j) == Acquire(j) \/ Park(j) \/ Timeout(j) \/ Unclaim(j) \/ Free(j) \/ HandOver(j)

Next ==
    \/ \E c \in Caller : CallerStep(c) \/ Cancel(c) \/ \E u \in User : Call(c, u)
    \/ \E j \in Job : Launch(j) \/ JobStep(j) \/ Return(j)
    \/ Restart

Spec == Init /\ [][Next]_vars

\* Dispatchers.IO runs every coroutine that can run, and the five minute timer
\* of withTimeout fires.  Handlers need not call, and optimizeLeaves need not
\* return.
Fairness ==
    /\ \A c \in Caller : WF_vars(CallerStep(c))
    /\ \A j \in Job : WF_vars(JobStep(j))
    /\ WF_vars(\E j \in Job : Launch(j))

FairSpec == Spec /\ Fairness

-----------------------------------------------------------------------------
Claimers == {c \in Caller : caller[c].pc = "claimed"}
Owing == {j \in Job : job[j].pc \in OwingPc}
Holding == {j \in Job : job[j].pc \in HoldingPc}
RunningFor(u) == \E j \in Job : job[j].pc \in {"running", "finishing"} /\ job[j].user = u

\* Dedup (class comment, DESIGN "Background tasks"): a user has at most one
\* claim on its way, one channel entry or one job that has not unclaimed, and
\* never two of these together.
OneJobPerUser ==
    /\ \A c, d \in Claimers : caller[c].user = caller[d].user => c = d
    /\ IsInjective(channel)
    /\ \A j, k \in Owing : job[j].user = job[k].user => j = k
    /\ \A c \in Claimers : caller[c].user \notin Range(channel)
    /\ \A c \in Claimers, j \in Owing : caller[c].user # job[j].user
    /\ \A j \in Owing : job[j].user \notin Range(channel)

\* No orphan (comment at 79-83): a user is in inflight exactly while something
\* that will lead to its removal holds it, so no user is shut out for good and
\* no job runs without its claim.
ClaimsAreHeld ==
    inflight = {caller[c].user : c \in Claimers}
                 \cup Range(channel)
                 \cup {job[j].user : j \in Owing}

\* Every permit is free or held by one job coroutine, however its run ended; a
\* permit is never left free while a job is suspended waiting for one, and the
\* suspended jobs are exactly the ones in the semaphore's line, once each.
PermitsConserved ==
    /\ permits + Cardinality(Holding) = Concurrency
    /\ waiters # <<>> => permits = 0
    /\ Range(waiters) = {j \in Job : job[j].pc = "waiting"}
    /\ IsInjective(waiters)

\* The queue seen as OptimizeSlots: claiming takes the slot, the permit starts the
\* run, the finally block ends it.
slot == [u \in User |->
            IF u \notin inflight THEN "idle"
            ELSE IF RunningFor(u) THEN "running" ELSE "queued"]

Slots == INSTANCE OptimizeSlots

\* The queue implements OptimizeSlots: at most Concurrency users run at once, a run
\* starts only for a claimed user that is not running, and the claim ends with it.
ImplementsSlots == Slots!Spec

\* The circuit breaker (comment at 93-99): even if optimizeLeaves never returns for
\* anybody, every queued user gets to run, every run ends, and so the user's next
\* payment event is accepted again.
NobodyStuck == Slots!Progress
=============================================================================
