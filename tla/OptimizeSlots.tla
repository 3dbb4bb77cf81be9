--------------------------- MODULE OptimizeSlots ---------------------------
(* What the optimize queue promises, with none of its machinery: every user  *)
(* has one slot, a slot is idle, queued or running, and at most Concurrency  *)
(* slots run at once.  OptimizeQueue is shown to implement this module.      *)
EXTENDS Naturals, FiniteSets

CONSTANTS User, Concurrency

VARIABLE slot

Running == {u \in User : slot[u] = "running"}

Init == slot = [u \in User |-> "idle"]

\* A payment event takes an idle slot; an event for a busy slot is a stutter.
Accept(u) ==
    /\ slot[u] = "idle"
    /\ slot' = [slot EXCEPT ![u] = "queued"]

Start(u) ==
    /\ slot[u] = "queued"
    /\ Cardinality(Running) < Concurrency
    /\ slot' = [slot EXCEPT ![u] = "running"]

\* However the run ended: completed, failed, preempted or timed out.
Finish(u) ==
    /\ slot[u] = "running"
    /\ slot' = [slot EXCEPT ![u] = "idle"]

\* The slots live in memory only.
Restart == slot' = [u \in User |-> "idle"]

Next ==
    \/ \E u \in User : Accept(u) \/ Start(u) \/ Finish(u)
    \/ Restart

Spec == Init /\ [][Next]_slot

\* What the queue owes its users: nobody is queued for ever, and nobody's run
\* lasts for ever (either may end because the process restarts).
Progress ==
    \A u \in User : /\ slot[u] = "queued" ~> slot[u] # "queued"
                    /\ slot[u] = "running" ~> slot[u] # "running"

TypeOK == slot \in [User -> {"idle", "queued", "running"}]
=============================================================================
