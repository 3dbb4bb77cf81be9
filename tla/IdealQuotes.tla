---------------------------- MODULE IdealQuotes ----------------------------
(* What the two-step send promises about quotes, with no cache, clock, sweeper *)
(* or request in it: a quote is issued once, to one user for one intent; it is  *)
(* used at most once; and money moves only by using up a quote, from the        *)
(* account of the user it was issued to.  SeedSend is shown to implement this.  *)
EXTENDS Naturals

CONSTANTS
    User,
    Intent,
    PrepareId,
    Nothing     \* what a quote that was not issued is for

VARIABLES
    state,      \* [PrepareId -> none, open, in use or gone]
    about,      \* [PrepareId -> the user and the intent, once issued]
    paid        \* [User \X Intent -> payments made]

vars == <<state, about, paid>>

Init ==
    /\ state = [id \in PrepareId |-> "none"]
    /\ about = [id \in PrepareId |-> Nothing]
    /\ paid = [p \in User \X Intent |-> 0]

Issue(id, u, i) ==
    /\ state[id] = "none"
    /\ state' = [state EXCEPT ![id] = "open"]
    /\ about' = [about EXCEPT ![id] = <<u, i>>]
    /\ UNCHANGED paid

Use(id) ==
    /\ state[id] = "open"
    /\ state' = [state EXCEPT ![id] = "used"]
    /\ UNCHANGED <<about, paid>>

\* The only step that moves money.
Pay(id) ==
    /\ state[id] = "used"
    /\ state' = [state EXCEPT ![id] = "gone"]
    /\ paid' = [paid EXCEPT ![about[id]] = @ + 1]
    /\ UNCHANGED about

\* Quotes expire, are taken from under their owner, or are lost to a failure, a swap or
\* a restart; several at once in the last case.
Lose(ids) ==
    /\ \A id \in ids : state[id] \in {"open", "used"}
    /\ state' = [id \in PrepareId |-> IF id \in ids THEN "gone" ELSE state[id]]
    /\ UNCHANGED <<about, paid>>

Next ==
    \/ \E id \in PrepareId :
        Use(id) \/ Pay(id) \/ \E u \in User, i \in Intent : Issue(id, u, i)
    \/ \E ids \in SUBSET PrepareId : Lose(ids)

Spec == Init /\ [][Next]_vars
=============================================================================
