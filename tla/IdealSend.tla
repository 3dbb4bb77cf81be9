----------------------------- MODULE IdealSend -----------------------------
(* What a send promises the user, with no dialog, network or signing in it.  *)
(* A mount of the send dialog is one intention to pay: the user approves it   *)
(* once, it moves money at most once, and the user is told of success only of *)
(* a payment that was made.  SendDialog is shown to implement this module.    *)

CONSTANTS Mount

VARIABLES
    approved,   \* [Mount -> BOOLEAN]: Send was pressed
    money,      \* [Mount -> "none", or the status of the one payment]
    told        \* [Mount -> the result screen: headline (success) and message]

vars == <<approved, money, told>>

Nothing == [success |-> FALSE, message |-> "none"]

Init ==
    /\ approved = [m \in Mount |-> FALSE]
    /\ money = [m \in Mount |-> "none"]
    /\ told = [m \in Mount |-> Nothing]

Approve(m) ==
    /\ ~approved[m]
    /\ approved' = [approved EXCEPT ![m] = TRUE]
    /\ UNCHANGED <<money, told>>

\* Money moves only after the approval and only once; it may still do so after
\* the user was told of an error.
Pay(m) ==
    /\ approved[m]
    /\ money[m] = "none"
    /\ money' \in {[money EXCEPT ![m] = s] : s \in {"pending", "completed", "failed"}}
    /\ UNCHANGED <<approved, told>>

Settle(m) ==
    /\ money[m] = "pending"
    /\ money' \in {[money EXCEPT ![m] = s] : s \in {"completed", "failed"}}
    /\ UNCHANGED <<approved, told>>

\* The headline of success is over a completed payment, and no other message goes
\* with it.  The other headline, "Payment Failed", promises nothing: under it, the
\* message that the payment failed is for a failed one and the message that it is
\* pending for one that exists, but an error may be followed by the payment.
Truthful(m, result) ==
    /\ result.success <=> result.message = "sent"
    /\ result.message = "sent" => money[m] = "completed"
    /\ result.message = "failed" => money[m] = "failed"
    /\ result.message = "pending" => money[m] # "none"

Tell(m) ==
    /\ approved[m]
    /\ told[m] = Nothing
    /\ \E result \in [success : BOOLEAN, message : {"sent", "failed", "pending", "error"}] :
        /\ told' = [told EXCEPT ![m] = result]
        /\ Truthful(m, result)
    /\ UNCHANGED <<approved, money>>

Next == \E m \in Mount : Approve(m) \/ Pay(m) \/ Settle(m) \/ Tell(m)

Spec == Init /\ [][Next]_vars
=============================================================================
