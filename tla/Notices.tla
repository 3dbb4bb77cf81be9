------------------------------ MODULE Notices ------------------------------
(* What comes and goes by itself: the full-screen celebration of an incoming   *)
(* payment (PaymentReceivedCelebration.tsx and the event handler of             *)
(* app/page.tsx) and the toasts (ToastContext.tsx, ToastNotification.tsx).      *)
(* Their timers are re-armed by re-renders, and the last step of hiding, a      *)
(* delayed onClose, is never cancelled.                                         *)
EXTENDS Naturals

CONSTANTS
    Payment,    \* incoming payments
    Renders,    \* bound: re-renders of the page, events and taps included
    Toast,      \* bound: toasts 1 .. Toast
    None

VARIABLES
    celebration,    \* celebrationPayment
    visible,        \* isVisible of the mounted overlay
    frame,          \* its requestAnimationFrame is pending
    closeTimer,     \* its 4 s are running
    hides,          \* delayed onClose calls on their way, of any mount
    seen,           \* shownPaymentIds
    renders,
    toasts,         \* [1 .. Toast -> state of a toast]
    shownToasts     \* toasts shown so far

overlay == <<celebration, visible, frame, closeTimer, hides, seen, renders>>
vars == <<celebration, visible, frame, closeTimer, hides, seen, renders, toasts, shownToasts>>

Init ==
    /\ celebration = None
    /\ visible = FALSE
    /\ frame = FALSE
    /\ closeTimer = FALSE
    /\ hides = 0
    /\ seen = {}
    /\ renders = 0
    /\ toasts = [t \in 1 .. Toast |-> "none"]
    /\ shownToasts = 0

-----------------------------------------------------------------------------
(* The celebration.                                                           *)

Count == renders < Renders /\ renders' = renders + 1

\* payment_succeeded of a receive, not celebrated within the last 30 s.  A payment
\* that comes during a celebration takes the overlay over: there is no new mount.
\* The effect runs, on mount and because onClose is another one after every render.
Celebrate(p) ==
    /\ Count
    /\ p \notin seen
    /\ seen' = seen \cup {p}
    /\ celebration' = p
    /\ frame' = TRUE
    /\ closeTimer' = TRUE
    /\ UNCHANGED <<visible, hides, toasts, shownToasts>>

\* The 30 s are over.
Forget(p) ==
    /\ p \in seen
    /\ seen' = seen \ {p}
    /\ UNCHANGED <<celebration, visible, frame, closeTimer, hides, renders, toasts, shownToasts>>

\* The page renders for another reason (a refetch, scrolling): the effect's cleanup
\* clears the timer, and its new run arms it and shows the overlay again.
ArmedAgainFault == FALSE

ArmedAgain == TRUE

Rerender ==
    /\ Count
    /\ celebration # None
    /\ frame' = TRUE
    /\ closeTimer' = ArmedAgain
    /\ UNCHANGED <<celebration, visible, hides, seen, toasts, shownToasts>>

Frame ==
    /\ frame
    /\ frame' = FALSE
    /\ visible' = TRUE
    /\ UNCHANGED <<celebration, closeTimer, hides, seen, renders, toasts, shownToasts>>

\* Hiding is a fade of 500 ms and then onClose.
HidesAfterFault == hides

HidesAfter == hides + 1

Hide ==
    /\ visible' = FALSE
    /\ hides' = HidesAfter

CloseTimer ==
    /\ closeTimer
    /\ closeTimer' = FALSE
    /\ Hide
    /\ UNCHANGED <<celebration, frame, seen, renders, toasts, shownToasts>>

Tap ==
    /\ Count
    /\ celebration # None
    /\ Hide
    /\ UNCHANGED <<celebration, frame, closeTimer, seen, toasts, shownToasts>>

\* A delayed onClose: it unmounts whatever celebration the page shows by then.
HideEnds ==
    /\ hides > 0
    /\ hides' = hides - 1
    /\ celebration' = None
    /\ visible' = FALSE
    /\ frame' = FALSE
    /\ closeTimer' = FALSE
    /\ UNCHANGED <<seen, renders, toasts, shownToasts>>

-----------------------------------------------------------------------------
(* The toasts.  Each closes by itself after 4 s, or by its button.            *)

SetToast(t, s) == toasts' = [toasts EXCEPT ![t] = s]

ShowToast ==
    /\ shownToasts < Toast
    /\ shownToasts' = shownToasts + 1
    /\ SetToast(shownToasts + 1, "up")
    /\ UNCHANGED overlay

HideToast(t) ==
    /\ toasts[t] = "up"
    /\ SetToast(t, "hiding")
    /\ UNCHANGED <<overlay, shownToasts>>

RemoveToast(t) ==
    /\ toasts[t] = "hiding"
    /\ SetToast(t, "gone")
    /\ UNCHANGED <<overlay, shownToasts>>

Next ==
    \/ \E p \in Payment : Celebrate(p) \/ Forget(p)
    \/ Rerender \/ Frame \/ CloseTimer \/ Tap \/ HideEnds
    \/ ShowToast
    \/ \E t \in 1 .. Toast : HideToast(t) \/ RemoveToast(t)

\* The browser runs timers and animation frames.  The 4 s are counted anew at each
\* render; Renders bounds them, as a page at rest does.
Fairness ==
    /\ WF_vars(Frame) /\ WF_vars(CloseTimer) /\ WF_vars(HideEnds)
    /\ \A t \in 1 .. Toast : WF_vars(HideToast(t)) /\ WF_vars(RemoveToast(t))

Spec == Init /\ [][Next]_vars /\ Fairness

-----------------------------------------------------------------------------
TypeOK ==
    /\ celebration \in Payment \cup {None}
    /\ visible \in BOOLEAN
    /\ frame \in BOOLEAN
    /\ closeTimer \in BOOLEAN
    /\ hides \in Nat
    /\ seen \subseteq Payment
    /\ renders \in 0 .. Renders
    /\ toasts \in [1 .. Toast -> {"none", "up", "hiding", "gone"}]
    /\ shownToasts \in 0 .. Toast

\* The overlay covers the page and takes its clicks even while it is transparent:
\* it is never left so, a frame that shows it or an onClose that removes it is on its
\* way (PaymentReceivedCelebration.tsx 23-45).
NoInvisibleOverlay ==
    celebration # None /\ ~visible => frame \/ hides > 0

\* Once the page is at rest every celebration and every toast goes away by itself.
Noticed == celebration # None \/ \E t \in 1 .. Toast : toasts[t] \in {"up", "hiding"}

NoticesGo == Noticed ~> ~Noticed
=============================================================================
