------------------------------ MODULE MCParts ------------------------------
(* One TLC run for five specifications that share no state: the webhooks of the *)
(* server, and of the client the wallet page's list, the receive and deposit    *)
(* dialogs, the QR scanner and the notices.  The initial state chooses the one   *)
(* a behaviour is about, and the others rest in one of their initial states, so *)
(* that the state spaces add and do not multiply.                               *)
EXTENDS WebhookDelivery

CONSTANTS
    PAGE, History, Refetch, NoOffset,   \* WalletPage
    Request, Deposit, Claims,           \* Receiving
    Openings,                           \* QrScan
    Payment, Renders, Toast,            \* Notices
    None

ASSUME PartsAssumption ==
    /\ PAGE \in Nat \ {0} /\ History \in Nat /\ NoOffset \notin Nat
    /\ Openings \in Nat
    /\ Renders \in Nat /\ Toast \in Nat

VARIABLES
    focus,
    history, payments, balance, nextOffset, isSyncing, refetch, more, raced,
    isReceiveOpen, tab, ln, btc, pending, chain, shown, selected, busy, claims,
    isScanOpen, opened, timer, flow, ref, destroyed, on, look, picking, lost,
    celebration, visible, frame, closeTimer, hides, seen, renders, toasts, shownToasts

pageVars == <<history, payments, balance, nextOffset, isSyncing, refetch, more, raced>>
receiveVars ==
    <<isReceiveOpen, tab, ln, btc, pending, chain, shown, selected, busy, claims>>
scanVars == <<isScanOpen, opened, timer, flow, ref, destroyed, on, look, picking, lost>>
noticeVars ==
    <<celebration, visible, frame, closeTimer, hides, seen, renders, toasts, shownToasts>>
uiVars == <<pageVars, receiveVars, scanVars, noticeVars>>
partVars == <<focus, uiVars, vars>>

Page == INSTANCE WalletPage
Receive == INSTANCE Receiving WITH isOpen <- isReceiveOpen
Scan == INSTANCE QrScan WITH isOpen <- isScanOpen
Notice == INSTANCE Notices

PartsInit ==
    /\ focus \in {"page", "receive", "scan", "notices", "webhook"}
    /\ Page!Init /\ Receive!Init /\ Scan!Init /\ Notice!Init
    /\ Init
    /\ focus # "page" => history = 0 /\ refetch[CHOOSE r \in Refetch : TRUE] # Page!Idle
    /\ focus # "receive" => \A d \in Deposit : chain[d] = "mature"
    /\ focus # "webhook" => mode = "seed" /\ keyStored

PageMoves(A) ==
    focus = "page" /\ A /\ UNCHANGED <<focus, receiveVars, scanVars, noticeVars, vars>>
ReceiveMoves(A) ==
    focus = "receive" /\ A /\ UNCHANGED <<focus, pageVars, scanVars, noticeVars, vars>>
ScanMoves(A) ==
    focus = "scan" /\ A /\ UNCHANGED <<focus, pageVars, receiveVars, noticeVars, vars>>
NoticeMoves(A) ==
    focus = "notices" /\ A /\ UNCHANGED <<focus, pageVars, receiveVars, scanVars, vars>>
WebhookMoves(A) == focus = "webhook" /\ A /\ UNCHANGED <<focus, uiVars>>

PartsNext ==
    \/ PageMoves(Page!Next)
    \/ ReceiveMoves(Receive!Next)
    \/ ScanMoves(Scan!Next)
    \/ NoticeMoves(Notice!Next)
    \/ WebhookMoves(Next)

\* The fairness of WalletPage and of Notices, for a behaviour about them.
PartsFairness ==
    /\ \A r \in Refetch : WF_partVars(PageMoves(Page!RefetchTimer(r)))
    /\ WF_partVars(NoticeMoves(Notice!Frame))
    /\ WF_partVars(NoticeMoves(Notice!CloseTimer))
    /\ WF_partVars(NoticeMoves(Notice!HideEnds))
    /\ \A t \in 1 .. Toast :
        /\ WF_partVars(NoticeMoves(Notice!HideToast(t)))
        /\ WF_partVars(NoticeMoves(Notice!RemoveToast(t)))

PartsSpec == PartsInit /\ [][PartsNext]_partVars /\ PartsFairness

-----------------------------------------------------------------------------
\* The type invariants of the five modules.
PartsTypeOK ==
    Page!TypeOK /\ Receive!TypeOK /\ Scan!TypeOK /\ Notice!TypeOK /\ TypeOK

\* Paging neither skips a payment nor ends early unless a refetch replaced the list
\* under a load-more (page.tsx 66-69, 147-153).
NoGapUnlessRaced == Page!NoGapUnlessRaced

\* The skeleton of the first visit goes away, also when the calls fail, unless a refetch
\* waits for bodies (page.tsx 58-82, api.ts 38-61).
SkeletonEndsUnlessStalled ==
    focus = "page" /\ Page!View = "skeleton" /\ ~Page!Reading ~>
        Page!View # "skeleton" \/ Page!Reading

\* The address effect never has two requests on their way (ReceiveDialog.tsx 83-88).
OneAddressRequest == Receive!OneAddressRequest

\* One claim at a time, also across closing the sheet and selecting another deposit
\* (DepositDetailsDialog.tsx 20-39).
OneClaimAwaited == Receive!OneClaimAwaited

\* The camera runs for the open dialog only, but for the leak of a dialog closed while
\* it asks for a camera (useQrScanner.ts 65-92).
CameraOffUnlessLost == Scan!CameraOffUnlessLost

\* The celebration's overlay is never left transparent over the page
\* (PaymentReceivedCelebration.tsx 23-45).
NoInvisibleOverlay == Notice!NoInvisibleOverlay

\* Celebrations and toasts go away by themselves.
NoticesGo == Notice!NoticesGo
=============================================================================
