------------------------------ MODULE Receiving ------------------------------
(* Receiving from the wallet page: the receive dialog (ReceiveDialog.tsx), new  *)
(* on each open, and the claim of an on-chain deposit (DepositDetailsDialog.tsx),*)
(* one dialog for all deposits that is never remounted.                         *)
EXTENDS Naturals, FiniteSets, ClientApi

CONSTANTS
    Request,    \* what the user may ask an invoice for: amount and description
    Deposit,    \* the wallet's unclaimed deposits
    Claims,     \* bound: claims that could be awaited at once
    None

VARIABLES
    isOpen,     \* isReceiveOpen
    tab,        \* "lightning" or "bitcoin"
    ln,         \* the invoice flow: [step, input, asked, shown]
    btc,        \* the address flow: [address, error, loading]
    pending,    \* address requests of this mount on their way
    chain,      \* server: [Deposit -> "confirming", "mature" or "claimed"]
    shown,      \* the page's deposits: [Deposit -> "absent", or the chain at some time]
    selected,   \* selectedDeposit: [deposit, mature], or Nothing
    busy,       \* the details dialog's claim button is disabled
    claims      \* the claims the dialog awaits: a set of [n, deposit]

dialog == <<isOpen, tab, ln, btc, pending>>
deposits == <<chain, shown, selected, busy, claims>>
vars == <<isOpen, tab, ln, btc, pending, chain, shown, selected, busy, claims>>

FreshInvoice == [step |-> "input", input |-> None, asked |-> None, shown |-> None]
FreshAddress == [address |-> FALSE, error |-> FALSE, loading |-> FALSE]
Nothing == [deposit |-> None, mature |-> FALSE]

Init ==
    /\ isOpen = FALSE
    /\ tab = "lightning"
    /\ ln = FreshInvoice
    /\ btc = FreshAddress
    /\ pending = 0
    /\ chain \in [Deposit -> {"confirming", "mature"}]
    /\ shown = [d \in Deposit |-> "absent"]
    /\ selected = Nothing
    /\ busy = FALSE
    /\ claims = {}

-----------------------------------------------------------------------------
(* The receive dialog.                                                        *)

\* A new key: what the old mount still awaits lands nowhere.
Open ==
    /\ ~isOpen
    /\ isOpen' = TRUE
    /\ tab' = "lightning"
    /\ ln' = FreshInvoice
    /\ btc' = FreshAddress
    /\ pending' = 0
    /\ UNCHANGED deposits

Close ==
    /\ isOpen
    /\ isOpen' = FALSE
    /\ UNCHANGED <<tab, ln, btc, pending, deposits>>

ToTab(t) ==
    /\ isOpen
    /\ tab # t
    /\ tab' = t
    /\ UNCHANGED <<isOpen, ln, btc, pending, deposits>>

\* The inputs are there in the input step of the lightning tab only.
AtInput == isOpen /\ tab = "lightning" /\ ln.step = "input"

Type(r) ==
    /\ AtInput
    /\ ln' = [ln EXCEPT !.input = r]
    /\ UNCHANGED <<isOpen, tab, btc, pending, deposits>>

CreateInvoice ==
    /\ AtInput
    /\ ln' = [ln EXCEPT !.step = "loading", !.asked = ln.input]
    /\ UNCHANGED <<isOpen, tab, btc, pending, deposits>>

\* An answer of nothing throws where it is used, in the try block like an error.
InvoiceEnds ==
    /\ ln.step = "loading"
    /\ \E e \in CallEnd :
        ln' = IF e.seen = "answer" THEN [ln EXCEPT !.step = "qr", !.shown = ln.asked]
              ELSE [ln EXCEPT !.step = "input", !.asked = None]
    /\ UNCHANGED <<isOpen, tab, btc, pending, deposits>>

\* generateAddress up to its await.
AskAddress ==
    /\ btc' = [btc EXCEPT !.loading = TRUE, !.error = FALSE]
    /\ pending' = pending + 1
    /\ UNCHANGED <<isOpen, tab, ln, deposits>>

\* The effect asks for an address when the tab has none, none is on its way and
\* none has just been refused.  AddressEffect's bound on pending is one above what
\* OneAddressRequest allows.
NoAddressYetFault == ~btc.address /\ ~btc.error

NoAddressYet == ~btc.address /\ ~btc.loading /\ ~btc.error

AddressEffect ==
    /\ isOpen
    /\ tab = "bitcoin"
    /\ NoAddressYet
    /\ pending < 2
    /\ AskAddress

TryAgain ==
    /\ isOpen
    /\ tab = "bitcoin"
    /\ ~btc.loading /\ btc.error
    /\ AskAddress

AddressEnds ==
    /\ pending > 0
    /\ pending' = pending - 1
    /\ \E e \in CallEnd :
        btc' = IF e.seen = "answer" THEN [btc EXCEPT !.loading = FALSE, !.address = TRUE]
               ELSE [btc EXCEPT !.loading = FALSE, !.error = TRUE]
    /\ UNCHANGED <<isOpen, tab, ln, deposits>>

-----------------------------------------------------------------------------
(* Deposits.                                                                  *)

Mature(d) ==
    /\ chain[d] = "confirming"
    /\ chain' = [chain EXCEPT ![d] = "mature"]
    /\ UNCHANGED <<dialog, shown, selected, busy, claims>>

\* The SDK claims on its own, or a claim whose caller gave up goes through.
ClaimedBehind(d) ==
    /\ chain[d] = "mature"
    /\ chain' = [chain EXCEPT ![d] = "claimed"]
    /\ UNCHANGED <<dialog, shown, selected, busy, claims>>

\* How a deposit may look in an answer that was read no later than now.
Seen(d) ==
    CASE chain[d] = "confirming" -> {"confirming"}
      [] chain[d] = "mature" -> {"confirming", "mature"}
      [] chain[d] = "claimed" -> {"confirming", "mature", "absent"}

\* A refetch lands, one that was overtaken perhaps; when the deposits cannot be
\* fetched the list is empty.
ShowDeposits ==
    /\ \/ \E s \in [Deposit -> {"absent", "confirming", "mature"}] :
            /\ \A d \in Deposit : s[d] \in Seen(d)
            /\ shown' = s
       \/ shown' = [d \in Deposit |-> "absent"]
    /\ UNCHANGED <<dialog, chain, selected, busy, claims>>

\* The two sections of the list.
Confirming == {d \in Deposit : shown[d] = "confirming"}
PendingApproval == {d \in Deposit : shown[d] = "mature"}

\* The sheet's backdrop covers the list while a deposit is selected.  The dialog
\* keeps its busy flag from one deposit to the next.
BusyAfterSelectFault == FALSE

BusyAfterSelect == busy

Select(d) ==
    /\ selected = Nothing
    /\ d \in Confirming \cup PendingApproval
    /\ selected' = [deposit |-> d, mature |-> d \in PendingApproval]
    /\ busy' = BusyAfterSelect
    /\ UNCHANGED <<dialog, chain, shown, claims>>

Deselect ==
    /\ selected # Nothing
    /\ selected' = Nothing
    /\ UNCHANGED <<dialog, chain, shown, busy, claims>>

Used == {c.n : c \in claims}

Claim ==
    /\ selected.mature
    /\ ~busy
    /\ busy' = TRUE
    /\ \E n \in (1 .. Claims) \ Used : claims' = claims \cup {[n |-> n, deposit |-> selected.deposit]}
    /\ UNCHANGED <<dialog, chain, shown, selected>>

\* The server claims, or refuses what is claimed already.  A claim that ends closes
\* whatever sheet is open, one answered by nothing too, since the answer is not looked
\* at; one that fails leaves it.
ClaimEnds(c) ==
    /\ claims' = claims \ {c}
    /\ busy' = FALSE
    /\ \E e \in CallEnd :
        /\ e.served => chain[c.deposit] = "mature"
        /\ chain' = IF e.served THEN [chain EXCEPT ![c.deposit] = "claimed"] ELSE chain
        /\ selected' = IF e.seen # "error" THEN Nothing ELSE selected
    /\ UNCHANGED <<dialog, shown>>

-----------------------------------------------------------------------------
Next ==
    \/ Open \/ Close \/ CreateInvoice \/ InvoiceEnds
    \/ \E t \in {"lightning", "bitcoin"} : ToTab(t)
    \/ \E r \in Request : Type(r)
    \/ AddressEffect \/ TryAgain \/ AddressEnds
    \/ ShowDeposits \/ Deselect \/ Claim
    \/ \E d \in Deposit : Mature(d) \/ ClaimedBehind(d) \/ Select(d)
    \/ \E c \in claims : ClaimEnds(c)

Spec == Init /\ [][Next]_vars

TypeOK ==
    /\ isOpen \in BOOLEAN
    /\ tab \in {"lightning", "bitcoin"}
    /\ ln \in [step : {"input", "loading", "qr"}, input : Request \cup {None},
               asked : Request \cup {None}, shown : Request \cup {None}]
    /\ btc \in [address : BOOLEAN, error : BOOLEAN, loading : BOOLEAN]
    /\ pending \in 0 .. 2
    /\ chain \in [Deposit -> {"confirming", "mature", "claimed"}]
    /\ shown \in [Deposit -> {"absent", "confirming", "mature"}]
    /\ selected \in [deposit : Deposit \cup {None}, mature : BOOLEAN]
    /\ busy \in BOOLEAN
    /\ claims \subseteq [n : 1 .. Claims, deposit : Deposit]

\* The address effect (ReceiveDialog.tsx 83-88) re-runs whenever the dialog opens,
\* the tab changes or a request ends: it never has two requests on their way, and a
\* dialog that shows an address or an error has none.
OneAddressRequest ==
    /\ pending <= 1
    /\ btc.loading <=> pending = 1

\* The details dialog awaits one claim at a time, also across closing the sheet and
\* selecting the same or another deposit, listed as claimable by a stale answer or
\* not (DepositDetailsDialog.tsx 20-39 and 77).
OneClaimAwaited == Cardinality(claims) <= 1 /\ (busy <=> claims # {})
=============================================================================
