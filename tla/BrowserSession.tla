--------------------------- MODULE BrowserSession ---------------------------
(* What a browser keeps of a wallet and who changes it: the credentials in    *)
(* localStorage, the Turnkey session (a JWT) and the session keypair in        *)
(* IndexedDB.  Sign-up, login, logout and the sends all read and replace them  *)
(* with awaits in between (lib/turnkey.ts, app/signup/page.tsx, and logout and  *)
(* refetch of app/page.tsx), in a deployment whose client signs.                *)
(*                                                                              *)
(* One tab is modelled.  A page change stops no flow: what an earlier page      *)
(* started goes on behind the next one.                                         *)
EXTENDS Naturals

CONSTANTS
    Wallet,     \* the wallets of this deployment, by their sub-organization
    Foreign,    \* wallets of the other signer mode: every call answers 409
    Sender,     \* sends that may be under way at once
    Exit,       \* logouts that may be under way at once
    Keys,       \* bound: session keypairs ever generated
    None

ASSUME BrowserSessionAssumption ==
    /\ Keys \in Nat
    /\ Wallet \cap Foreign = {}
    /\ None \notin Wallet \cup Foreign \cup Sender

Key == 1 .. Keys
NoKey == 0

VARIABLES
    creds,      \* localStorage: the wallet whose credentials it holds, or None
    page,       \* "signup" or "wallet", and "...?" until its mount effect ran
    key,        \* IndexedDB: the session keypair.  NoKey: none, or one never used
    jwt,        \* the stored session: [org, key], or None
    minted,     \* keypairs generated so far
    owner,      \* Turnkey: [Key -> the wallet it is registered with, or None]
    expired,    \* Turnkey: keys whose registration has run out
    created,    \* the wallets that exist
    entry,      \* the flow of the sign-up page: create or logIn
    send,       \* [Sender -> doSend's use of the session]
    exit,       \* [Exit -> a logout]
    asking      \* foreign wallets with a refetch in flight

store == <<creds, page>>
turnkey == <<owner, expired, created>>
session == <<key, jwt, minted>>
vars == <<creds, page, key, jwt, minted, owner, expired, created, entry, send, exit, asking>>

NoJwt == [org |-> None, key |-> NoKey]
NoEntry == [pc |-> "idle", wallet |-> None, key |-> NoKey]
NoSend == [pc |-> "idle", wallet |-> None, key |-> NoKey, ensured |-> NoKey,
           kind |-> "swap", disturbed |-> FALSE]
NoExit == [pc |-> "idle", wallet |-> None]

\* A first visit, or one with an earlier visit's credentials whose session has run out.
Init ==
    /\ creds \in Wallet \cup Foreign \cup {None}
    /\ page \in {"signup?", "wallet?"}
    /\ key = NoKey
    /\ jwt = NoJwt
    /\ minted = 0
    /\ owner = [k \in Key |-> None]
    /\ expired = {}
    /\ created = {creds} \cap Wallet
    /\ entry = NoEntry
    /\ send = [s \in Sender |-> NoSend]
    /\ exit = [x \in Exit |-> NoExit]
    /\ asking = {}

-----------------------------------------------------------------------------
(* Turnkey, and the keypair of the browser.                                   *)

\* A stamp of k is accepted for w.
Authorized(k, w) == k # NoKey /\ owner[k] = w /\ k \notin expired

Register(k, w) == owner' = [owner EXCEPT ![k] = w]

\* A registration runs out; the expiry of the session's JWT is the same instant.
Expire(k) ==
    /\ owner[k] # None
    /\ k \notin expired
    /\ expired' = expired \cup {k}
    /\ UNCHANGED <<store, session, owner, created, entry, send, exit, asking>>

\* The sends whose session has been ensured already find another keypair than the
\* one they were promised (history).
Ensured == {"load", "submit", "poll"}
Disturb(who) ==
    [s \in Sender |->
        IF s # who /\ send[s].pc \in Ensured THEN [send[s] EXCEPT !.disturbed = TRUE] ELSE send[s]]

\* resetKeyPair(): a keypair nobody has registered yet replaces the stored one.
Fresh == minted + 1
ResetKeyPair ==
    /\ minted < Keys
    /\ minted' = Fresh
    /\ key' = Fresh

-----------------------------------------------------------------------------
(* The sign-up page.                                                          *)

\* Mount effects: stored credentials lead to the wallet page, and missing ones
\* away from it.  The wallet page starts a refetch.
SignUpMounts ==
    /\ page = "signup?"
    /\ page' = IF creds = None THEN "signup" ELSE "wallet?"
    /\ UNCHANGED <<creds, session, turnkey, entry, send, exit, asking>>

WalletMountsFault ==
    /\ page = "wallet?"
    /\ page' = IF creds = None THEN "signup?" ELSE "wallet"
    /\ asking' = asking \cup {creds}
    /\ UNCHANGED <<creds, session, turnkey, entry, send, exit>>

WalletMounts ==
    /\ page = "wallet?"
    /\ page' = IF creds = None THEN "signup?" ELSE "wallet"
    /\ asking' = asking \cup ({creds} \cap Foreign)
    /\ UNCHANGED <<creds, session, turnkey, entry, send, exit>>

EntryStep(pc, w, k) == entry' = [pc |-> pc, wallet |-> w, key |-> k]

\* Both buttons are disabled while a flow runs.
Press(button) ==
    /\ page = "signup"
    /\ entry.pc = "idle"
    /\ EntryStep(button, None, NoKey)
    /\ UNCHANGED <<store, session, turnkey, send, exit, asking>>

\* Any await of the flow throws: an error line, and the buttons come back.
EntryFails ==
    /\ entry.pc # "idle"
    /\ entry' = NoEntry
    /\ UNCHANGED <<store, session, turnkey, send, exit, asking>>

\* The passkey is registered (create), then the session keypair is generated; a
\* login starts with the keypair.
EntryMints ==
    /\ entry.pc \in {"create", "logIn"}
    /\ ResetKeyPair
    /\ EntryStep(IF entry.pc = "create" THEN "provision" ELSE "tap", None, Fresh)
    /\ send' = Disturb(None)
    /\ UNCHANGED <<store, jwt, turnkey, exit, asking>>

\* createUser: the server registers the passkey and the session key with a new
\* wallet.  The answer may be lost.
Provision ==
    /\ entry.pc = "provision"
    /\ \E w \in Wallet \ created :
        /\ created' = created \cup {w}
        /\ Register(entry.key, w)
        /\ entry' \in {NoEntry, [entry EXCEPT !.pc = "save", !.wallet = w]}
    /\ UNCHANGED <<store, session, expired, send, exit, asking>>

\* loginWithPasskey: the passkey picked decides the wallet, and the stored session
\* becomes that wallet's.
LoginTap ==
    /\ entry.pc = "tap"
    /\ \E w \in created :
        /\ Register(entry.key, w)
        /\ jwt' = [org |-> w, key |-> entry.key]
    /\ EntryStep("read", None, entry.key)
    /\ UNCHANGED <<store, key, minted, expired, created, send, exit, asking>>

\* The raw JWT and its organization are read back from the store; the whoami that
\* follows only finds the passkey to pin, and the server's /login answers for the
\* organization of the JWT.
ReadSession ==
    /\ entry.pc = "read"
    /\ jwt # NoJwt
    /\ EntryStep("save", jwt.org, entry.key)
    /\ UNCHANGED <<store, session, turnkey, send, exit, asking>>

SaveCreds ==
    /\ entry.pc = "save"
    /\ creds' = entry.wallet
    /\ page' = "wallet?"
    /\ entry' = NoEntry
    /\ UNCHANGED <<session, turnkey, send, exit, asking>>

-----------------------------------------------------------------------------
(* Logout.                                                                    *)

Leave(x, w) == exit' = [exit EXCEPT ![x] = [pc |-> "session", wallet |-> w]]

\* The menu's Logout.
PressLogout(x) ==
    /\ page = "wallet"
    /\ exit[x].pc = "idle"
    /\ Leave(x, creds)
    /\ UNCHANGED <<store, session, turnkey, entry, send, asking>>

\* A refetch of the page answers.  409 signer_mismatch logs out, with the
\* credentials the refetch was called with.
Mismatch(x, w) ==
    /\ w \in asking
    /\ exit[x].pc = "idle"
    /\ asking' = asking \ {w}
    /\ Leave(x, w)
    /\ UNCHANGED <<store, session, turnkey, entry, send>>

\* Or it fails in another way: the page keeps its last known state.
RefetchFails(w) ==
    /\ w \in asking
    /\ asking' = asking \ {w}
    /\ UNCHANGED <<store, session, turnkey, entry, send, exit>>

\* clearTurnkeySession is best effort: both steps swallow their failure.
ClearSession(x) ==
    /\ exit[x].pc = "session"
    /\ jwt' \in {NoJwt, jwt}
    /\ exit' = [exit EXCEPT ![x].pc = "key"]
    /\ UNCHANGED <<store, key, minted, turnkey, entry, send, asking>>

ClearKey(x) ==
    /\ exit[x].pc = "key"
    /\ \/ key' = NoKey /\ send' = Disturb(None)
       \/ UNCHANGED <<key, send>>
    /\ exit' = [exit EXCEPT ![x].pc = "creds"]
    /\ UNCHANGED <<store, jwt, minted, turnkey, entry, asking>>

\* clearCreds and the way to the sign-up page, whatever credentials are stored now.
ClearCreds(x) ==
    /\ exit[x].pc = "creds"
    /\ creds' = None
    /\ page' = "signup?"
    /\ exit' = [exit EXCEPT ![x] = NoExit]
    /\ UNCHANGED <<session, turnkey, entry, send, asking>>

-----------------------------------------------------------------------------
(* ensureSession and signSparkPrepareTransfer.                                *)

SendStep(s, r) == send' = [send EXCEPT ![s] = r]
At(s, pc) == send[s].pc = pc

\* Send on the review card: ensureSession loads the stored keypair.
PressSend(s) ==
    /\ page = "wallet"
    /\ creds \in Wallet
    /\ At(s, "idle")
    /\ SendStep(s, [NoSend EXCEPT !.pc = "check", !.wallet = creds, !.key = key])
    /\ UNCHANGED <<store, session, turnkey, entry, exit, asking>>

\* Ensured with the keypair k, which another flow may have replaced since it was read.
Ready(s, k) ==
    SendStep(s, [send[s] EXCEPT !.pc = "load", !.key = NoKey, !.ensured = k, !.disturbed = key # k])

\* getSession(): reuse it only for this sub-organization, for the stored keypair
\* and before it expires.
ReusableFault(s) == jwt.key # NoKey /\ jwt.key = send[s].key /\ jwt.key \notin expired

Reusable(s) ==
    /\ jwt.org = send[s].wallet
    /\ jwt.key = send[s].key
    /\ Authorized(jwt.key, jwt.org)

CheckSession(s) ==
    /\ At(s, "check")
    /\ IF Reusable(s)
       THEN Ready(s, send[s].key)
       ELSE SendStep(s, [send[s] EXCEPT !.pc = IF send[s].key = NoKey THEN "reset" ELSE "whoami"])
    /\ UNCHANGED <<store, session, turnkey, entry, exit, asking>>

\* A whoami stamped with the loaded keypair finds a key registered at sign-up; it
\* may fail for other reasons too.
WhoAmI(s) ==
    /\ At(s, "whoami")
    /\ \/ Authorized(send[s].key, send[s].wallet) /\ Ready(s, send[s].key)
       \/ SendStep(s, [send[s] EXCEPT !.pc = "reset"])
    /\ UNCHANGED <<store, session, turnkey, entry, exit, asking>>

Mint(s) ==
    /\ At(s, "reset")
    /\ ResetKeyPair
    /\ send' = [Disturb(s) EXCEPT ![s].pc = "login", ![s].key = Fresh]
    /\ UNCHANGED <<store, jwt, turnkey, entry, exit, asking>>

\* The tap, pinned to the passkey of the wallet.
Login(s) ==
    /\ At(s, "login")
    /\ Register(send[s].key, send[s].wallet)
    /\ jwt' = [org |-> send[s].wallet, key |-> send[s].key]
    /\ Ready(s, send[s].key)
    /\ UNCHANGED <<store, key, minted, expired, created, entry, exit, asking>>

\* signSparkPrepareTransfer makes a client of its own, whose init() loads the
\* stored keypair and generates none.
LoadedFault == NoKey

Loaded == key

Load(s) ==
    /\ At(s, "load")
    /\ \E kind \in {"swap", "transfer"} :
        SendStep(s, [send[s] EXCEPT !.pc = "submit", !.key = Loaded, !.kind = kind])
    /\ UNCHANGED <<store, session, turnkey, entry, exit, asking>>

\* A stamp of the session keypair is refused: the send ends with an error.
Refused(s) ==
    /\ ~Authorized(send[s].key, send[s].wallet)
    /\ SendStep(s, [send[s] EXCEPT !.pc = "refused"])

\* The package is signed.  Publishing it touches no session; after a swap the next
\* package is signed.
Signed(s) ==
    SendStep(s, IF send[s].kind = "swap" THEN [send[s] EXCEPT !.pc = "load", !.key = NoKey]
                ELSE NoSend)

\* The activity is submitted, stamped by the session for a swap and by the passkey
\* for the send; it may complete at once or have to be polled.
Submit(s) ==
    /\ At(s, "submit")
    /\ \/ send[s].kind = "swap" /\ Refused(s)
       \/ /\ send[s].kind = "transfer" \/ Authorized(send[s].key, send[s].wallet)
          /\ Signed(s) \/ SendStep(s, [send[s] EXCEPT !.pc = "poll"])
    /\ UNCHANGED <<store, session, turnkey, entry, exit, asking>>

\* Polls are stamped by the session, those of the send too.
Poll(s) ==
    /\ At(s, "poll")
    /\ \/ Refused(s)
       \/ Authorized(send[s].key, send[s].wallet) /\ Signed(s)
    /\ UNCHANGED <<store, session, turnkey, entry, exit, asking>>

\* Any other await throws (a declined tap, HTTP, the 30 s of the polls), and the
\* dialog of a send that ended may be used again.
SendEnds(s) ==
    /\ ~At(s, "idle")
    /\ SendStep(s, NoSend)
    /\ UNCHANGED <<store, session, turnkey, entry, exit, asking>>

-----------------------------------------------------------------------------
Next ==
    \/ SignUpMounts \/ WalletMounts
    \/ \E button \in {"create", "logIn"} : Press(button)
    \/ EntryFails \/ EntryMints \/ Provision \/ LoginTap \/ ReadSession \/ SaveCreds
    \/ \E x \in Exit :
        \/ PressLogout(x) \/ ClearSession(x) \/ ClearKey(x) \/ ClearCreds(x)
        \/ \E w \in Foreign : Mismatch(x, w)
    \/ \E w \in Foreign : RefetchFails(w)
    \/ \E s \in Sender :
        \/ PressSend(s) \/ CheckSession(s) \/ WhoAmI(s) \/ Mint(s) \/ Login(s)
        \/ Load(s) \/ Submit(s) \/ Poll(s) \/ SendEnds(s)
    \/ \E k \in Key : Expire(k)

Spec == Init /\ [][Next]_vars

-----------------------------------------------------------------------------
Pages == {"signup?", "signup", "wallet?", "wallet"}
EntryPc == {"idle", "create", "logIn", "provision", "tap", "read", "save"}
SendPc == {"idle", "check", "whoami", "reset", "login", "refused"} \cup Ensured
AnyKey == Key \cup {NoKey}

TypeOK ==
    /\ creds \in Wallet \cup Foreign \cup {None}
    /\ page \in Pages
    /\ key \in AnyKey
    /\ jwt \in [org : Wallet \cup {None}, key : AnyKey]
    /\ minted \in 0 .. Keys
    /\ owner \in [Key -> Wallet \cup {None}]
    /\ expired \subseteq Key
    /\ created \subseteq Wallet
    /\ entry \in [pc : EntryPc, wallet : Wallet \cup {None}, key : AnyKey]
    /\ send \in [Sender -> [pc : SendPc, wallet : Wallet \cup {None}, key : AnyKey,
                            ensured : AnyKey, kind : {"swap", "transfer"}, disturbed : BOOLEAN]]
    /\ exit \in [Exit -> [pc : {"idle", "session", "key", "creds"},
                          wallet : Wallet \cup Foreign \cup {None}]]
    /\ asking \subseteq Foreign

\* ensureSession (turnkey.ts 99-157) only settles for a keypair that this wallet's
\* sub-organization has registered: neither a session left over from another
\* wallet nor a keypair replaced behind its session passes for one.
EnsuredKeyKnown ==
    \A s \in Sender :
        send[s].pc \in Ensured \cup {"refused"} =>
            send[s].ensured # NoKey /\ owner[send[s].ensured] = send[s].wallet

\* A send is only refused for its session keypair (PUBLIC_KEY_NOT_FOUND) when the
\* registration ran out since it was ensured, or another flow replaced or cleared
\* the stored keypair since ensureSession read it: a second send, a sign-up or login, a logout.
RefusalsExplained ==
    \A s \in Sender :
        At(s, "refused") => send[s].disturbed \/ send[s].ensured \in expired

\* app/page.tsx 71-74: after a 409 "these creds can never work here, so drop them".
\* A logout drops no other credentials than those it was called with.
DropsOnlyTheseCreds ==
    [][\A x \in Exit : ClearCreds(x) => creds \in {exit[x].wallet, None}]_vars
=============================================================================
