------------------------ MODULE BrowserSessionProofs ------------------------
(* Theorems about BrowserSession, for any number of wallets, sends, logouts and *)
(* keypairs.                                                                    *)
EXTENDS BrowserSession, Integers, TLAPS

Kept == Wallet \cup {None}
SendState ==
    [pc : SendPc, wallet : Kept, key : AnyKey, ensured : AnyKey,
     kind : {"swap", "transfer"}, disturbed : BOOLEAN]
EntryState == [pc : EntryPc, wallet : Kept, key : AnyKey]
ExitState ==
    [pc : {"idle", "session", "key", "creds"}, wallet : Wallet \cup Foreign \cup {None}]

\* A keypair that was generated and that Turnkey has not seen.
Unused(k) == k \in 1 .. minted /\ owner[k] = None

\* What a send may rely on at each of its awaits.
SendSafe(s) ==
    /\ send[s].pc # "idle" => send[s].wallet \in Wallet
    /\ send[s].pc = "login" => Unused(send[s].key)
    /\ send[s].pc \in Ensured \cup {"refused"} =>
        send[s].ensured # NoKey /\ owner[send[s].ensured] = send[s].wallet
    /\ send[s].pc \in Ensured => send[s].disturbed \/ key = send[s].ensured
    /\ send[s].pc \in {"submit", "poll"} => send[s].disturbed \/ send[s].key = send[s].ensured
    /\ send[s].pc = "refused" => send[s].disturbed \/ send[s].ensured \in expired

EntryHolds == entry.pc \in {"provision", "tap"}

\* Keypairs to be registered are unused, and each belongs to one flow: so a keypair is
\* registered once, and what it is registered with never changes.
KeysSafe ==
    /\ \A k \in Key : k > minted => owner[k] = None
    /\ EntryHolds => Unused(entry.key)
    /\ \A s \in Sender : EntryHolds /\ At(s, "login") => send[s].key # entry.key
    /\ \A s, t \in Sender : At(s, "login") /\ At(t, "login") /\ s # t => send[s].key # send[t].key

SessionInvariant == TypeOK /\ KeysSafe /\ \A s \in Sender : SendSafe(s)

-----------------------------------------------------------------------------
LEMMA Types ==
  ASSUME TypeOK
  PROVE  /\ send \in [Sender -> SendState] /\ entry \in EntryState
         /\ exit \in [Exit -> ExitState] /\ owner \in [Key -> Kept]
         /\ minted \in 0 .. Keys /\ Keys \in Nat /\ None \notin Wallet /\ key \in AnyKey
  BY BrowserSessionAssumption DEF TypeOK, SendState, EntryState, ExitState, Kept

LEMMA SetSend ==
  ASSUME TypeOK, NEW s \in Sender, NEW r \in SendState, send' = [send EXCEPT ![s] = r]
  PROVE  /\ send' \in [Sender -> SendState] /\ send'[s] = r
         /\ \A t \in Sender : t # s => send'[t] = send[t]
  BY Types

\* A step that leaves a send alone, and registers at most a keypair that is unused and
\* not the send's, keeps it safe.
LEMMA SteadySend ==
  ASSUME NEW t \in Sender, SendSafe(t), TypeOK, send'[t] = send[t], key' = key,
         minted' \in Nat, minted <= minted', expired \subseteq expired',
         \A k \in Key : owner'[k] # owner[k] =>
            owner[k] = None /\ (At(t, "login") => send[t].key # k)
  PROVE  SendSafe(t)'
<1>1. send[t] \in SendState /\ minted \in 0 .. Keys /\ Keys \in Nat /\ None \notin Wallet
  BY Types
<1>2. send[t].ensured \in AnyKey /\ send[t].pc \in SendPc
  BY <1>1 DEF SendState
<1>3. send[t].pc \in Ensured \cup {"refused"} =>
        send[t].ensured \in Key /\ owner'[send[t].ensured] = owner[send[t].ensured]
  BY <1>1, <1>2 DEF SendSafe, AnyKey, Ensured
<1>4. At(t, "login") => send[t].key \in Key /\ owner'[send[t].key] = owner[send[t].key]
                        /\ send[t].key \in 1 .. minted'
  BY <1>1 DEF SendSafe, Unused, At, Key
<1> QED
  BY <1>3, <1>4 DEF SendSafe, Unused, At, Ensured

\* A step that replaces or clears the stored keypair and says so keeps the others safe.
LEMMA DisturbedSend ==
  ASSUME NEW who, NEW t \in Sender, t # who, SendSafe(t), TypeOK, send'[t] = Disturb(who)[t],
         UNCHANGED <<owner, expired>>, minted' \in Nat, minted <= minted'
  PROVE  SendSafe(t)' /\ send'[t] \in SendState
         /\ send'[t].pc = send[t].pc /\ send'[t].key = send[t].key
<1>1. send[t] \in SendState /\ minted \in 0 .. Keys /\ Keys \in Nat
  BY Types
<1>2. send[t].pc \in SendPc
  BY <1>1 DEF SendState
<1>3. CASE send[t].pc \in Ensured
  <2> DEFINE r == [send[t] EXCEPT !.disturbed = TRUE]
  <2>1. send'[t] = r
    BY <1>3 DEF Disturb
  <2>2. /\ r \in SendState /\ r.pc = send[t].pc /\ r.key = send[t].key /\ r.disturbed
        /\ r.ensured = send[t].ensured /\ r.wallet = send[t].wallet
    BY <1>1 DEF SendState
  <2> QED
    BY <1>3, <2>1, <2>2 DEF SendSafe, Ensured
<1>4. CASE send[t].pc \notin Ensured
  <2>1. send'[t] = send[t]
    BY <1>4 DEF Disturb
  <2>2. send[t].pc = "login" => send[t].key \in 1 .. minted'
    BY <1>1 DEF SendSafe, Unused
  <2> QED
    BY <1>1, <1>4, <2>1, <2>2 DEF SendSafe, Unused, Ensured
<1> QED
  BY <1>3, <1>4

\* A step of one send that touches no keypair.
LEMMA OneSend ==
  ASSUME SessionInvariant, NEW s \in Sender, NEW r \in SendState,
         send' = [send EXCEPT ![s] = r], r.pc # "login",
         UNCHANGED <<store, session, turnkey, entry, exit, asking>>, SendSafe(s)'
  PROVE  SessionInvariant'
<1>1. /\ send' \in [Sender -> SendState] /\ send'[s] = r
      /\ \A t \in Sender : t # s => send'[t] = send[t]
  BY SetSend DEF SessionInvariant
<1>2. TypeOK'
  BY <1>1 DEF SessionInvariant, TypeOK, SendState, Kept, store, session, turnkey
<1>3. KeysSafe'
  <2>1. \A t \in Sender : At(t, "login")' => t # s /\ At(t, "login")
    BY <1>1 DEF At
  <2>2. UNCHANGED <<minted, owner, entry>>
    BY DEF session, turnkey
  <2> QED
    BY <1>1, <2>1, <2>2 DEF SessionInvariant, KeysSafe, EntryHolds, Unused
<1>4. ASSUME NEW t \in Sender
      PROVE  SendSafe(t)'
  <2>1. CASE t = s
    BY <2>1
  <2>2. CASE t # s
    <3>1. minted \in Nat /\ minted <= minted
      BY Types DEF SessionInvariant
    <3> QED
      BY <1>1, <2>2, <3>1, SteadySend DEF SessionInvariant, session, turnkey
  <2> QED
    BY <2>1, <2>2
<1> QED
  BY <1>2, <1>3, <1>4 DEF SessionInvariant

\* A step of a page, an entry or a logout that touches neither keypairs nor sends.
LEMMA KeysAlone ==
  ASSUME SessionInvariant, TypeOK', UNCHANGED <<key, minted, owner, send, expired>>,
         EntryHolds' => EntryHolds /\ entry' = entry
  PROVE  SessionInvariant'
<1>1. minted \in Nat /\ minted <= minted
  BY Types DEF SessionInvariant
<1>2. \A t \in Sender : SendSafe(t)'
  BY <1>1, SteadySend DEF SessionInvariant
<1>3. KeysSafe'
  BY DEF SessionInvariant, KeysSafe, EntryHolds, Unused, At
<1> QED
  BY <1>2, <1>3 DEF SessionInvariant

\* The flow of the sign-up page registers its keypair.
LEMMA EntryRegisters ==
  ASSUME SessionInvariant, TypeOK', EntryHolds, NEW w \in Wallet, Register(entry.key, w),
         ~EntryHolds', UNCHANGED <<key, minted, expired, send>>
  PROVE  SessionInvariant'
<1>1. minted \in Nat /\ minted <= minted /\ owner \in [Key -> Kept]
  BY Types DEF SessionInvariant
<1>2. entry.key \in 1 .. minted /\ owner[entry.key] = None
  BY DEF SessionInvariant, KeysSafe, Unused
<1>3. \A k \in Key : k # entry.key => owner'[k] = owner[k]
  BY <1>1 DEF Register
<1>4. \A t \in Sender : SendSafe(t)'
  BY <1>1, <1>2, <1>3, SteadySend DEF SessionInvariant, KeysSafe
<1>5. \A k \in Key : k > minted => owner'[k] = None
  BY <1>1, <1>2, <1>3 DEF SessionInvariant, KeysSafe, Key
<1>6. KeysSafe'
  BY <1>5 DEF SessionInvariant, KeysSafe, At
<1> QED
  BY <1>4, <1>6 DEF SessionInvariant

-----------------------------------------------------------------------------
LEMMA EntryMintsKeeps ==
  ASSUME SessionInvariant, EntryMints
  PROVE  SessionInvariant'
<1> USE DEF SessionInvariant
<1>1. /\ minted \in 0 .. Keys /\ Keys \in Nat /\ minted < Keys /\ minted' = Fresh
      /\ Fresh \in Key /\ Fresh > minted /\ minted' \in Nat /\ minted <= minted'
  BY Types DEF EntryMints, ResetKeyPair, Fresh, Key
<1>2. /\ key' = Fresh /\ send' = Disturb(None) /\ UNCHANGED <<owner, expired>>
      /\ entry' = [pc |-> entry'.pc, wallet |-> None, key |-> Fresh]
      /\ entry'.pc \in {"provision", "tap"}
      /\ UNCHANGED <<store, jwt, turnkey, exit, asking>>
  BY DEF EntryMints, EntryStep, ResetKeyPair, turnkey
<1>3. ASSUME NEW t \in Sender
      PROVE  /\ SendSafe(t)' /\ send'[t] \in SendState
             /\ send'[t].pc = send[t].pc /\ send'[t].key = send[t].key
  <2>1. t # None /\ send'[t] = Disturb(None)[t]
    BY <1>2, BrowserSessionAssumption
  <2> QED
    BY <1>1, <1>2, <2>1, DisturbedSend
<1>4. send' \in [Sender -> SendState]
  BY <1>2, <1>3 DEF Disturb
<1>5. entry'.key = Fresh /\ owner[Fresh] = None
  BY <1>1, <1>2 DEF KeysSafe
<1>6. TypeOK'
  <2>1. entry' \in EntryState
    BY <1>1, <1>2 DEF EntryState, EntryPc, Kept, AnyKey
  <2> QED
    BY <1>1, <1>2, <1>4, <2>1 DEF TypeOK, SendState, EntryState, Kept, AnyKey, Key, store, turnkey
<1>7. KeysSafe'
  <2>1. \A t \in Sender : At(t, "login")' => At(t, "login") /\ send'[t].key = send[t].key
    BY <1>3 DEF At
  <2>2. \A t \in Sender : At(t, "login") => send[t].key \in 1 .. minted
    BY DEF SendSafe, Unused, At
  <2>3. Unused(entry.key)'
    BY <1>1, <1>2, <1>5 DEF Unused
  <2>4. \A k \in Key : k > minted' => owner'[k] = None
    BY <1>1, <1>2 DEF KeysSafe, Key
  <2>5. \A t \in Sender : At(t, "login")' => send'[t].key # entry'.key
    BY <1>1, <1>5, <2>1, <2>2
  <2>6. \A t, u \in Sender : At(t, "login")' /\ At(u, "login")' /\ t # u => send'[t].key # send'[u].key
    BY <2>1 DEF KeysSafe
  <2> QED
    BY <2>3, <2>4, <2>5, <2>6 DEF KeysSafe, EntryHolds, At
<1> QED
  BY <1>3, <1>6, <1>7

LEMMA ClearKeyKeeps ==
  ASSUME SessionInvariant, NEW x \in Exit, ClearKey(x)
  PROVE  SessionInvariant'
<1> USE DEF SessionInvariant
<1>1. minted \in Nat /\ minted <= minted /\ UNCHANGED <<minted, owner, expired, entry>>
  BY Types DEF ClearKey, turnkey
<1>2. exit' \in [Exit -> ExitState]
  BY Types DEF ClearKey, ExitState
<1>3. CASE key' = NoKey /\ send' = Disturb(None)
  <2>1. ASSUME NEW t \in Sender
        PROVE  /\ SendSafe(t)' /\ send'[t] \in SendState
               /\ send'[t].pc = send[t].pc /\ send'[t].key = send[t].key
    <3>1. t # None /\ send'[t] = Disturb(None)[t]
      BY <1>3, BrowserSessionAssumption
    <3> QED
      BY <1>1, <3>1, DisturbedSend
  <2>2. send' \in [Sender -> SendState]
    BY <1>3, <2>1 DEF Disturb
  <2>3. TypeOK'
    BY <1>1, <1>2, <1>3, <2>2
      DEF ClearKey, TypeOK, SendState, ExitState, Kept, AnyKey, store, turnkey
  <2>4. KeysSafe'
    BY <1>1, <2>1 DEF KeysSafe, EntryHolds, Unused, At
  <2> QED
    BY <2>1, <2>3, <2>4
<1>4. CASE UNCHANGED <<key, send>>
  <2>1. TypeOK'
    BY <1>1, <1>2, <1>4 DEF ClearKey, TypeOK, ExitState, store, turnkey
  <2> QED
    BY <1>1, <1>4, <2>1, KeysAlone DEF EntryHolds
<1> QED
  BY <1>3, <1>4 DEF ClearKey

\* ensureSession replaces the keypair for one send.
LEMMA MintKeeps ==
  ASSUME SessionInvariant, NEW s \in Sender, Mint(s)
  PROVE  SessionInvariant'
<1> USE DEF SessionInvariant
<1> DEFINE r == [send[s] EXCEPT !.pc = "login", !.key = Fresh]
<1>1. /\ minted \in 0 .. Keys /\ Keys \in Nat /\ minted < Keys /\ minted' = Fresh
      /\ Fresh \in Key /\ Fresh > minted /\ minted' \in Nat /\ minted <= minted'
  BY Types DEF Mint, ResetKeyPair, Fresh, Key
<1>2. /\ key' = Fresh /\ UNCHANGED <<owner, expired, entry>>
      /\ UNCHANGED <<store, jwt, turnkey, exit, asking>>
      /\ send' = [Disturb(s) EXCEPT ![s].pc = "login", ![s].key = Fresh]
  BY DEF Mint, ResetKeyPair, turnkey
<1>3. send[s] \in SendState /\ send[s].pc = "reset"
  BY Types DEF Mint, At
<1>4. send'[s] = r
  BY <1>2 DEF Disturb
<1>5. /\ r \in SendState /\ r.pc = "login" /\ r.key = Fresh /\ r.wallet = send[s].wallet
  BY <1>1, <1>3 DEF SendState, SendPc, AnyKey
<1>6. ASSUME NEW t \in Sender, t # s
      PROVE  /\ SendSafe(t)' /\ send'[t] \in SendState
             /\ send'[t].pc = send[t].pc /\ send'[t].key = send[t].key
  <2>1. send'[t] = Disturb(s)[t]
    BY <1>2, <1>6 DEF Disturb
  <2> QED
    BY <1>1, <1>2, <1>6, <2>1, DisturbedSend
<1>7. send' \in [Sender -> SendState]
  BY <1>2, <1>4, <1>5, <1>6 DEF Disturb
<1>8. TypeOK'
  BY <1>1, <1>2, <1>7 DEF TypeOK, SendState, Kept, AnyKey, Key, store, turnkey
<1>9. owner[Fresh] = None
  BY <1>1 DEF KeysSafe
<1>10. SendSafe(s)'
  <2>1. send'[s].pc = "login" /\ send'[s].key = Fresh /\ send'[s].wallet = send[s].wallet
    BY <1>4, <1>5
  <2>2. send[s].wallet \in Wallet
    BY <1>3 DEF SendSafe
  <2>3. Fresh \in 1 .. minted' /\ owner'[Fresh] = None
    BY <1>1, <1>2, <1>9 DEF Fresh
  <2> QED
    BY <2>1, <2>2, <2>3 DEF SendSafe, Unused, Ensured
<1>11. KeysSafe'
  <2>1. \A t \in Sender : t # s /\ At(t, "login")' => At(t, "login") /\ send'[t].key = send[t].key
    BY <1>6 DEF At
  <2>2. \A t \in Sender : At(t, "login") => send[t].key \in 1 .. minted
    BY DEF SendSafe, Unused, At
  <2>3. \A t \in Sender : t # s /\ At(t, "login")' => send'[t].key # Fresh
    BY <1>1, <2>1, <2>2
  <2>4. EntryHolds => Unused(entry.key)' /\ entry.key # Fresh
    BY <1>1, <1>2 DEF KeysSafe, Unused
  <2>5. \A k \in Key : k > minted' => owner'[k] = None
    BY <1>1, <1>2 DEF KeysSafe, Key
  <2>6. send'[s].key = Fresh
    BY <1>4, <1>5
  <2>7. EntryHolds' = EntryHolds /\ entry' = entry
    BY <1>2 DEF EntryHolds
  <2>8. \A t \in Sender : EntryHolds' /\ At(t, "login")' => send'[t].key # entry'.key
    BY <2>1, <2>4, <2>6, <2>7 DEF KeysSafe
  <2>9. \A t, u \in Sender : At(t, "login")' /\ At(u, "login")' /\ t # u => send'[t].key # send'[u].key
    BY <2>1, <2>3, <2>6 DEF KeysSafe
  <2> QED
    BY <2>4, <2>5, <2>7, <2>8, <2>9 DEF KeysSafe, At
<1> QED
  BY <1>6, <1>8, <1>10, <1>11

\* ... and registers it.
LEMMA LoginKeeps ==
  ASSUME SessionInvariant, NEW s \in Sender, Login(s)
  PROVE  SessionInvariant'
<1> USE DEF SessionInvariant
<1> DEFINE k == send[s].key
           r == [send[s] EXCEPT !.pc = "load", !.key = NoKey, !.ensured = k, !.disturbed = key # k]
<1>1. /\ send[s] \in SendState /\ send[s].pc = "login" /\ minted \in 0 .. Keys /\ Keys \in Nat
      /\ owner \in [Key -> Kept] /\ minted <= minted
  BY Types DEF Login, At
<1>2. send' = [send EXCEPT ![s] = r]
  BY DEF Login, Ready, SendStep
<1>3. /\ k \in 1 .. minted /\ k \in Key /\ owner[k] = None /\ send[s].wallet \in Wallet
  BY <1>1 DEF SendSafe, Unused, Key
<1>4. /\ owner' = [owner EXCEPT ![k] = send[s].wallet]
      /\ jwt' = [org |-> send[s].wallet, key |-> k]
      /\ UNCHANGED <<store, key, minted, expired, created, entry, exit, asking>>
  BY DEF Login, Register
<1>5. /\ r \in SendState /\ r.pc = "load" /\ r.ensured = k /\ r.wallet = send[s].wallet
      /\ r.disturbed = (key # k)
  BY <1>1, <1>3 DEF SendState, SendPc, Ensured, AnyKey
<1>6. /\ send' \in [Sender -> SendState] /\ send'[s] = r
      /\ \A t \in Sender : t # s => send'[t] = send[t]
  BY <1>2, <1>5, SetSend
<1>7. TypeOK'
  <2>1. owner' \in [Key -> Kept] /\ jwt' \in [org : Kept, key : AnyKey]
    BY <1>1, <1>3, <1>4 DEF Kept, AnyKey
  <2> QED
    BY <1>4, <1>6, <2>1 DEF TypeOK, SendState, Kept, store
<1>8. SendSafe(s)'
  <2>1. /\ send'[s].pc = "load" /\ send'[s].ensured = k /\ send'[s].wallet = send[s].wallet
        /\ send'[s].disturbed = (key # k)
    BY <1>5, <1>6
  <2>2. k # NoKey /\ owner'[k] = send[s].wallet /\ key' = key
    BY <1>1, <1>3, <1>4 DEF Key, NoKey
  <2> QED
    BY <1>3, <2>1, <2>2 DEF SendSafe, Ensured
<1>9. ASSUME NEW t \in Sender, t # s
      PROVE  SendSafe(t)'
  <2>1. At(t, "login") => send[t].key # k
    BY <1>1, <1>9 DEF KeysSafe, At
  <2>2. \A j \in Key : owner'[j] # owner[j] => j = k
    BY <1>1, <1>4
  <2> QED
    BY <1>1, <1>3, <1>4, <1>6, <1>9, <2>1, <2>2, SteadySend
<1>10. KeysSafe'
  <2>1. \A t \in Sender : At(t, "login")' => t # s /\ At(t, "login") /\ send'[t].key = send[t].key
    BY <1>5, <1>6 DEF At
  <2>2. EntryHolds' = EntryHolds /\ entry' = entry /\ minted' = minted
    BY <1>4 DEF EntryHolds
  <2>3. EntryHolds => Unused(entry.key)'
    BY <1>1, <1>4, <2>2 DEF KeysSafe, Unused, Key, At
  <2>4. \A j \in Key : j > minted' => owner'[j] = None
    BY <1>1, <1>3, <1>4, <2>2 DEF KeysSafe, Key
  <2>5. \A t \in Sender : EntryHolds' /\ At(t, "login")' => send'[t].key # entry'.key
    BY <2>1, <2>2 DEF KeysSafe
  <2>6. \A t, u \in Sender : At(t, "login")' /\ At(u, "login")' /\ t # u => send'[t].key # send'[u].key
    BY <2>1 DEF KeysSafe
  <2> QED
    BY <2>2, <2>3, <2>4, <2>5, <2>6 DEF KeysSafe, At
<1> QED
  BY <1>7, <1>8, <1>9, <1>10

\* Ensured with a keypair registered with the send's wallet.
LEMMA ReadyKeeps ==
  ASSUME SessionInvariant, NEW s \in Sender, send[s].pc \in {"check", "whoami"},
         Authorized(send[s].key, send[s].wallet), Ready(s, send[s].key),
         UNCHANGED <<store, session, turnkey, entry, exit, asking>>
  PROVE  SessionInvariant'
<1> DEFINE k == send[s].key
           r == [send[s] EXCEPT !.pc = "load", !.key = NoKey, !.ensured = k, !.disturbed = key # k]
<1>1. send[s] \in SendState /\ send[s].pc # "idle"
  BY Types DEF SessionInvariant
<1>2. /\ r \in SendState /\ r.pc = "load" /\ r.ensured = k /\ r.wallet = send[s].wallet
      /\ r.disturbed = (key # k)
  BY <1>1 DEF SendState, SendPc, Ensured, AnyKey
<1>3. send' = [send EXCEPT ![s] = r]
  BY DEF Ready, SendStep
<1>4. send'[s] = r
  BY <1>2, <1>3, SetSend DEF SessionInvariant
<1>5. SendSafe(s)'
  BY <1>1, <1>2, <1>4 DEF SessionInvariant, SendSafe, Authorized, Ensured, turnkey, session
<1> QED
  BY <1>2, <1>3, <1>5, OneSend

\* The steps of a send that replace no keypair.
LEMMA SendKeeps ==
  ASSUME SessionInvariant, NEW s \in Sender,
         \/ PressSend(s) \/ CheckSession(s) \/ WhoAmI(s) \/ Load(s) \/ Submit(s) \/ Poll(s) \/ SendEnds(s)
  PROVE  SessionInvariant'
<1> DEFINE q == send[s]
<1>1. /\ q \in SendState /\ key \in AnyKey /\ NoSend \in SendState /\ NoSend.pc = "idle"
      /\ TypeOK /\ SendSafe(s)
  BY Types DEF SessionInvariant, NoSend, SendState, SendPc, Kept, AnyKey
<1>2. UNCHANGED <<store, session, turnkey, entry, exit, asking>> /\ UNCHANGED <<key, owner, expired>>
  BY DEF PressSend, CheckSession, WhoAmI, Load, Submit, Poll, SendEnds, session, turnkey
<1>3. CASE PressSend(s)
  <2> DEFINE r == [NoSend EXCEPT !.pc = "check", !.wallet = creds, !.key = key]
  <2>1. r \in SendState /\ r.pc = "check" /\ r.wallet \in Wallet
    BY <1>1, <1>3 DEF PressSend, SendState, SendPc, Kept
  <2>2. send' = [send EXCEPT ![s] = r]
    BY <1>3 DEF PressSend, SendStep
  <2>3. send'[s] = r
    BY <1>1, <2>1, <2>2, SetSend
  <2>4. SendSafe(s)'
    BY <2>1, <2>3 DEF SendSafe, Ensured
  <2> QED
    BY <1>2, <2>1, <2>2, <2>4, OneSend
<1>4. CASE CheckSession(s)
  <2>1. CASE Reusable(s)
    <3>1. q.pc = "check" /\ Authorized(q.key, q.wallet) /\ Ready(s, q.key)
      BY <1>4, <2>1 DEF CheckSession, Reusable, At
    <3> QED
      BY <1>2, <3>1, ReadyKeeps
  <2>2. CASE ~Reusable(s)
    <3> DEFINE p == IF q.key = NoKey THEN "reset" ELSE "whoami"
               r == [q EXCEPT !.pc = p]
    <3>1. /\ r \in SendState /\ r.pc \in {"reset", "whoami"} /\ r.wallet = q.wallet
          /\ q.pc = "check"
      BY <1>1, <1>4 DEF CheckSession, SendState, SendPc, At
    <3>2. send' = [send EXCEPT ![s] = r]
      BY <1>4, <2>2 DEF CheckSession, SendStep
    <3>3. send'[s] = r
      BY <1>1, <3>1, <3>2, SetSend
    <3>4. SendSafe(s)'
      BY <1>1, <3>1, <3>3 DEF SendSafe, Ensured
    <3> QED
      BY <1>2, <3>1, <3>2, <3>4, OneSend
  <2> QED
    BY <2>1, <2>2
<1>5. CASE WhoAmI(s)
  <2>1. CASE Authorized(q.key, q.wallet) /\ Ready(s, q.key)
    BY <1>2, <1>5, <2>1, ReadyKeeps DEF WhoAmI, At
  <2>2. CASE SendStep(s, [q EXCEPT !.pc = "reset"])
    <3> DEFINE r == [q EXCEPT !.pc = "reset"]
    <3>1. r \in SendState /\ r.pc = "reset" /\ r.wallet = q.wallet /\ q.pc = "whoami"
      BY <1>1, <1>5 DEF WhoAmI, SendState, SendPc, At
    <3>2. send' = [send EXCEPT ![s] = r]
      BY <2>2 DEF SendStep
    <3>3. send'[s] = r
      BY <1>1, <3>1, <3>2, SetSend
    <3>4. SendSafe(s)'
      BY <1>1, <3>1, <3>3 DEF SendSafe, Ensured
    <3> QED
      BY <1>2, <3>1, <3>2, <3>4, OneSend
  <2> QED
    BY <1>5, <2>1, <2>2 DEF WhoAmI
<1>6. CASE Load(s)
  <2>1. PICK kind \in {"swap", "transfer"} :
          SendStep(s, [q EXCEPT !.pc = "submit", !.key = Loaded, !.kind = kind])
    BY <1>6 DEF Load
  <2> DEFINE r == [q EXCEPT !.pc = "submit", !.key = Loaded, !.kind = kind]
  <2>2. /\ r \in SendState /\ r.pc = "submit" /\ r.key = key /\ q.pc = "load"
        /\ r.wallet = q.wallet /\ r.ensured = q.ensured /\ r.disturbed = q.disturbed
    BY <1>1, <1>6 DEF Load, Loaded, SendState, SendPc, Ensured, At
  <2>3. send' = [send EXCEPT ![s] = r]
    BY <2>1 DEF SendStep
  <2>4. send'[s] = r
    BY <1>1, <2>2, <2>3, SetSend
  <2>5. SendSafe(s)'
    BY <1>1, <1>2, <2>2, <2>4 DEF SendSafe, Ensured
  <2> QED
    BY <1>2, <2>2, <2>3, <2>5, OneSend
<1>7. CASE Submit(s) \/ Poll(s)
  <2>0. q.pc \in {"submit", "poll"}
    BY <1>7 DEF Submit, Poll, At
  <2>1. CASE Refused(s)
    <3> DEFINE r == [q EXCEPT !.pc = "refused"]
    <3>1. /\ r \in SendState /\ r.pc = "refused" /\ r.wallet = q.wallet
          /\ r.ensured = q.ensured /\ r.disturbed = q.disturbed
      BY <1>1 DEF SendState, SendPc
    <3>2. send' = [send EXCEPT ![s] = r] /\ ~Authorized(q.key, q.wallet)
      BY <2>1 DEF Refused, SendStep
    <3>3. send'[s] = r
      BY <1>1, <3>1, <3>2, SetSend
    <3>4. q.ensured # NoKey /\ owner[q.ensured] = q.wallet /\ q.wallet \in Wallet
      BY <1>1, <2>0 DEF SendSafe, Ensured
    <3>5. q.disturbed \/ q.ensured \in expired
      BY <1>1, <2>0, <3>2, <3>4 DEF SendSafe, Authorized
    <3>6. SendSafe(s)'
      BY <1>2, <3>1, <3>3, <3>4, <3>5 DEF SendSafe, Ensured
    <3> QED
      BY <1>2, <3>1, <3>2, <3>6, OneSend
  <2>2. CASE Signed(s)
    <3> DEFINE r == IF q.kind = "swap" THEN [q EXCEPT !.pc = "load", !.key = NoKey] ELSE NoSend
    <3>1. /\ r \in SendState /\ r.pc \in {"load", "idle"}
          /\ r.pc = "load" => r.wallet = q.wallet /\ r.ensured = q.ensured /\ r.disturbed = q.disturbed
      BY <1>1 DEF SendState, SendPc, Ensured, AnyKey
    <3>2. send' = [send EXCEPT ![s] = r]
      BY <2>2 DEF Signed, SendStep
    <3>3. send'[s] = r
      BY <1>1, <3>1, <3>2, SetSend
    <3>4. SendSafe(s)'
      BY <1>1, <1>2, <2>0, <3>1, <3>3 DEF SendSafe, Ensured
    <3> QED
      BY <1>2, <3>1, <3>2, <3>4, OneSend
  <2>3. CASE SendStep(s, [q EXCEPT !.pc = "poll"])
    <3> DEFINE r == [q EXCEPT !.pc = "poll"]
    <3>1. /\ r \in SendState /\ r.pc = "poll" /\ r.wallet = q.wallet /\ r.key = q.key
          /\ r.ensured = q.ensured /\ r.disturbed = q.disturbed
      BY <1>1 DEF SendState, SendPc, Ensured
    <3>2. send' = [send EXCEPT ![s] = r]
      BY <2>3 DEF SendStep
    <3>3. send'[s] = r
      BY <1>1, <3>1, <3>2, SetSend
    <3>4. SendSafe(s)'
      BY <1>1, <1>2, <2>0, <3>1, <3>3 DEF SendSafe, Ensured
    <3> QED
      BY <1>2, <3>1, <3>2, <3>4, OneSend
  <2> QED
    BY <1>7, <2>1, <2>2, <2>3 DEF Submit, Poll
<1>8. CASE SendEnds(s)
  <2>1. send' = [send EXCEPT ![s] = NoSend]
    BY <1>8 DEF SendEnds, SendStep
  <2>2. send'[s] = NoSend
    BY <1>1, <2>1, SetSend
  <2>3. SendSafe(s)'
    BY <1>1, <2>2 DEF SendSafe, Ensured
  <2> QED
    BY <1>1, <1>2, <2>1, <2>3, OneSend
<1> QED
  BY <1>3, <1>4, <1>5, <1>6, <1>7, <1>8

-----------------------------------------------------------------------------
LEMMA InitHolds == Init => SessionInvariant
<1> SUFFICES ASSUME Init PROVE SessionInvariant
  OBVIOUS
<1> USE BrowserSessionAssumption DEF Init, NoJwt, NoEntry, NoSend, NoExit
<1>1. TypeOK
  BY DEF TypeOK, Pages, AnyKey, EntryPc, SendPc
<1>2. KeysSafe
  BY DEF KeysSafe, EntryHolds, At
<1>3. \A s \in Sender : SendSafe(s)
  BY DEF SendSafe, Ensured
<1> QED
  BY <1>1, <1>2, <1>3 DEF SessionInvariant

LEMMA StepKeeps == SessionInvariant /\ [Next]_vars => SessionInvariant'
<1> SUFFICES ASSUME SessionInvariant, [Next]_vars PROVE SessionInvariant'
  OBVIOUS
<1>1. TypeOK /\ minted \in Nat /\ entry \in EntryState /\ exit \in [Exit -> ExitState]
  BY Types DEF SessionInvariant
<1>2. ASSUME SignUpMounts \/ WalletMounts
      PROVE  SessionInvariant'
  <2>1. UNCHANGED <<creds, session, turnkey, entry, send, exit>> /\ page' \in Pages /\ asking' \subseteq Foreign
    BY <1>1, <1>2 DEF SignUpMounts, WalletMounts, Pages, TypeOK
  <2>2. TypeOK'
    BY <1>1, <2>1 DEF TypeOK, session, turnkey
  <2> QED
    BY <2>1, <2>2, KeysAlone DEF session, turnkey, EntryHolds
<1>3. ASSUME \/ \E button \in {"create", "logIn"} : Press(button)
             \/ EntryFails \/ ReadSession \/ SaveCreds
      PROVE  SessionInvariant'
  <2>1. UNCHANGED <<session, turnkey, send, exit, asking>>
    BY <1>3 DEF Press, EntryFails, ReadSession, SaveCreds
  <2>2. entry' \in EntryState /\ ~EntryHolds'
    BY <1>1, <1>3
      DEF Press, EntryFails, ReadSession, SaveCreds, EntryStep, NoEntry, EntryState, EntryPc, Kept,
          AnyKey, TypeOK, EntryHolds
  <2>3. creds' \in Wallet \cup Foreign \cup {None} /\ page' \in Pages
    BY <1>1, <1>3 DEF Press, EntryFails, ReadSession, SaveCreds, store, TypeOK, Pages
  <2>4. TypeOK'
    BY <1>1, <2>1, <2>2, <2>3 DEF TypeOK, EntryState, Kept, session, turnkey
  <2> QED
    BY <2>1, <2>2, <2>4, KeysAlone DEF session, turnkey
<1>4. ASSUME Provision
      PROVE  SessionInvariant'
  <2>1. PICK w \in Wallet \ created :
          /\ created' = created \cup {w}
          /\ Register(entry.key, w)
          /\ entry' \in {NoEntry, [entry EXCEPT !.pc = "save", !.wallet = w]}
    BY <1>4 DEF Provision
  <2>2. UNCHANGED <<store, session, expired, send, exit, asking>> /\ entry.pc = "provision"
    BY <1>4 DEF Provision
  <2>3. entry' \in EntryState /\ ~EntryHolds' /\ EntryHolds
    <3>1. CASE entry' = NoEntry
      BY <2>2, <3>1 DEF NoEntry, EntryState, EntryPc, Kept, AnyKey, EntryHolds
    <3>2. CASE entry' = [entry EXCEPT !.pc = "save", !.wallet = w]
      BY <1>1, <2>2, <3>2 DEF EntryState, EntryPc, Kept, EntryHolds
    <3> QED
      BY <2>1, <3>1, <3>2
  <2>4. owner' \in [Key -> Kept] /\ created' \subseteq Wallet
    BY <1>1, <2>1 DEF TypeOK, Register, Kept
  <2>5. TypeOK'
    BY <1>1, <2>2, <2>3, <2>4 DEF TypeOK, EntryState, Kept, store, session
  <2> QED
    BY <2>1, <2>2, <2>3, <2>5, EntryRegisters DEF session
<1>5. ASSUME LoginTap
      PROVE  SessionInvariant'
  <2>1. PICK w \in created : Register(entry.key, w) /\ jwt' = [org |-> w, key |-> entry.key]
    BY <1>5 DEF LoginTap
  <2>2. /\ UNCHANGED <<store, key, minted, expired, created, send, exit, asking>>
        /\ entry.pc = "tap" /\ entry' = [pc |-> "read", wallet |-> None, key |-> entry.key]
    BY <1>5 DEF LoginTap, EntryStep
  <2>3. entry' \in EntryState /\ ~EntryHolds' /\ EntryHolds /\ w \in Wallet
    BY <1>1, <2>1, <2>2 DEF EntryState, EntryPc, Kept, EntryHolds, TypeOK
  <2>4. owner' \in [Key -> Kept] /\ jwt' \in [org : Kept, key : AnyKey]
    BY <1>1, <2>1, <2>3 DEF TypeOK, Register, Kept, EntryState
  <2>5. TypeOK'
    BY <1>1, <2>2, <2>3, <2>4 DEF TypeOK, EntryState, Kept, store
  <2> QED
    BY <2>1, <2>2, <2>3, <2>5, EntryRegisters
<1>6. ASSUME NEW x \in Exit, PressLogout(x) \/ ClearSession(x) \/ ClearCreds(x)
                             \/ \E w \in Foreign : Mismatch(x, w)
      PROVE  SessionInvariant'
  <2>1. UNCHANGED <<key, minted, turnkey, entry, send>>
    BY <1>6 DEF PressLogout, ClearSession, ClearCreds, Mismatch, session
  <2>2. exit' \in [Exit -> ExitState]
    BY <1>1, <1>6 DEF PressLogout, ClearSession, ClearCreds, Mismatch, Leave, NoExit, ExitState, TypeOK
  <2>3. /\ creds' \in Wallet \cup Foreign \cup {None} /\ page' \in Pages /\ asking' \subseteq Foreign
        /\ jwt' \in [org : Kept, key : AnyKey]
    BY <1>1, <1>6, BrowserSessionAssumption
      DEF PressLogout, ClearSession, ClearCreds, Mismatch, NoJwt, Kept, AnyKey, TypeOK, Pages, store, session
  <2>4. TypeOK'
    BY <1>1, <2>1, <2>2, <2>3 DEF TypeOK, ExitState, Kept, turnkey
  <2> QED
    BY <2>1, <2>4, KeysAlone DEF turnkey, EntryHolds
<1>7. ASSUME NEW w \in Foreign, RefetchFails(w)
      PROVE  SessionInvariant'
  <2>1. TypeOK'
    BY <1>1, <1>7 DEF RefetchFails, TypeOK, store, session, turnkey
  <2> QED
    BY <1>7, <2>1, KeysAlone DEF RefetchFails, session, turnkey, EntryHolds
<1>8. ASSUME NEW k \in Key, Expire(k)
      PROVE  SessionInvariant'
  <2>1. /\ UNCHANGED <<store, session, owner, created, entry, send, exit, asking>>
        /\ UNCHANGED <<key, minted>> /\ expired \subseteq expired' /\ expired' \subseteq Key
    BY <1>1, <1>8 DEF Expire, session, TypeOK
  <2>2. TypeOK'
    BY <1>1, <2>1 DEF TypeOK, store, session
  <2>3. minted <= minted
    BY <1>1
  <2>4. \A t \in Sender : SendSafe(t)'
    BY <1>1, <2>1, <2>3, SteadySend DEF SessionInvariant
  <2>5. KeysSafe'
    BY <2>1 DEF SessionInvariant, KeysSafe, EntryHolds, Unused, At
  <2> QED
    BY <2>2, <2>4, <2>5 DEF SessionInvariant
<1>9. CASE UNCHANGED vars
  <2>1. TypeOK'
    BY <1>1, <1>9 DEF TypeOK, vars
  <2> QED
    BY <1>9, <2>1, KeysAlone DEF vars, EntryHolds
<1> QED
  BY <1>2, <1>3, <1>4, <1>5, <1>6, <1>7, <1>8, <1>9,
     EntryMintsKeeps, ClearKeyKeeps, MintKeeps, LoginKeeps, SendKeeps
  DEF Next

-----------------------------------------------------------------------------
\* The inductive invariant: a keypair that is to be registered is unused and belongs
\* to one flow, and each send may rely on what its await tells it.
THEOREM SessionHolds == Spec => []SessionInvariant
  BY InitHolds, StepKeeps, PTL DEF Spec

\* Type correctness of the browser's credentials, sessions and keypairs.
THEOREM SessionTypeOK == Spec => []TypeOK
<1>1. SessionInvariant => TypeOK
  BY DEF SessionInvariant
<1> QED
  BY <1>1, SessionHolds, PTL

\* ensureSession (turnkey.ts 99-157) settles only for a keypair that the wallet's
\* sub-organization has registered, whatever sign-ups, logins, logouts and other sends
\* do between its awaits.
THEOREM EnsuredIsKnown == Spec => []EnsuredKeyKnown
<1>1. SessionInvariant => EnsuredKeyKnown
  BY DEF SessionInvariant, SendSafe, EnsuredKeyKnown
<1> QED
  BY <1>1, SessionHolds, PTL

\* A send refused for its session keypair was disturbed by another flow, or its
\* registration ran out: there is no third way (turnkey.ts 242-374).
THEOREM RefusalsAreExplained == Spec => []RefusalsExplained
<1>1. SessionInvariant => RefusalsExplained
  BY DEF SessionInvariant, SendSafe, RefusalsExplained, At
<1> QED
  BY <1>1, SessionHolds, PTL

-----------------------------------------------------------------------------
(* Registrations, and the stored session                                      *)

\* Turnkey is only ever given a keypair it has not seen, at the three places that
\* register one.
LEMMA RegistersUnused ==
  ASSUME SessionInvariant, Next
  PROVE  \/ owner' = owner /\ jwt' \in {jwt, NoJwt}
         \/ \E k \in Key, w \in Wallet :
                /\ Unused(k) /\ Register(k, w)
                /\ jwt' \in {jwt, [org |-> w, key |-> k]}
<1> USE DEF SessionInvariant
<1>1. \A k : Unused(k) => k \in Key
  BY BrowserSessionAssumption DEF Unused, TypeOK, Key
<1>2. CASE Provision
  <2>1. PICK w \in Wallet : Register(entry.key, w)
    BY <1>2 DEF Provision
  <2>2. Unused(entry.key) /\ jwt' = jwt
    BY <1>2 DEF Provision, KeysSafe, EntryHolds, session
  <2> QED
    BY <1>1, <2>1, <2>2
<1>3. CASE LoginTap
  <2>1. PICK w \in Wallet : Register(entry.key, w) /\ jwt' = [org |-> w, key |-> entry.key]
    BY <1>3 DEF LoginTap, TypeOK
  <2>2. Unused(entry.key)
    BY <1>3 DEF LoginTap, KeysSafe, EntryHolds
  <2> QED
    BY <1>1, <2>1, <2>2
<1>4. ASSUME NEW s \in Sender, Login(s)
      PROVE  \E k \in Key, w \in Wallet :
                Unused(k) /\ Register(k, w) /\ jwt' = [org |-> w, key |-> k]
  <2>1. Unused(send[s].key) /\ send[s].wallet \in Wallet
    BY <1>4 DEF Login, At, SendSafe
  <2> QED
    BY <1>1, <1>4, <2>1 DEF Login
<1>5. ASSUME NEW s \in Sender,
             \/ PressSend(s) \/ CheckSession(s) \/ WhoAmI(s) \/ Mint(s)
             \/ Load(s) \/ Submit(s) \/ Poll(s) \/ SendEnds(s)
      PROVE  owner' = owner /\ jwt' = jwt
  BY <1>5 DEF PressSend, CheckSession, WhoAmI, Mint, Load, Submit, Poll, SendEnds, session, turnkey
<1>6. ASSUME NEW x \in Exit,
             \/ PressLogout(x) \/ ClearSession(x) \/ ClearKey(x) \/ ClearCreds(x)
             \/ \E w \in Foreign : Mismatch(x, w)
      PROVE  owner' = owner /\ jwt' \in {jwt, NoJwt}
  BY <1>6 DEF PressLogout, ClearSession, ClearKey, ClearCreds, Mismatch, session, turnkey
<1>7. ASSUME \/ SignUpMounts \/ WalletMounts \/ \E button \in {"create", "logIn"} : Press(button)
             \/ EntryFails \/ EntryMints \/ ReadSession \/ SaveCreds
             \/ \E w \in Foreign : RefetchFails(w)
             \/ \E k \in Key : Expire(k)
      PROVE  owner' = owner /\ jwt' = jwt
  BY <1>7 DEF SignUpMounts, WalletMounts, Press, EntryFails, EntryMints, ReadSession, SaveCreds,
              RefetchFails, Expire, session, turnkey
<1> QED
  BY <1>2, <1>3, <1>4, <1>5, <1>6, <1>7 DEF Next

\* The sub-organization a keypair is registered with never changes.
RegisteredOnce == \A k \in Key : owner[k] # None => owner'[k] = owner[k]

LEMMA RegisteringKeeps ==
  ASSUME SessionInvariant, Next
  PROVE  RegisteredOnce
<1>1. CASE owner' = owner
  BY <1>1 DEF RegisteredOnce
<1>2. ASSUME NEW k \in Key, NEW w \in Wallet, Unused(k), Register(k, w)
      PROVE  RegisteredOnce
  BY <1>2 DEF RegisteredOnce, Register, Unused, SessionInvariant, TypeOK
<1> QED
  BY <1>1, <1>2, RegistersUnused

\* No flow registers a keypair a second time, so none is ever taken over by another
\* wallet: not by a second send, nor by a sign-up or login beside it (turnkey.ts
\* 99-157, resetKeyPair before each registration).
THEOREM KeyHasOneWallet == Spec => [][RegisteredOnce]_vars
<1>1. SessionInvariant /\ [Next]_vars => [RegisteredOnce]_vars
  BY RegisteringKeeps
<1> QED
  BY <1>1, SessionHolds, PTL DEF Spec

\* The stored session names the sub-organization its keypair is registered with.
StoredSessionIsTrue == jwt.key # NoKey => jwt.org \in Wallet /\ owner[jwt.key] = jwt.org

LEMMA StoringKeeps ==
  ASSUME SessionInvariant, StoredSessionIsTrue, [Next]_vars
  PROVE  StoredSessionIsTrue'
<1> USE DEF StoredSessionIsTrue
<1>1. jwt \in [org : Wallet \cup {None}, key : AnyKey] /\ owner \in [Key -> Wallet \cup {None}]
  BY DEF SessionInvariant, TypeOK
<1>2. jwt.key # NoKey => jwt.key \in Key /\ jwt.org # None
  BY <1>1, BrowserSessionAssumption DEF AnyKey
<1>3. CASE UNCHANGED vars
  BY <1>3 DEF vars
<1>4. CASE owner' = owner /\ jwt' \in {jwt, NoJwt}
  BY <1>4 DEF NoJwt
<1>5. ASSUME NEW k \in Key, NEW w \in Wallet, Unused(k), Register(k, w),
             jwt' \in {jwt, [org |-> w, key |-> k]}
      PROVE  StoredSessionIsTrue'
  <2>1. owner'[k] = w /\ \A j \in Key \ {k} : owner'[j] = owner[j]
    BY <1>1, <1>5 DEF Register
  <2>2. jwt.key # NoKey => jwt.key # k
    BY <1>2, <1>5 DEF Unused
  <2> QED
    BY <1>2, <1>5, <2>1, <2>2
<1> QED
  BY <1>3, <1>4, <1>5, RegistersUnused

\* A stored session is believed for its own word: getSession() gives the organization,
\* the keypair and the expiry in the JWT, and nothing asks Turnkey (turnkey.ts 99-123).
\* That is sound, however flows overwrite the session: until it runs out, Turnkey does
\* accept its keypair for the organization it names.
THEOREM StoredSessionHolds == Spec => [](StoredSessionIsTrue)
<1>1. Init => StoredSessionIsTrue
  BY DEF Init, NoJwt, StoredSessionIsTrue
<1> QED
  BY <1>1, StoringKeeps, SessionHolds, PTL DEF Spec
=============================================================================
