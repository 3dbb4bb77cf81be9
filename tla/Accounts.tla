------------------------------ MODULE Accounts ------------------------------
(***************************************************************************)
(* How a wallet comes to exist and who can open it: POST /users (Users.kt) *)
(* with the Turnkey provisioning it drives (Turnkey.kt) and the first SDK  *)
(* connect (Sdk.kt), POST /login (routes/Login.kt), bearer authentication  *)
(* (Auth.kt) and the signer check of every later connect.                  *)
(*                                                                         *)
(* A sign-up mints everything about its user (the ULID, the API key, the   *)
(* passkey, the sub-organization), so the sign-up itself stands for all of *)
(* them, and a login for the key it mints.  Steps fail, answers get lost,  *)
(* Turnkey finishes activities nobody waits for any more, and the process  *)
(* restarts, possibly with the other SIGNER.                               *)
(*                                                                         *)
(* An operator named ...Fault is a plausible bug in the definition that    *)
(* follows it; no action uses it.                                          *)
(***************************************************************************)
EXTENDS Naturals, Sequences, Functions

CONSTANTS
    SignUp,        \* sign-up requests, and what each of them mints
    Login,         \* login requests, and the key each of them mints
    Device,        \* browsers
    NoRow,
    NoCreds,
    NoRequest

ASSUME DistinctAssumption == SignUp \cap Login = {} /\ NoRequest \notin SignUp \cup Login

VARIABLES
    mode,          \* SIGNER of the running deployment
    req,           \* per sign-up request: where it is, and what it has learnt
    login,         \* per login request: where it is, and for which wallet
    activity,      \* Turnkey: the latest activity submitted for a sign-up
    org,           \* Turnkey: the sub-organization of a sign-up
    wallet,        \* SDK side: private mode and webhook of a sign-up's wallet
    row,           \* the users table
    device,        \* per browser: stored credentials, request it waits for
    opened         \* history: the backends whose keys a wallet was opened with

vars == <<mode, req, login, activity, org, wallet, row, device, opened>>

Mode == {"seed", "turnkey"}
Step == {"create", "allow", "export", "quorum"}
Ended == {"200", "400", "401", "404", "409", "500", "502", "cut"}
Busy == Step \cup {"signer", "connect", "webhook", "insert", "created"}

\* The order of accounts and of root users in CREATE_SUB_ORGANIZATION; the ids in
\* the result follow it.
Accounts == <<"identity", "spark", "encryption">>
RootUsers == <<"owner", "delegated">>

\* DELEGATED_UNCONDITIONAL_ALLOWLIST, and the two activities it leaves out.
Allowlist == {"sign_frost", "claim", "lightning_receive", "sign_raw", "create_accounts"}
Activity == Allowlist \cup {"prepare_transfer", "export_account"}

Policy == [user : Range(RootUsers), act : Activity, account : Range(Accounts) \cup {"any"}]

\* A row of the users table, and what a browser stores.
Row == [key : SignUp \cup Login, signer : Mode, spark : {"none"} \cup Range(Accounts)]
Creds == [user : SignUp, key : SignUp \cup Login]

ASSUME NullAssumption == NoRow \notin Row /\ NoCreds \notin Creds

NoOrg == [exists |-> FALSE, roots |-> {}, policies |-> {}]
NoActivity == [step |-> "none", status |-> "none", policies |-> {}, roots |-> {}]
NoSub == [spark |-> "none", encryption |-> "none", owner |-> "none", delegated |-> "none"]
NewReq == [pc |-> "idle", sub |-> NoSub]

TypeOK ==
    /\ mode \in Mode
    /\ \A a \in SignUp : req[a].pc \in {"idle"} \cup Busy \cup Ended
    /\ \A l \in Login : /\ login[l].pc \in {"idle", "posted", "verified", "rotated"} \cup Ended
                        /\ login[l].pc # "idle" => login[l].user \in SignUp
    /\ \A a \in SignUp :
            /\ activity[a].step \in {"none"} \cup Step
            /\ activity[a].status \in {"none", "pending", "completed", "failed"}
            /\ org[a].policies \subseteq Policy
            /\ org[a].roots \subseteq Range(RootUsers)
            /\ row[a] \in {NoRow} \cup Row
            /\ opened[a] \subseteq Mode
    /\ wallet \in [SignUp -> [private : BOOLEAN, webhook : BOOLEAN]]
    /\ device \in [Device -> [creds : {NoCreds} \cup Creds,
                              waits : {NoRequest} \cup SignUp \cup Login]]

Init ==
    /\ mode \in Mode
    /\ req = [a \in SignUp |-> NewReq]
    /\ login = [l \in Login |-> [pc |-> "idle"]]
    /\ activity = [a \in SignUp |-> NoActivity]
    /\ org = [a \in SignUp |-> NoOrg]
    /\ wallet = [a \in SignUp |-> [private |-> FALSE, webhook |-> FALSE]]
    /\ row = [a \in SignUp |-> NoRow]
    /\ device = [d \in Device |-> [creds |-> NoCreds, waits |-> NoRequest]]
    /\ opened = [a \in SignUp |-> {}]

Goto(a, pc) == req' = [req EXCEPT ![a].pc = pc]

-----------------------------------------------------------------------------
(* POST /users: the request and the Turnkey activities it waits for *)

\* A browser signs up, with a passkey if its build is for turnkey.  A turnkey
\* deployment insists on one (400); a seed deployment has nothing to provision.
SignUpBegins(d, a, passkey) ==
    /\ device[d].waits = NoRequest /\ req[a] = NewReq
    /\ device' = [device EXCEPT ![d].waits = a]
    /\ Goto(a, CASE mode = "seed" -> "connect"
                 [] mode = "turnkey" /\ passkey -> "create"
                 [] OTHER -> "400")
    /\ UNCHANGED <<mode, login, activity, org, wallet, row, opened>>

\* What the activity of the current step asks for.
Grants(a) ==
    LET sub == req[a].sub IN
    CASE req[a].pc = "allow" ->
            {[user |-> sub.delegated, act |-> act, account |-> "any"] : act \in Allowlist}
      [] req[a].pc = "export" ->
            {[user |-> sub.delegated, act |-> "export_account", account |-> sub.encryption]}
      [] OTHER -> {}

\* submit: the POST is accepted, and the activity is Turnkey's to finish.
Submit(a) ==
    /\ req[a].pc \in Step
    /\ activity[a].step # req[a].pc
    /\ activity' = [activity EXCEPT ![a] =
            [step |-> req[a].pc, status |-> "pending", policies |-> Grants(a),
             roots |-> CASE req[a].pc = "create" -> Range(RootUsers)
                         [] req[a].pc = "quorum" -> {req[a].sub.owner}
                         [] OTHER -> {}]]
    /\ UNCHANGED <<mode, req, login, org, wallet, row, device, opened>>

\* Turnkey: everything after the creation is stamped by the delegated key, which
\* has to be a root user to create policies and to change the quorum.
Authorized(a) == activity[a].step = "create" \/ "delegated" \in org[a].roots

\* Turnkey finishes a pending activity, whether or not anybody still waits.
ActivityRuns(a) ==
    /\ activity[a].status = "pending"
    /\ Authorized(a)
    /\ activity' = [activity EXCEPT ![a].status = "completed"]
    /\ org' = [org EXCEPT ![a] =
            [exists |-> TRUE,
             roots |-> IF activity[a].roots = {} THEN @.roots ELSE activity[a].roots,
             policies |-> @.policies \cup activity[a].policies]]
    /\ UNCHANGED <<mode, req, login, wallet, row, device, opened>>

ActivityFails(a) ==
    /\ activity[a].status = "pending"
    /\ activity' = [activity EXCEPT ![a].status = "failed"]
    /\ UNCHANGED <<mode, req, login, org, wallet, row, device, opened>>

\* What provision reads from the result of create_sub_organization, by position.
Created ==
    [spark |-> Accounts[2], encryption |-> Accounts[3],
     owner |-> RootUsers[1], delegated |-> RootUsers[2]]

\* Fault: the quorum keeps the delegated user.
NextStepFault(step) ==
    CASE step = "create" -> "allow"
      [] step = "allow"  -> "export"
      [] OTHER -> "signer"

\* The steps of provision, and then provisionSigner.
NextStep(step) ==
    CASE step = "create" -> "allow"
      [] step = "allow"  -> "export"
      [] step = "export" -> "quorum"
      [] step = "quorum" -> "signer"

\* awaitCompletion saw COMPLETED.
StepDone(a) ==
    /\ req[a].pc \in Step
    /\ activity[a].step = req[a].pc /\ activity[a].status = "completed"
    /\ req' = [req EXCEPT ![a] = [pc |-> NextStep(@.pc),
                                  sub |-> IF @.pc = "create" THEN Created ELSE @.sub]]
    /\ UNCHANGED <<mode, login, activity, org, wallet, row, device, opened>>

\* It saw any other final status.
StepRefused(a) ==
    /\ req[a].pc \in Step
    /\ activity[a].step = req[a].pc /\ activity[a].status = "failed"
    /\ Goto(a, "502")
    /\ UNCHANGED <<mode, login, activity, org, wallet, row, device, opened>>

\* Fault: no deadline on the polling.
GiveUpFault(a) == FALSE

\* Still pending after 60 s.  The activity is not cancelled.
GiveUp(a) ==
    /\ req[a].pc \in Step
    /\ activity[a].step = req[a].pc /\ activity[a].status = "pending"
    /\ Goto(a, "502")
    /\ UNCHANGED <<mode, login, activity, org, wallet, row, device, opened>>

-----------------------------------------------------------------------------
(* POST /users: the SDK and the row *)

\* Turnkey: root users may do anything, others what a policy grants them.
Permitted(a, user, act, account) ==
    \/ user \in org[a].roots
    \/ \E p \in org[a].policies :
            p.user = user /\ p.act = act /\ p.account \in {"any", account}

\* The SDK's signer works under the delegated key: it creates the accounts, exports
\* the encryption key and signs.
SignerWorks(a) ==
    /\ Permitted(a, "delegated", "create_accounts", "any")
    /\ Permitted(a, "delegated", "export_account", "encryption")
    /\ Permitted(a, "delegated", "sign_frost", "any")

\* provisionSigner: the identity key of the new wallet.
ProvisionSigner(a) ==
    /\ req[a].pc = "signer"
    /\ SignerWorks(a)
    /\ Goto(a, "connect")
    /\ UNCHANGED <<mode, login, activity, org, wallet, row, device, opened>>

\* withProvisionalUser connects with the deployment's keys; private mode first.
SetPrivate(a) ==
    /\ req[a].pc = "connect"
    /\ mode = "turnkey" => SignerWorks(a)
    /\ wallet' = [wallet EXCEPT ![a].private = TRUE]
    /\ opened' = [opened EXCEPT ![a] = @ \cup {mode}]
    /\ Goto(a, "webhook")
    /\ UNCHANGED <<mode, login, activity, org, row, device>>

\* registerWebhook: it may throw after the provider has registered it.
RegisterWebhook(a) ==
    /\ req[a].pc = "webhook"
    /\ wallet' = [wallet EXCEPT ![a].webhook = TRUE]
    /\ Goto(a, "insert") \/ Goto(a, "502")
    /\ UNCHANGED <<mode, login, activity, org, row, device, opened>>

\* Fault: a webhook that could not be registered is left for later.
CallFailsFault(a) ==
    /\ req[a].pc \in Step \cup {"signer", "connect", "webhook"}
    /\ Goto(a, IF req[a].pc = "webhook" THEN "insert" ELSE "502")
    /\ UNCHANGED <<mode, login, activity, org, wallet, row, device, opened>>

\* A call to Turnkey or to the SDK throws.
CallFails(a) ==
    /\ req[a].pc \in Step \cup {"signer", "connect", "webhook"}
    /\ Goto(a, "502")
    /\ UNCHANGED <<mode, login, activity, org, wallet, row, device, opened>>

\* Fault: two parameters of the INSERT swapped.
InsertedFault(a) == [row EXCEPT ![a] = [key |-> req[a].sub.spark, signer |-> mode, spark |-> a]]

Inserted(a) == [row EXCEPT ![a] = [key |-> a, signer |-> mode, spark |-> req[a].sub.spark]]

Insert(a) ==
    /\ req[a].pc = "insert"
    /\ row' = Inserted(a)
    /\ Goto(a, "created")
    /\ UNCHANGED <<mode, login, activity, org, wallet, device, opened>>

\* The INSERT throws, perhaps only because its acknowledgement was lost; nothing
\* catches it before StatusPages does.
InsertFails(a) ==
    /\ req[a].pc = "insert"
    /\ row' \in {row, Inserted(a)}
    /\ Goto(a, "500")
    /\ UNCHANGED <<mode, login, activity, org, wallet, device, opened>>

AnswerSignUp(a) ==
    /\ req[a].pc = "created"
    /\ Goto(a, "200")
    /\ UNCHANGED <<mode, login, activity, org, wallet, row, device, opened>>

-----------------------------------------------------------------------------
(* POST /login *)

\* A browser logs in to the sub-organization of one of its passkeys (they sync) and
\* posts the session JWT.
LoginBegins(d, l, a) ==
    /\ device[d].waits = NoRequest /\ login[l].pc = "idle"
    /\ org[a].exists
    /\ device' = [device EXCEPT ![d].waits = l]
    /\ login' = [login EXCEPT ![l] = [pc |-> IF mode = "turnkey" THEN "posted" ELSE "409",
                                      user |-> a]]
    /\ UNCHANGED <<mode, req, activity, org, wallet, row, opened>>

\* The JWT is good, or it is invalid or expired.
Verify(l) ==
    /\ login[l].pc = "posted"
    /\ \E pc \in {"verified", "401"} : login' = [login EXCEPT ![l].pc = pc]
    /\ UNCHANGED <<mode, req, activity, org, wallet, row, device, opened>>

\* UPDATE ... RETURNING: the new key replaces the old one if the wallet has a row.
\* The statement may throw whether or not it took effect.
Rotate(l) ==
    LET a == login[l].user
        found == row[a] # NoRow
        rotated == IF found THEN [row EXCEPT ![a].key = l] ELSE row
    IN
    /\ login[l].pc = "verified"
    /\ \/ row' = rotated /\ login' = [login EXCEPT ![l].pc = IF found THEN "rotated" ELSE "404"]
       \/ row' \in {row, rotated} /\ login' = [login EXCEPT ![l].pc = "500"]
    /\ UNCHANGED <<mode, req, activity, org, wallet, device, opened>>

AnswerLogin(l) ==
    /\ login[l].pc = "rotated"
    /\ login' = [login EXCEPT ![l].pc = "200"]
    /\ UNCHANGED <<mode, req, activity, org, wallet, row, device, opened>>

-----------------------------------------------------------------------------
(* The browser, and every other request *)

SetWaits(d, r) == device' = [device EXCEPT ![d].waits = r]

\* Fault: the credentials are stored when the request is made.
SavesCredsFault(a) == req[a].pc \in {"insert", "created"} \cup Ended

\* Whether the sign-up has an answer with credentials for the browser.
SavesCreds(a) == req[a].pc = "200"

SignUpReturns(d, a) ==
    /\ device[d].waits = a
    /\ SavesCreds(a)
    /\ device' = [device EXCEPT ![d] = [creds |-> [user |-> a, key |-> a], waits |-> NoRequest]]
    /\ UNCHANGED <<mode, req, login, activity, org, wallet, row, opened>>

LoginReturns(d, l) ==
    /\ device[d].waits = l
    /\ login[l].pc = "200"
    /\ device' = [device EXCEPT ![d] =
            [creds |-> [user |-> login[l].user, key |-> l], waits |-> NoRequest]]
    /\ UNCHANGED <<mode, req, login, activity, org, wallet, row, opened>>

\* The answer was an error, got lost, or did not come in 45 s.
RequestIsLost(d) ==
    /\ device[d].waits # NoRequest
    /\ SetWaits(d, NoRequest)
    /\ UNCHANGED <<mode, req, login, activity, org, wallet, row, opened>>

\* requireUser: the stored key is the one in the row of the user it is sent for.
KeyIsGood(d) ==
    /\ device[d].creds # NoCreds
    /\ row[device[d].creds.user] # NoRow
    /\ row[device[d].creds.user].key = device[d].creds.key

\* Fault: the signer of the row is not compared.
ServesFault(a) == TRUE

\* withUserContext: the row's signer is the deployment's.
Serves(a) == row[a].signer = mode

\* A request with good credentials opens the wallet.
Use(d) ==
    /\ KeyIsGood(d)
    /\ Serves(device[d].creds.user)
    /\ opened' = [opened EXCEPT ![device[d].creds.user] = @ \cup {mode}]
    /\ UNCHANGED <<mode, req, login, activity, org, wallet, row, device>>

\* 409 signer_mismatch: the page forgets its credentials.
Mismatch(d) ==
    /\ KeyIsGood(d)
    /\ ~Serves(device[d].creds.user)
    /\ device' = [device EXCEPT ![d].creds = NoCreds]
    /\ UNCHANGED <<mode, req, login, activity, org, wallet, row, opened>>

\* The process restarts, maybe with the other SIGNER; Turnkey goes on.
Restart(m) ==
    /\ mode' = m
    /\ req' = [a \in SignUp |-> IF req[a].pc \in Busy THEN [req[a] EXCEPT !.pc = "cut"] ELSE req[a]]
    /\ login' = [l \in Login |-> IF login[l].pc \in {"posted", "verified", "rotated"}
                                 THEN [login[l] EXCEPT !.pc = "cut"] ELSE login[l]]
    /\ UNCHANGED <<activity, org, wallet, row, device, opened>>

-----------------------------------------------------------------------------
SignUpStep(a) ==
    \/ Submit(a) \/ StepDone(a) \/ StepRefused(a) \/ GiveUp(a)
    \/ ProvisionSigner(a) \/ SetPrivate(a) \/ RegisterWebhook(a) \/ CallFails(a)
    \/ Insert(a) \/ InsertFails(a) \/ AnswerSignUp(a)

LoginStep(l) == Verify(l) \/ Rotate(l) \/ AnswerLogin(l)

DeviceStep(d) ==
    \/ \E a \in SignUp : SignUpReturns(d, a) \/ \E passkey \in BOOLEAN : SignUpBegins(d, a, passkey)
    \/ \E l \in Login : LoginReturns(d, l) \/ \E a \in SignUp : LoginBegins(d, l, a)
    \/ RequestIsLost(d) \/ Use(d) \/ Mismatch(d)

Next ==
    \/ \E a \in SignUp : SignUpStep(a) \/ ActivityRuns(a) \/ ActivityFails(a)
    \/ \E l \in Login : LoginStep(l)
    \/ \E d \in Device : DeviceStep(d)
    \/ \E m \in Mode : Restart(m)

Spec == Init /\ [][Next]_vars

\* The handler's coroutine runs, HTTP requests to Turnkey end within 30 s, and the
\* polling has its deadline.  Turnkey itself need not finish anything, and the SDK's
\* calls need not return.
Fairness ==
    \A a \in SignUp : WF_vars(Submit(a)) /\ WF_vars(StepDone(a)) /\ WF_vars(StepRefused(a))
                      /\ WF_vars(GiveUp(a))

FairSpec == Spec /\ Fairness

-----------------------------------------------------------------------------
\* Nobody is visible half provisioned (comment at Users.kt 51-63): whatever failed,
\* came late or was cut off before, a wallet with a row is in private mode and has
\* its webhook, and with Turnkey its sub-organization is complete, has the passkey
\* as its only root, and has no activity pending that could still change it.
RowsAreProvisioned ==
    \A a \in SignUp : row[a] # NoRow =>
        /\ wallet[a].private /\ wallet[a].webhook
        /\ row[a].signer = "turnkey" =>
                /\ org[a].exists /\ org[a].roots = {"owner"}
                /\ row[a].spark = "spark"
                /\ SignerWorks(a)
                /\ activity[a].status # "pending"

\* The server can receive for a visible wallet and cannot send for it (comments at
\* Turnkey.kt 364-395): the delegated key may not prepare a transfer, nor export any
\* account but the encryption key.
DelegatedIsScoped ==
    \A a \in SignUp : row[a] # NoRow =>
        /\ ~Permitted(a, "delegated", "prepare_transfer", "spark")
        /\ \A account \in {"identity", "spark"} :
                ~Permitted(a, "delegated", "export_account", account)

\* Credentials a browser has stored name a wallet that exists, and their key opens
\* no other wallet, however sign-ups, logins, lost answers and restarts interleave.
CredsNameTheirWallet ==
    \A d \in Device : device[d].creds # NoCreds =>
        /\ row[device[d].creds.user] # NoRow
        /\ \A a \in SignUp : row[a] # NoRow /\ row[a].key = device[d].creds.key
                                => a = device[d].creds.user

\* One backend per wallet (V2__signer.sql, Main.kt 117-118): a deployment whose SIGNER
\* was flipped never opens a wallet that has a row with the other backend's keys.
OneBackend == \A a \in SignUp : row[a] # NoRow => opened[a] = {row[a].signer}

\* Provisioning ends although Turnkey may leave an activity pending for ever.
ProvisioningEnds == \A a \in SignUp : req[a].pc \in Step ~> req[a].pc \notin Step

\* "If any step fails we 502 and never persist the user" (comment at Users.kt 53).
FailedSignUpIs502 ==
    \A a \in SignUp : req[a].pc \in Ended \ {"200", "400", "cut"} => req[a].pc = "502"
=============================================================================
