--------------------------- MODULE AccountsProofs ---------------------------
(***************************************************************************)
(* Proofs about Accounts for any sign-ups, logins and browsers.  All the   *)
(* theorems rest on one inductive invariant.  Its centre is OrgFollows:    *)
(* the sub-organization is a function of the latest activity submitted for *)
(* it and of whether that activity has run, whatever became of the request *)
(* that submitted it.                                                      *)
(***************************************************************************)
EXTENDS Accounts, TLAPS

Roots == {"owner", "delegated"}

Granted(step) ==
    CASE step = "allow"  -> {[user |-> "delegated", act |-> act, account |-> "any"] : act \in Allowlist}
      [] step = "export" -> {[user |-> "delegated", act |-> "export_account", account |-> "encryption"]}
      [] OTHER -> {}

NewRoots(step) ==
    CASE step = "create" -> Roots
      [] step = "quorum" -> {"owner"}
      [] OTHER -> {}

Scope == Granted("allow") \cup Granted("export")

Before(step) ==
    CASE step = "create" -> "none"
      [] step = "allow"  -> "create"
      [] step = "export" -> "allow"
      [] step = "quorum" -> "export"
      [] step = "signer" -> "quorum"

\* The sub-organization once the step's activity has run.
Made(step) ==
    CASE step = "none"   -> NoOrg
      [] step = "create" -> [exists |-> TRUE, roots |-> Roots, policies |-> {}]
      [] step = "allow"  -> [exists |-> TRUE, roots |-> Roots, policies |-> Granted("allow")]
      [] step = "export" -> [exists |-> TRUE, roots |-> Roots, policies |-> Scope]
      [] step = "quorum" -> [exists |-> TRUE, roots |-> {"owner"}, policies |-> Scope]

Connected == {"connect", "webhook", "insert", "created"}

-----------------------------------------------------------------------------
(* The invariant *)

ActivityRec == [step : {"none"} \cup Step, status : {"none", "pending", "completed", "failed"},
                policies : SUBSET Policy, roots : SUBSET Roots]

OrgRec == [exists : BOOLEAN, roots : SUBSET Roots, policies : SUBSET Policy]

ReqRec == [pc : {"idle"} \cup Busy \cup Ended, sub : {NoSub, Created}]

LoginRec == [pc : {"idle"}] \cup [pc : {"posted", "verified", "rotated"} \cup Ended, user : SignUp]

Typed ==
    /\ mode \in Mode
    /\ req \in [SignUp -> ReqRec]
    /\ login \in [Login -> LoginRec]
    /\ activity \in [SignUp -> ActivityRec]
    /\ org \in [SignUp -> OrgRec]
    /\ wallet \in [SignUp -> [private : BOOLEAN, webhook : BOOLEAN]]
    /\ row \in [SignUp -> {NoRow} \cup Row]
    /\ device \in [Device -> [creds : {NoCreds} \cup Creds,
                              waits : {NoRequest} \cup SignUp \cup Login]]
    /\ opened \in [SignUp -> SUBSET Mode]

\* The activity asks for what its step grants, and the sub-organization is what the
\* steps up to the last one that has run made of it.
OrgFollows(a) ==
    /\ activity[a].step = "none" => activity[a].status = "none" /\ org[a] = NoOrg
    /\ activity[a].step \in Step =>
            /\ activity[a].status # "none"
            /\ activity[a].policies = Granted(activity[a].step)
            /\ activity[a].roots = NewRoots(activity[a].step)
            /\ org[a] = IF activity[a].status = "completed" THEN Made(activity[a].step)
                                                            ELSE Made(Before(activity[a].step))

\* All of provisioning is over, or nothing of it was ever begun.
Provisioned(a, m) ==
    IF m = "turnkey" THEN activity[a].step = "quorum" /\ activity[a].status = "completed"
                     ELSE activity[a].step = "none"

\* A request at a provisioning step has the earlier activity behind it or has submitted
\* its own; one that is past provisioning runs under the mode it provisioned for.
ReqFollows(a) ==
    /\ req[a].pc = "idle" => activity[a].step = "none" /\ req[a].sub = NoSub
    /\ req[a].pc \in {"idle", "connect", "signer"} \cup Step => opened[a] = {}
    /\ req[a].pc \in Step \cup {"signer"} =>
            /\ mode = "turnkey"
            /\ \/ activity[a].step = req[a].pc
               \/ /\ activity[a].step = Before(req[a].pc)
                  /\ req[a].pc # "create" => activity[a].status = "completed"
    /\ req[a].pc \in {"allow", "export", "quorum", "signer"} => req[a].sub = Created
    /\ req[a].pc \in Connected =>
            Provisioned(a, mode) /\ (mode = "turnkey" => req[a].sub = Created)
    /\ req[a].pc \in Connected \ {"connect"} => opened[a] = {mode} /\ wallet[a].private
    /\ req[a].pc \in {"insert", "created"} => wallet[a].webhook

\* The key k was minted by a's own sign-up or by a login to a's wallet.
Owner(k, a) == k = a \/ (k \in Login /\ login[k].pc # "idle" /\ login[k].user = a)

RowFollows(a) ==
    /\ row[a] # NoRow =>
            /\ req[a].pc \in {"created", "200", "500", "cut"}
            /\ Owner(row[a].key, a)
            /\ wallet[a].private /\ wallet[a].webhook
            /\ opened[a] = {row[a].signer}
            /\ Provisioned(a, row[a].signer)
            /\ row[a].signer = "turnkey" => row[a].spark = "spark"
    /\ req[a].pc \in {"created", "200"} => row[a] # NoRow

LoginFollows(l) == login[l].pc \in {"rotated", "200"} => row[login[l].user] # NoRow

CredsFollow(d) ==
    device[d].creds # NoCreds =>
        /\ row[device[d].creds.user] # NoRow
        /\ Owner(device[d].creds.key, device[d].creds.user)

Inv ==
    /\ Typed
    /\ \A a \in SignUp : OrgFollows(a) /\ ReqFollows(a) /\ RowFollows(a)
    /\ \A l \in Login : LoginFollows(l)
    /\ \A d \in Device : CredsFollow(d)

-----------------------------------------------------------------------------
(* What the positions in the results and the policies come to *)

LEMMA RootsAre == Range(RootUsers) = Roots
<1>1. DOMAIN RootUsers = 1..2
  BY DEF RootUsers
<1>2. RootUsers[1] = "owner" /\ RootUsers[2] = "delegated"
  BY DEF RootUsers
<1>3. 1..2 = {1, 2}
  OBVIOUS
<1> QED BY <1>1, <1>2, <1>3 DEF Range, Roots

LEMMA AccountsAre == Range(Accounts) = {"identity", "spark", "encryption"}
<1>1. DOMAIN Accounts = 1..3
  BY DEF Accounts
<1>2. Accounts[1] = "identity" /\ Accounts[2] = "spark" /\ Accounts[3] = "encryption"
  BY DEF Accounts
<1>3. 1..3 = {1, 2, 3}
  OBVIOUS
<1> QED BY <1>1, <1>2, <1>3 DEF Range

LEMMA CreatedIs ==
    Created = [spark |-> "spark", encryption |-> "encryption",
               owner |-> "owner", delegated |-> "delegated"]
BY DEF Created, Accounts, RootUsers

LEMMA GrantedIsPolicy == \A step : Granted(step) \subseteq Policy
BY RootsAre, AccountsAre DEF Granted, Policy, Roots, Activity, Allowlist

LEMMA MadeIsOrg == \A step \in {"none"} \cup Step : Made(step) \in OrgRec
<1>1. Scope \subseteq Policy /\ Granted("allow") \subseteq Policy
  BY GrantedIsPolicy DEF Scope
<1> QED BY <1>1 DEF Made, OrgRec, NoOrg, Step, Roots

\* A request asks for what its step grants, because the positions it reads the users
\* and accounts from are those they were created at.
LEMMA AsksForGranted ==
    ASSUME NEW a \in SignUp, req[a].pc \in Step,
           req[a].pc # "create" => req[a].sub = Created
    PROVE  /\ Grants(a) = Granted(req[a].pc)
           /\ req[a].pc = "quorum" => req[a].sub.owner = "owner"
BY CreatedIs DEF Grants, Granted, Step

\* Once the quorum step has run the delegated key can do its work, and only that.
LEMMA ScopeIsEnough ==
    ASSUME NEW a \in SignUp, org[a] = Made("quorum")
    PROVE  SignerWorks(a)
<1>1. /\ org[a].policies = Scope
  BY DEF Made
<1>2. /\ [user |-> "delegated", act |-> "create_accounts", account |-> "any"] \in Scope
      /\ [user |-> "delegated", act |-> "sign_frost", account |-> "any"] \in Scope
      /\ [user |-> "delegated", act |-> "export_account", account |-> "encryption"] \in Scope
  BY DEF Scope, Granted, Allowlist
<1>3. Permitted(a, "delegated", "create_accounts", "any")
  BY <1>1, <1>2 DEF Permitted
<1>4. Permitted(a, "delegated", "sign_frost", "any")
  BY <1>1, <1>2 DEF Permitted
<1>5. Permitted(a, "delegated", "export_account", "encryption")
  BY <1>1, <1>2 DEF Permitted
<1> QED BY <1>3, <1>4, <1>5 DEF SignerWorks

LEMMA ScopeIsNoMore ==
    ASSUME NEW a \in SignUp, org[a] \in {NoOrg, Made("quorum")}
    PROVE  /\ ~Permitted(a, "delegated", "prepare_transfer", "spark")
           /\ \A account \in {"identity", "spark"} :
                    ~Permitted(a, "delegated", "export_account", account)
<1>1. org[a].policies \subseteq Scope /\ "delegated" \notin org[a].roots
  BY DEF Made, NoOrg
<1>2. \A p \in Scope : /\ p.act # "prepare_transfer"
                       /\ p.act = "export_account" => p.account = "encryption"
  BY DEF Scope, Granted, Allowlist
<1> QED BY <1>1, <1>2 DEF Permitted

-----------------------------------------------------------------------------
(* The initial states, and steps that leave every other sign-up alone *)

LEMMA InvInit == Init => Inv
<1> SUFFICES ASSUME Init PROVE Inv
  OBVIOUS
<1> USE DEF Init
<1>1. Typed
  BY DEF Typed, ActivityRec, OrgRec, ReqRec, LoginRec, NewReq, NoActivity, NoOrg, Mode
<1>2. ASSUME NEW a \in SignUp PROVE OrgFollows(a) /\ ReqFollows(a) /\ RowFollows(a)
  BY <1>2 DEF OrgFollows, ReqFollows, RowFollows, NewReq, NoActivity, Step, Connected
<1>3. \A l \in Login : LoginFollows(l)
  BY DEF LoginFollows
<1>4. \A d \in Device : CredsFollow(d)
  BY DEF CredsFollow
<1> QED BY <1>1, <1>2, <1>3, <1>4 DEF Inv

\* A step that concerns the sign-up a only, takes no row away and stores no credentials
\* preserves the invariant if it preserves it for a.
LEMMA Frame ==
    ASSUME Inv, NEW a \in SignUp, UNCHANGED <<mode, login>>,
           \A b \in SignUp \ {a} : /\ req'[b] = req[b] /\ activity'[b] = activity[b]
                                   /\ org'[b] = org[b] /\ wallet'[b] = wallet[b]
                                   /\ row'[b] = row[b] /\ opened'[b] = opened[b],
           row[a] # NoRow => row'[a] # NoRow,
           \A d \in Device : device'[d].creds = device[d].creds,
           Typed', OrgFollows(a)', ReqFollows(a)', RowFollows(a)'
    PROVE  Inv'
<1>1. ASSUME NEW b \in SignUp \ {a} PROVE OrgFollows(b)' /\ ReqFollows(b)' /\ RowFollows(b)'
  <2>1. OrgFollows(b) /\ ReqFollows(b) /\ RowFollows(b)
    BY DEF Inv
  <2>2. OrgFollows(b)'
    BY <2>1 DEF OrgFollows
  <2>3. ReqFollows(b)'
    BY <2>1 DEF ReqFollows, Provisioned
  <2>4. RowFollows(b)'
    BY <2>1 DEF RowFollows, Provisioned, Owner
  <2> QED BY <2>2, <2>3, <2>4
<1>2. \A b \in SignUp : row[b] # NoRow => row'[b] # NoRow
  OBVIOUS
<1>3. ASSUME NEW l \in Login PROVE LoginFollows(l)'
  BY <1>2 DEF Inv, LoginFollows, Typed, LoginRec
<1>4. ASSUME NEW d \in Device PROVE CredsFollow(d)'
  <2>1. device[d].creds # NoCreds => device[d].creds \in Creds
    BY DEF Inv, Typed
  <2> QED BY <1>2, <2>1 DEF Inv, CredsFollow, Owner, Creds
<1> QED BY <1>1, <1>3, <1>4 DEF Inv

-----------------------------------------------------------------------------
(* Turnkey's steps *)

\* Submitting a step's activity leaves the sub-organization where the step before it did.
LEMMA InvSubmit == ASSUME Inv, NEW a \in SignUp, Submit(a) PROVE Inv'
<1> USE DEF Submit
<1>1. Typed /\ OrgFollows(a) /\ ReqFollows(a) /\ RowFollows(a)
  BY DEF Inv
<1>2. /\ activity[a].step = Before(req[a].pc)
      /\ req[a].pc # "create" => activity[a].status = "completed" /\ req[a].sub = Created
      /\ mode = "turnkey"
  BY <1>1 DEF ReqFollows, Step
<1>3. Grants(a) = Granted(req[a].pc) /\ (req[a].pc = "quorum" => req[a].sub.owner = "owner")
  BY <1>2, AsksForGranted
<1>4. activity'[a] = [step |-> req[a].pc, status |-> "pending", policies |-> Granted(req[a].pc),
                      roots |-> NewRoots(req[a].pc)]
  <2>1. activity'[a] = [step |-> req[a].pc, status |-> "pending", policies |-> Grants(a),
                        roots |-> CASE req[a].pc = "create" -> Range(RootUsers)
                                    [] req[a].pc = "quorum" -> {req[a].sub.owner}
                                    [] OTHER -> {}]
    BY <1>1 DEF Typed
  <2> QED BY <2>1, <1>3, RootsAre DEF NewRoots
<1>5. Typed'
  <2>1. activity'[a] \in ActivityRec
    BY <1>4, GrantedIsPolicy DEF NewRoots, Roots, ActivityRec
  <2>2. activity' = [activity EXCEPT ![a] = activity'[a]]
    BY <1>1 DEF Typed
  <2> QED BY <1>1, <2>1, <2>2 DEF Typed
<1>6. OrgFollows(a)'
  <2>1. org[a] = Made(Before(req[a].pc))
    BY <1>1, <1>2 DEF OrgFollows, Step, Before, Made
  <2> QED BY <1>4, <2>1 DEF OrgFollows, Step
<1>7. ReqFollows(a)'
  BY <1>1, <1>2, <1>4 DEF ReqFollows, Step, Connected
<1>8. RowFollows(a)'
  BY <1>1 DEF RowFollows, Step
<1>9. \A b \in SignUp \ {a} : activity'[b] = activity[b]
  BY <1>1 DEF Typed
<1> QED BY <1>5, <1>6, <1>7, <1>8, <1>9, Frame

\* An activity that runs, late or not, takes the sub-organization one step on.
LEMMA InvActivityRuns == ASSUME Inv, NEW a \in SignUp, ActivityRuns(a) PROVE Inv'
<1> USE DEF ActivityRuns
<1>1. Typed /\ OrgFollows(a) /\ ReqFollows(a) /\ RowFollows(a)
  BY DEF Inv
<1>2. activity[a].step \in Step
  BY <1>1 DEF Typed, ActivityRec, OrgFollows
<1>3. activity'[a] = [activity[a] EXCEPT !.status = "completed"]
  BY <1>1 DEF Typed
<1>4. org'[a] = Made(activity[a].step)
  <2>1. org[a] = Made(Before(activity[a].step))
    BY <1>1, <1>2 DEF OrgFollows
  <2>2. org'[a] = [exists |-> TRUE,
                   roots |-> IF activity[a].roots = {} THEN org[a].roots ELSE activity[a].roots,
                   policies |-> org[a].policies \cup activity[a].policies]
    BY <1>1 DEF Typed
  <2>3. /\ activity[a].policies = Granted(activity[a].step)
        /\ activity[a].roots = NewRoots(activity[a].step)
    BY <1>1, <1>2 DEF OrgFollows
  <2>4. CASE activity[a].step = "create"
    <3>1. org[a] = NoOrg
      BY <2>1, <2>4 DEF Made, Before
    <3>2. activity[a].roots = Roots /\ activity[a].policies = {} /\ Roots # {}
      BY <2>3, <2>4 DEF NewRoots, Granted, Roots
    <3>3. org[a].policies \cup activity[a].policies = {}
      BY <3>1, <3>2 DEF NoOrg
    <3> QED BY <2>2, <2>4, <3>2, <3>3 DEF Made
  <2>5. CASE activity[a].step = "allow"
    <3>1. org[a] = [exists |-> TRUE, roots |-> Roots, policies |-> {}]
      BY <2>1, <2>5 DEF Made, Before
    <3>2. activity[a].roots = {} /\ activity[a].policies = Granted("allow")
      BY <2>3, <2>5 DEF NewRoots
    <3> QED BY <2>2, <2>5, <3>1, <3>2 DEF Made
  <2>6. CASE activity[a].step = "export"
    <3>1. org[a] = [exists |-> TRUE, roots |-> Roots, policies |-> Granted("allow")]
      BY <2>1, <2>6 DEF Made, Before
    <3>2. activity[a].roots = {} /\ activity[a].policies = Granted("export")
      BY <2>3, <2>6 DEF NewRoots
    <3> QED BY <2>2, <2>6, <3>1, <3>2 DEF Made, Scope
  <2>7. CASE activity[a].step = "quorum"
    <3>1. org[a] = [exists |-> TRUE, roots |-> Roots, policies |-> Scope]
      BY <2>1, <2>7 DEF Made, Before
    <3>2. activity[a].roots = {"owner"} /\ activity[a].policies = {}
      BY <2>3, <2>7 DEF NewRoots, Granted
    <3>3. org[a].policies \cup activity[a].policies = Scope /\ {"owner"} # {}
      BY <3>1, <3>2
    <3> QED BY <2>2, <2>7, <3>2, <3>3 DEF Made
  <2> QED BY <1>2, <2>4, <2>5, <2>6, <2>7 DEF Step
<1>5. Typed'
  <2>1. activity'[a] \in ActivityRec
    <3>1. activity[a] \in ActivityRec
      BY <1>1 DEF Typed
    <3> QED BY <3>1, <1>3 DEF ActivityRec
  <2>2. org'[a] \in OrgRec
    BY <1>2, <1>4, MadeIsOrg DEF Step
  <2>3. org' = [org EXCEPT ![a] = org'[a]] /\ activity' = [activity EXCEPT ![a] = activity'[a]]
    BY <1>1 DEF Typed
  <2> QED BY <1>1, <2>1, <2>2, <2>3 DEF Typed
<1>6. OrgFollows(a)'
  BY <1>1, <1>2, <1>3, <1>4 DEF OrgFollows, Typed, ActivityRec, Step
<1>7. ReqFollows(a)'
  BY <1>1, <1>3 DEF ReqFollows, Typed, ActivityRec, Provisioned
<1>8. RowFollows(a)'
  BY <1>1, <1>3 DEF RowFollows, Typed, ActivityRec, Provisioned, Owner
<1>9. \A b \in SignUp \ {a} : activity'[b] = activity[b] /\ org'[b] = org[b]
  BY <1>1 DEF Typed
<1> QED BY <1>5, <1>6, <1>7, <1>8, <1>9, Frame

LEMMA InvActivityFails == ASSUME Inv, NEW a \in SignUp, ActivityFails(a) PROVE Inv'
<1> USE DEF ActivityFails
<1>1. Typed /\ OrgFollows(a) /\ ReqFollows(a) /\ RowFollows(a)
  BY DEF Inv
<1>2. activity'[a] = [activity[a] EXCEPT !.status = "failed"]
  BY <1>1 DEF Typed
<1>3. Typed'
  <2>1. activity'[a] \in ActivityRec
    <3>1. activity[a] \in ActivityRec
      BY <1>1 DEF Typed
    <3> QED BY <3>1, <1>2 DEF ActivityRec
  <2>2. activity' = [activity EXCEPT ![a] = activity'[a]]
    BY <1>1 DEF Typed
  <2> QED BY <1>1, <2>1, <2>2 DEF Typed
<1>4. OrgFollows(a)'
  BY <1>1, <1>2 DEF OrgFollows, Typed, ActivityRec
<1>5. ReqFollows(a)' /\ RowFollows(a)'
  BY <1>1, <1>2 DEF ReqFollows, RowFollows, Typed, ActivityRec, Provisioned, Owner
<1>6. \A b \in SignUp \ {a} : activity'[b] = activity[b]
  BY <1>1 DEF Typed
<1> QED BY <1>3, <1>4, <1>5, <1>6, Frame

-----------------------------------------------------------------------------
(* The request's steps *)

LEMMA Going ==
    ASSUME Typed, NEW a \in SignUp, NEW r \in ReqRec, req' = [req EXCEPT ![a] = r]
    PROVE  req' \in [SignUp -> ReqRec] /\ req'[a] = r /\ \A b \in SignUp \ {a} : req'[b] = req[b]
BY DEF Typed

LEMMA GotoIs ==
    ASSUME Typed, NEW a \in SignUp, NEW pc \in Busy \cup Ended, Goto(a, pc)
    PROVE  /\ req' \in [SignUp -> ReqRec]
           /\ req'[a] = [pc |-> pc, sub |-> req[a].sub]
           /\ \A b \in SignUp \ {a} : req'[b] = req[b]
<1> DEFINE r == [pc |-> pc, sub |-> req[a].sub]
<1>1. req[a] \in ReqRec
  BY DEF Typed
<1>2. r \in ReqRec
  BY <1>1 DEF ReqRec
<1>3. [req[a] EXCEPT !.pc = pc] = r
  BY <1>1 DEF ReqRec
<1>4. req' = [req EXCEPT ![a] = r]
  BY <1>3 DEF Goto
<1> QED BY <1>2, <1>4, Going

\* A request that has not reached its INSERT may end with an error at any point.
LEMMA InvAborts ==
    ASSUME Inv, NEW a \in SignUp, req[a].pc \in Step \cup {"signer", "connect", "webhook"},
           Goto(a, "502"), UNCHANGED <<mode, login, activity, org, row, device, opened>>,
           wallet' \in [SignUp -> [private : BOOLEAN, webhook : BOOLEAN]],
           \A b \in SignUp \ {a} : wallet'[b] = wallet[b]
    PROVE  Inv'
<1>1. Typed /\ OrgFollows(a) /\ ReqFollows(a) /\ RowFollows(a)
  BY DEF Inv
<1>2. /\ req' \in [SignUp -> ReqRec]
      /\ req'[a] = [pc |-> "502", sub |-> req[a].sub]
      /\ \A b \in SignUp \ {a} : req'[b] = req[b]
  BY <1>1, GotoIs DEF Ended
<1>3. Typed'
  BY <1>1, <1>2 DEF Typed
<1>4. OrgFollows(a)'
  BY <1>1 DEF OrgFollows
<1>5. ReqFollows(a)'
  BY <1>2 DEF ReqFollows, Step, Connected
<1>6. RowFollows(a)'
  BY <1>1, <1>2 DEF RowFollows, Step
<1> QED BY <1>2, <1>3, <1>4, <1>5, <1>6, Frame

LEMMA InvStepDone == ASSUME Inv, NEW a \in SignUp, StepDone(a) PROVE Inv'
<1> DEFINE r == [pc |-> NextStep(req[a].pc),
                 sub |-> IF req[a].pc = "create" THEN Created ELSE req[a].sub]
<1> USE DEF StepDone
<1>1. Typed /\ OrgFollows(a) /\ ReqFollows(a) /\ RowFollows(a)
  BY DEF Inv
<1>2. /\ Before(NextStep(req[a].pc)) = req[a].pc
      /\ NextStep(req[a].pc) \in {"allow", "export", "quorum", "signer"}
  BY DEF Before, NextStep, Step
<1>3. r \in ReqRec /\ r.sub = Created
  <2>1. req[a] \in ReqRec
    BY <1>1 DEF Typed
  <2>2. req[a].pc # "create" => req[a].sub = Created
    BY <1>1 DEF ReqFollows, Step
  <2> QED BY <1>2, <2>1, <2>2 DEF ReqRec, Busy, Step
<1>4. req' \in [SignUp -> ReqRec] /\ req'[a] = r /\ \A b \in SignUp \ {a} : req'[b] = req[b]
  BY <1>1, <1>3, Going
<1>5. Typed'
  BY <1>1, <1>4 DEF Typed
<1>6. OrgFollows(a)'
  BY <1>1 DEF OrgFollows
<1>7. ReqFollows(a)'
  BY <1>1, <1>2, <1>3, <1>4 DEF ReqFollows, Step, Connected
<1>8. RowFollows(a)'
  BY <1>1, <1>2, <1>4 DEF RowFollows, Step
<1> QED BY <1>4, <1>5, <1>6, <1>7, <1>8, Frame

LEMMA InvProvisionSigner == ASSUME Inv, NEW a \in SignUp, ProvisionSigner(a) PROVE Inv'
<1> USE DEF ProvisionSigner
<1>1. Typed /\ OrgFollows(a) /\ ReqFollows(a) /\ RowFollows(a)
  BY DEF Inv
<1>2. /\ req' \in [SignUp -> ReqRec]
      /\ req'[a] = [pc |-> "connect", sub |-> req[a].sub]
      /\ \A b \in SignUp \ {a} : req'[b] = req[b]
  BY <1>1, GotoIs DEF Busy
<1>3. Typed'
  BY <1>1, <1>2 DEF Typed
<1>4. OrgFollows(a)'
  BY <1>1 DEF OrgFollows
<1>5. ReqFollows(a)'
  <2>1. activity[a].step = "quorum" /\ activity[a].status = "completed"
    <3>1. activity[a].step # "signer"
      BY <1>1 DEF Typed, ActivityRec, Step
    <3> QED BY <1>1, <3>1 DEF ReqFollows, Before
  <2> QED BY <1>1, <1>2, <2>1 DEF ReqFollows, Step, Connected, Provisioned
<1>6. RowFollows(a)'
  BY <1>1, <1>2 DEF RowFollows
<1> QED BY <1>2, <1>3, <1>4, <1>5, <1>6, Frame

LEMMA InvSetPrivate == ASSUME Inv, NEW a \in SignUp, SetPrivate(a) PROVE Inv'
<1> USE DEF SetPrivate
<1>1. Typed /\ OrgFollows(a) /\ ReqFollows(a) /\ RowFollows(a)
  BY DEF Inv
<1>2. /\ req' \in [SignUp -> ReqRec]
      /\ req'[a] = [pc |-> "webhook", sub |-> req[a].sub]
      /\ \A b \in SignUp \ {a} : req'[b] = req[b]
  BY <1>1, GotoIs DEF Busy
<1>3. wallet'[a].private /\ opened'[a] = {mode}
  <2>1. opened[a] = {}
    BY <1>1 DEF ReqFollows
  <2> QED BY <1>1, <2>1 DEF Typed
<1>4. Typed'
  <2>1. wallet' \in [SignUp -> [private : BOOLEAN, webhook : BOOLEAN]]
    BY <1>1 DEF Typed
  <2>2. opened' \in [SignUp -> SUBSET Mode]
    BY <1>1 DEF Typed
  <2> QED BY <1>1, <1>2, <2>1, <2>2 DEF Typed
<1>5. OrgFollows(a)'
  BY <1>1 DEF OrgFollows
<1>6. ReqFollows(a)'
  BY <1>1, <1>2, <1>3 DEF ReqFollows, Step, Connected, Provisioned
<1>7. RowFollows(a)'
  BY <1>1, <1>2 DEF RowFollows
<1>8. \A b \in SignUp \ {a} : wallet'[b] = wallet[b] /\ opened'[b] = opened[b]
  BY <1>1 DEF Typed
<1> QED BY <1>2, <1>4, <1>5, <1>6, <1>7, <1>8, Frame

LEMMA InvRegisterWebhook == ASSUME Inv, NEW a \in SignUp, RegisterWebhook(a) PROVE Inv'
<1> USE DEF RegisterWebhook
<1>1. Typed /\ OrgFollows(a) /\ ReqFollows(a) /\ RowFollows(a)
  BY DEF Inv
<1>2. /\ wallet' \in [SignUp -> [private : BOOLEAN, webhook : BOOLEAN]]
      /\ wallet'[a].webhook /\ wallet'[a].private
      /\ \A b \in SignUp \ {a} : wallet'[b] = wallet[b]
  BY <1>1 DEF Typed, ReqFollows, Connected
<1>3. CASE Goto(a, "502")
  BY <1>2, <1>3, InvAborts
<1>4. CASE Goto(a, "insert")
  <2>1. /\ req' \in [SignUp -> ReqRec]
        /\ req'[a] = [pc |-> "insert", sub |-> req[a].sub]
        /\ \A b \in SignUp \ {a} : req'[b] = req[b]
    BY <1>1, <1>4, GotoIs DEF Busy
  <2>2. Typed'
    BY <1>1, <1>2, <2>1 DEF Typed
  <2>3. OrgFollows(a)'
    BY <1>1 DEF OrgFollows
  <2>4. ReqFollows(a)'
    BY <1>1, <1>2, <2>1 DEF ReqFollows, Step, Connected, Provisioned
  <2>5. RowFollows(a)'
    BY <1>1, <2>1 DEF RowFollows
  <2> QED BY <1>2, <2>1, <2>2, <2>3, <2>4, <2>5, Frame
<1> QED BY <1>3, <1>4

\* The row a sign-up writes is complete, because everything it needs is behind it.
LEMMA InsertedIs ==
    ASSUME Inv, NEW a \in SignUp, req[a].pc = "insert"
    PROVE  /\ Inserted(a) \in [SignUp -> {NoRow} \cup Row]
           /\ Inserted(a)[a] # NoRow /\ Inserted(a)[a].key = a /\ Inserted(a)[a].signer = mode
           /\ mode = "turnkey" => Inserted(a)[a].spark = "spark"
           /\ \A b \in SignUp \ {a} : Inserted(a)[b] = row[b]
<1> DEFINE new == [key |-> a, signer |-> mode, spark |-> req[a].sub.spark]
<1>1. Typed /\ ReqFollows(a)
  BY DEF Inv
<1>2. req[a].sub.spark \in {"none", "spark"} /\ (mode = "turnkey" => req[a].sub.spark = "spark")
  BY <1>1, CreatedIs DEF Typed, ReqRec, ReqFollows, Connected, NoSub
<1>3. new \in Row
  BY <1>1, <1>2, AccountsAre DEF Row, Typed
<1>4. Inserted(a) = [row EXCEPT ![a] = new]
  BY DEF Inserted
<1> HIDE DEF new
<1>5. Inserted(a)[a] = new /\ \A b \in SignUp \ {a} : Inserted(a)[b] = row[b]
  BY <1>1, <1>4 DEF Typed
<1>6. Inserted(a) \in [SignUp -> {NoRow} \cup Row]
  BY <1>1, <1>3, <1>4 DEF Typed
<1> QED BY <1>2, <1>3, <1>5, <1>6, NullAssumption DEF new

LEMMA InvInserts ==
    ASSUME Inv, NEW a \in SignUp, Insert(a) \/ InsertFails(a)
    PROVE  Inv'
<1>1. Typed /\ OrgFollows(a) /\ ReqFollows(a) /\ RowFollows(a) /\ req[a].pc = "insert"
  BY DEF Inv, Insert, InsertFails
<1>2. UNCHANGED <<mode, login, activity, org, wallet, device, opened>>
  BY DEF Insert, InsertFails
<1>3. \/ Goto(a, "created") /\ row' = Inserted(a)
      \/ Goto(a, "500") /\ row' \in {row, Inserted(a)}
  BY DEF Insert, InsertFails
<1>4. /\ req' \in [SignUp -> ReqRec]
      /\ \/ req'[a] = [pc |-> "created", sub |-> req[a].sub] /\ row' = Inserted(a)
         \/ req'[a] = [pc |-> "500", sub |-> req[a].sub] /\ row' \in {row, Inserted(a)}
      /\ \A b \in SignUp \ {a} : req'[b] = req[b]
  <2>1. "created" \in Busy \cup Ended /\ "500" \in Busy \cup Ended
    BY DEF Busy, Ended
  <2> QED BY <1>1, <1>3, <2>1, GotoIs
<1>5. row[a] = NoRow
  BY <1>1 DEF RowFollows
<1>6. Typed'
  BY <1>1, <1>2, <1>4, InsertedIs DEF Typed
<1>7. OrgFollows(a)'
  BY <1>1, <1>2 DEF OrgFollows
<1>8. ReqFollows(a)'
  BY <1>1, <1>2, <1>4 DEF ReqFollows, Step, Connected, Provisioned
<1>9. RowFollows(a)'
  BY <1>1, <1>2, <1>4, <1>5, InsertedIs DEF RowFollows, ReqFollows, Connected, Provisioned, Owner
<1>10. \A b \in SignUp \ {a} : row'[b] = row[b]
  BY <1>1, <1>4, InsertedIs
<1> QED BY <1>2, <1>4, <1>5, <1>6, <1>7, <1>8, <1>9, <1>10, Frame

LEMMA InvAnswerSignUp == ASSUME Inv, NEW a \in SignUp, AnswerSignUp(a) PROVE Inv'
<1> USE DEF AnswerSignUp
<1>1. Typed /\ OrgFollows(a) /\ ReqFollows(a) /\ RowFollows(a)
  BY DEF Inv
<1>2. /\ req' \in [SignUp -> ReqRec]
      /\ req'[a] = [pc |-> "200", sub |-> req[a].sub]
      /\ \A b \in SignUp \ {a} : req'[b] = req[b]
  BY <1>1, GotoIs DEF Ended
<1>3. Typed'
  BY <1>1, <1>2 DEF Typed
<1>4. OrgFollows(a)'
  BY <1>1 DEF OrgFollows
<1>5. ReqFollows(a)' /\ RowFollows(a)'
  BY <1>1, <1>2 DEF ReqFollows, RowFollows, Step, Connected, Provisioned, Owner
<1> QED BY <1>2, <1>3, <1>4, <1>5, Frame

LEMMA InvSignUpStep == ASSUME Inv, NEW a \in SignUp, SignUpStep(a) PROVE Inv'
<1>1. ASSUME CallFails(a) \/ GiveUp(a) \/ StepRefused(a)
      PROVE  Inv'
  <2>1. /\ req[a].pc \in Step \cup {"signer", "connect", "webhook"} /\ Goto(a, "502")
        /\ UNCHANGED <<mode, login, activity, org, row, device, opened, wallet>>
    BY <1>1 DEF CallFails, GiveUp, StepRefused
  <2> QED BY <2>1, InvAborts DEF Inv, Typed
<1> QED BY <1>1, InvSubmit, InvStepDone, InvProvisionSigner, InvSetPrivate, InvRegisterWebhook,
           InvInserts, InvAnswerSignUp DEF SignUpStep

-----------------------------------------------------------------------------
(* Logins, browsers and restarts *)

\* Who minted a key is not forgotten.
LoginsKept ==
    \A l \in Login : login[l].pc # "idle" => login'[l].pc # "idle" /\ login'[l].user = login[l].user

\* A step outside POST /users preserves the invariant if it keeps the rows, up to their
\* keys, and what it does to logins and browsers preserves the invariant for them.
LEMMA OutsideFrame ==
    ASSUME Inv, Typed', UNCHANGED <<mode, req, activity, org, wallet, opened>>, LoginsKept,
           \A a \in SignUp : row[a] # NoRow =>
                /\ row'[a] # NoRow /\ Owner(row[a].key, a)'
                /\ row'[a].signer = row[a].signer /\ row'[a].spark = row[a].spark,
           \A a \in SignUp : row[a] = NoRow => row'[a] = NoRow,
           \A l \in Login : LoginFollows(l)',
           \A d \in Device : device'[d].creds = device[d].creds \/ CredsFollow(d)'
    PROVE  Inv'
<1>1. ASSUME NEW a \in SignUp PROVE OrgFollows(a)' /\ ReqFollows(a)' /\ RowFollows(a)'
  <2>1. OrgFollows(a) /\ ReqFollows(a) /\ RowFollows(a)
    BY DEF Inv
  <2>2. OrgFollows(a)'
    BY <2>1 DEF OrgFollows
  <2>3. ReqFollows(a)'
    BY <2>1 DEF ReqFollows, Provisioned
  <2>4. RowFollows(a)'
    BY <2>1 DEF RowFollows, Provisioned
  <2> QED BY <2>2, <2>3, <2>4
<1>2. ASSUME NEW d \in Device, device'[d].creds = device[d].creds PROVE CredsFollow(d)'
  <2>1. device[d].creds # NoCreds => device[d].creds \in Creds
    BY DEF Inv, Typed
  <2>2. CredsFollow(d)
    BY DEF Inv
  <2> QED BY <1>2, <2>1, <2>2 DEF CredsFollow, Owner, Creds, LoginsKept
<1> QED BY <1>1, <1>2 DEF Inv

\* Where the rows stay as they are, keeping the logins is enough.
LEMMA RowsStay ==
    ASSUME Inv, row' = row, LoginsKept
    PROVE  \A a \in SignUp : row[a] # NoRow =>
                /\ row'[a] # NoRow /\ Owner(row[a].key, a)'
                /\ row'[a].signer = row[a].signer /\ row'[a].spark = row[a].spark
<1> SUFFICES ASSUME NEW a \in SignUp, row[a] # NoRow
             PROVE  Owner(row[a].key, a)'
  BY DEF Owner
<1>1. Owner(row[a].key, a)
  BY DEF Inv, RowFollows
<1> QED BY <1>1 DEF Owner, LoginsKept

LEMMA LoginIs ==
    ASSUME Typed, NEW l \in Login, login[l].pc # "idle",
           NEW pc \in {"posted", "verified", "rotated"} \cup Ended,
           login' = [login EXCEPT ![l].pc = pc]
    PROVE  /\ login' \in [Login -> LoginRec] /\ LoginsKept
           /\ login'[l] = [pc |-> pc, user |-> login[l].user] /\ login[l].user \in SignUp
           /\ \A k \in Login \ {l} : login'[k] = login[k]
<1>1. login[l] \in [pc : {"posted", "verified", "rotated"} \cup Ended, user : SignUp]
  BY DEF Typed, LoginRec
<1>2. login'[l] = [pc |-> pc, user |-> login[l].user]
  BY <1>1 DEF Typed
<1>3. login'[l] \in LoginRec /\ pc # "idle"
  BY <1>1, <1>2 DEF LoginRec, Ended
<1>4. login' = [login EXCEPT ![l] = login'[l]]
  BY DEF Typed
<1>5. login' \in [Login -> LoginRec] /\ \A k \in Login \ {l} : login'[k] = login[k]
  BY <1>3, <1>4 DEF Typed
<1>6. LoginsKept
  BY <1>2, <1>3, <1>5 DEF LoginsKept
<1> QED BY <1>1, <1>2, <1>5, <1>6

LEMMA InvVerify == ASSUME Inv, NEW l \in Login, Verify(l) PROVE Inv'
<1> USE DEF Verify
<1>1. PICK pc \in {"verified", "401"} : login' = [login EXCEPT ![l].pc = pc]
  OBVIOUS
<1>2. pc \in {"posted", "verified", "rotated"} \cup Ended
  BY <1>1 DEF Ended
<1>3. /\ login' \in [Login -> LoginRec] /\ LoginsKept
      /\ login'[l] = [pc |-> pc, user |-> login[l].user]
      /\ \A k \in Login \ {l} : login'[k] = login[k]
  BY <1>1, <1>2, LoginIs DEF Inv
<1>4. Typed'
  BY <1>3 DEF Inv, Typed
<1>5. ASSUME NEW k \in Login PROVE LoginFollows(k)'
  BY <1>3 DEF Inv, LoginFollows
<1> QED BY <1>3, <1>4, <1>5, RowsStay, OutsideFrame

LEMMA InvAnswerLogin == ASSUME Inv, NEW l \in Login, AnswerLogin(l) PROVE Inv'
<1> USE DEF AnswerLogin
<1>1. "200" \in {"posted", "verified", "rotated"} \cup Ended
  BY DEF Ended
<1>2. /\ login' \in [Login -> LoginRec] /\ LoginsKept
      /\ login'[l] = [pc |-> "200", user |-> login[l].user]
      /\ \A k \in Login \ {l} : login'[k] = login[k]
  BY <1>1, LoginIs DEF Inv
<1>3. Typed'
  BY <1>2 DEF Inv, Typed
<1>4. ASSUME NEW k \in Login PROVE LoginFollows(k)'
  BY <1>2 DEF Inv, LoginFollows
<1> QED BY <1>2, <1>3, <1>4, RowsStay, OutsideFrame

\* The key a login rotates in is its own, so it can open no wallet but the one it is for.
LEMMA InvRotate == ASSUME Inv, NEW l \in Login, Rotate(l) PROVE Inv'
<1> DEFINE a == login[l].user
           found == row[a] # NoRow
           rotated == IF found THEN [row EXCEPT ![a].key = l] ELSE row
<1> USE DEF Rotate
<1>1. PICK pc \in {"rotated", "404", "500"} :
            /\ login' = [login EXCEPT ![l].pc = pc]
            /\ row' \in {row, rotated}
            /\ pc = "rotated" => found
  OBVIOUS
<1>2. pc \in {"posted", "verified", "rotated"} \cup Ended
  BY <1>1 DEF Ended
<1>3. /\ login' \in [Login -> LoginRec] /\ LoginsKept /\ a \in SignUp
      /\ login'[l] = [pc |-> pc, user |-> a]
      /\ \A k \in Login \ {l} : login'[k] = login[k]
  BY <1>1, <1>2, LoginIs DEF Inv
<1>4. ASSUME found
      PROVE  /\ rotated[a] = [key |-> l, signer |-> row[a].signer, spark |-> row[a].spark]
             /\ rotated \in [SignUp -> {NoRow} \cup Row] /\ rotated[a] # NoRow
             /\ \A b \in SignUp \ {a} : rotated[b] = row[b]
  <2>1. row[a] \in Row /\ row \in [SignUp -> {NoRow} \cup Row]
    BY <1>3, <1>4 DEF Inv, Typed
  <2>2. [row[a] EXCEPT !.key = l] = [key |-> l, signer |-> row[a].signer, spark |-> row[a].spark]
    BY <2>1 DEF Row
  <2>3. [key |-> l, signer |-> row[a].signer, spark |-> row[a].spark] \in Row
    BY <2>1 DEF Row
  <2> QED BY <1>3, <1>4, <2>1, <2>2, <2>3, NullAssumption
<1> HIDE DEF rotated
<1>5. row' = row \/ (found /\ row' = rotated)
  BY <1>1 DEF rotated
<1>6. CASE row' = row
  <2>1. Typed'
    BY <1>3, <1>6 DEF Inv, Typed
  <2>2. ASSUME NEW k \in Login PROVE LoginFollows(k)'
    BY <1>1, <1>3, <1>6 DEF Inv, LoginFollows
  <2> QED BY <1>3, <1>6, <2>1, <2>2, RowsStay, OutsideFrame
<1>7. CASE found /\ row' = rotated
  <2>1. Typed'
    BY <1>3, <1>4, <1>7 DEF Inv, Typed
  <2>2. \A b \in SignUp : (row'[b] = NoRow) = (row[b] = NoRow)
    BY <1>4, <1>7
  <2>3. ASSUME NEW k \in Login PROVE LoginFollows(k)'
    <3>1. login[k].pc \in {"rotated", "200"} => login[k].user \in SignUp
      BY DEF Inv, Typed, LoginRec
    <3> QED BY <1>1, <1>3, <1>7, <2>2, <3>1 DEF Inv, LoginFollows
  <2>4. ASSUME NEW b \in SignUp, row[b] # NoRow
        PROVE  /\ row'[b] # NoRow /\ Owner(row[b].key, b)'
               /\ row'[b].signer = row[b].signer /\ row'[b].spark = row[b].spark
    <3>1. CASE b = a
      BY <1>2, <1>3, <1>4, <1>7, <3>1 DEF Owner, Ended
    <3>2. CASE b # a
      <4>1. Owner(row[b].key, b)
        BY <2>4 DEF Inv, RowFollows
      <4> QED BY <1>3, <1>4, <1>7, <2>4, <3>2, <4>1 DEF Owner, LoginsKept
    <3> QED BY <3>1, <3>2
  <2> QED BY <1>3, <2>1, <2>2, <2>3, <2>4, OutsideFrame
<1> QED BY <1>5, <1>6, <1>7

LEMMA InvSignUpBegins ==
    ASSUME Inv, NEW d \in Device, NEW a \in SignUp, NEW passkey \in BOOLEAN,
           SignUpBegins(d, a, passkey)
    PROVE  Inv'
<1> USE DEF SignUpBegins
<1>1. Typed /\ OrgFollows(a) /\ ReqFollows(a) /\ RowFollows(a)
  BY DEF Inv
<1>2. PICK pc \in {"connect", "create", "400"} :
        /\ Goto(a, pc)
        /\ pc = "connect" => mode = "seed"
        /\ pc = "create" => mode = "turnkey"
  OBVIOUS
<1>3. /\ req' \in [SignUp -> ReqRec]
      /\ req'[a] = [pc |-> pc, sub |-> req[a].sub]
      /\ \A b \in SignUp \ {a} : req'[b] = req[b]
  <2>1. pc \in Busy \cup Ended
    BY <1>2 DEF Busy, Step, Ended
  <2> QED BY <1>1, <1>2, <2>1, GotoIs
<1>4. req[a].pc = "idle"
  BY DEF NewReq
<1>5. Typed'
  BY <1>1, <1>3 DEF Typed
<1>6. OrgFollows(a)'
  BY <1>1 DEF OrgFollows
<1>7. ReqFollows(a)'
  BY <1>1, <1>2, <1>3, <1>4 DEF ReqFollows, Step, Connected, Provisioned, Before
<1>8. RowFollows(a)'
  BY <1>1, <1>2, <1>3, <1>4 DEF RowFollows
<1>9. \A e \in Device : device'[e].creds = device[e].creds
  BY <1>1 DEF Typed
<1> QED BY <1>3, <1>5, <1>6, <1>7, <1>8, <1>9, Frame

LEMMA InvLoginBegins ==
    ASSUME Inv, NEW d \in Device, NEW l \in Login, NEW a \in SignUp, LoginBegins(d, l, a)
    PROVE  Inv'
<1> USE DEF LoginBegins
<1>1. PICK pc \in {"posted", "409"} : login' = [login EXCEPT ![l] = [pc |-> pc, user |-> a]]
  OBVIOUS
<1>2. [pc |-> pc, user |-> a] \in LoginRec
  BY <1>1 DEF LoginRec, Ended
<1>3. /\ login'[l] = [pc |-> pc, user |-> a]
      /\ \A k \in Login \ {l} : login'[k] = login[k]
      /\ login' \in [Login -> LoginRec]
  BY <1>1, <1>2 DEF Inv, Typed
<1>4. Typed'
  <2>1. device' \in [Device -> [creds : {NoCreds} \cup Creds,
                                waits : {NoRequest} \cup SignUp \cup Login]]
    BY DEF Inv, Typed
  <2> QED BY <1>3, <2>1 DEF Inv, Typed
<1>5. LoginsKept
  BY <1>3 DEF LoginsKept
<1>6. ASSUME NEW k \in Login PROVE LoginFollows(k)'
  BY <1>1, <1>3 DEF Inv, LoginFollows
<1>7. \A e \in Device : device'[e].creds = device[e].creds
  BY DEF Inv, Typed
<1> QED BY <1>4, <1>5, <1>6, <1>7, RowsStay, OutsideFrame

\* A step of the browser d that changes nothing but its own credentials.
LEMMA InvDevice ==
    ASSUME Inv, NEW d \in Device, NEW c \in {NoCreds} \cup Creds,
           NEW w \in {NoRequest} \cup SignUp \cup Login,
           device' = [device EXCEPT ![d] = [creds |-> c, waits |-> w]],
           UNCHANGED <<mode, req, login, activity, org, wallet, row, opened>>,
           c = device[d].creds \/ c = NoCreds \/ (row[c.user] # NoRow /\ Owner(c.key, c.user))
    PROVE  Inv'
<1>1. /\ device'[d] = [creds |-> c, waits |-> w]
      /\ \A e \in Device \ {d} : device'[e] = device[e]
  BY DEF Inv, Typed
<1>2. Typed'
  BY DEF Inv, Typed
<1>3. LoginsKept
  BY DEF LoginsKept
<1>4. ASSUME NEW k \in Login PROVE LoginFollows(k)'
  BY DEF Inv, LoginFollows
<1>5. ASSUME NEW e \in Device PROVE device'[e].creds = device[e].creds \/ CredsFollow(e)'
  BY <1>1 DEF CredsFollow, Owner
<1> QED BY <1>2, <1>3, <1>4, <1>5, RowsStay, OutsideFrame

LEMMA InvBrowser ==
    ASSUME Inv, NEW d \in Device,
           \/ RequestIsLost(d) \/ Mismatch(d)
           \/ \E a \in SignUp : SignUpReturns(d, a)
           \/ \E l \in Login : LoginReturns(d, l)
    PROVE  Inv'
<1>1. device[d] \in [creds : {NoCreds} \cup Creds, waits : {NoRequest} \cup SignUp \cup Login]
  BY DEF Inv, Typed
<1>2. CASE RequestIsLost(d)
  <2>1. device' = [device EXCEPT ![d] = [creds |-> device[d].creds, waits |-> NoRequest]]
    <3>1. [device[d] EXCEPT !.waits = NoRequest] = [creds |-> device[d].creds, waits |-> NoRequest]
      BY <1>1
    <3> QED BY <1>2, <3>1 DEF RequestIsLost, SetWaits
  <2>2. device[d].creds \in {NoCreds} \cup Creds
    BY <1>1
  <2> QED BY <1>2, <2>1, <2>2, InvDevice DEF RequestIsLost
<1>3. CASE Mismatch(d)
  <2>1. device' = [device EXCEPT ![d] = [creds |-> NoCreds, waits |-> device[d].waits]]
    <3>1. [device[d] EXCEPT !.creds = NoCreds] = [creds |-> NoCreds, waits |-> device[d].waits]
      BY <1>1
    <3> QED BY <1>3, <3>1 DEF Mismatch
  <2>2. device[d].waits \in {NoRequest} \cup SignUp \cup Login
    BY <1>1
  <2>3. UNCHANGED <<mode, req, login, activity, org, wallet, row, opened>>
    BY <1>3 DEF Mismatch
  <2>4. NoCreds \in {NoCreds} \cup Creds
    OBVIOUS
  <2> QED BY <2>1, <2>2, <2>3, <2>4, InvDevice
<1>4. ASSUME NEW a \in SignUp, SignUpReturns(d, a) PROVE Inv'
  <2> DEFINE c == [user |-> a, key |-> a]
  <2>1. c \in Creds /\ c.user = a /\ c.key = a
    BY DEF Creds
  <2>2. row[a] # NoRow /\ Owner(a, a)
    BY <1>4 DEF SignUpReturns, SavesCreds, Inv, RowFollows, Owner
  <2> QED BY <1>4, <2>1, <2>2, InvDevice DEF SignUpReturns
<1>5. ASSUME NEW l \in Login, LoginReturns(d, l) PROVE Inv'
  <2> DEFINE c == [user |-> login[l].user, key |-> l]
  <2>1. login[l].user \in SignUp
    BY <1>5 DEF LoginReturns, Inv, Typed, LoginRec
  <2>2. c \in Creds /\ c.user = login[l].user /\ c.key = l
    BY <2>1 DEF Creds
  <2>3. row[c.user] # NoRow /\ Owner(c.key, c.user)
    BY <1>5, <2>2 DEF LoginReturns, Inv, LoginFollows, Owner
  <2> QED BY <1>5, <2>2, <2>3, InvDevice DEF LoginReturns
<1> QED BY <1>2, <1>3, <1>4, <1>5

\* A request that is served opens the wallet with the keys it was opened with before.
LEMMA InvUse == ASSUME Inv, NEW d \in Device, Use(d) PROVE Inv'
<1> USE DEF Use
<1> DEFINE u == device[d].creds.user
<1>1. u \in SignUp /\ row[u] # NoRow
  BY DEF KeyIsGood, Inv, Typed, Creds
<1>2. opened[u] = {mode}
  BY <1>1 DEF Serves, Inv, RowFollows
<1>3. opened' = opened
  BY <1>2 DEF Inv, Typed
<1>4. Typed' /\ LoginsKept
  BY <1>3 DEF Inv, Typed, LoginsKept
<1>5. ASSUME NEW k \in Login PROVE LoginFollows(k)'
  BY DEF Inv, LoginFollows
<1> QED BY <1>3, <1>4, <1>5, RowsStay, OutsideFrame

\* A restart cuts every request off before it meets the new mode.
LEMMA InvRestart == ASSUME Inv, NEW m \in Mode, Restart(m) PROVE Inv'
<1> USE DEF Restart
<1>1. ASSUME NEW a \in SignUp
      PROVE  /\ req'[a] \in ReqRec /\ req'[a].sub = req[a].sub
             /\ req'[a].pc = IF req[a].pc \in Busy THEN "cut" ELSE req[a].pc
  BY DEF Inv, Typed, ReqRec, Ended
<1>2. ASSUME NEW l \in Login
      PROVE  /\ login'[l] \in LoginRec
             /\ login[l].pc # "idle" => login'[l].pc # "idle" /\ login'[l].user = login[l].user
             /\ login'[l].pc \in {"rotated", "200"} => login'[l] = login[l]
  BY DEF Inv, Typed, LoginRec, Ended
<1>3. LoginsKept
  BY <1>2 DEF LoginsKept
<1>4. Typed'
  <2>1. req' \in [SignUp -> ReqRec]
    BY <1>1
  <2>2. login' \in [Login -> LoginRec]
    BY <1>2
  <2> QED BY <2>1, <2>2 DEF Inv, Typed
<1>5. ASSUME NEW a \in SignUp PROVE OrgFollows(a)' /\ ReqFollows(a)' /\ RowFollows(a)'
  <2>1. OrgFollows(a) /\ ReqFollows(a) /\ RowFollows(a)
    BY DEF Inv
  <2>2. req'[a].pc \notin Busy
    BY <1>1 DEF Busy, Step
  <2>3. OrgFollows(a)'
    BY <2>1 DEF OrgFollows
  <2>4. ReqFollows(a)'
    BY <1>1, <2>1, <2>2 DEF ReqFollows, Busy, Step, Connected
  <2>5. RowFollows(a)'
    BY <1>1, <1>3, <2>1, <2>2 DEF RowFollows, Provisioned, Owner, LoginsKept, Busy
  <2> QED BY <2>3, <2>4, <2>5
<1>6. ASSUME NEW l \in Login PROVE LoginFollows(l)'
  BY <1>2 DEF Inv, LoginFollows
<1>7. ASSUME NEW d \in Device PROVE CredsFollow(d)'
  <2>1. device[d].creds # NoCreds => device[d].creds \in Creds
    BY DEF Inv, Typed
  <2> QED BY <1>3, <2>1 DEF Inv, CredsFollow, Owner, LoginsKept, Creds
<1> QED BY <1>4, <1>5, <1>6, <1>7 DEF Inv

-----------------------------------------------------------------------------
(* The invariant, and what it implies *)

LEMMA InvNext == Inv /\ [Next]_vars => Inv'
<1> SUFFICES ASSUME Inv, [Next]_vars PROVE Inv'
  OBVIOUS
<1>1. CASE \E a \in SignUp : SignUpStep(a) \/ ActivityRuns(a) \/ ActivityFails(a)
  BY <1>1, InvSignUpStep, InvActivityRuns, InvActivityFails
<1>2. CASE \E l \in Login : LoginStep(l)
  BY <1>2, InvVerify, InvRotate, InvAnswerLogin DEF LoginStep
<1>3. CASE \E d \in Device : DeviceStep(d)
  <2> PICK d \in Device : DeviceStep(d)
    BY <1>3
  <2>1. CASE Use(d)
    BY <2>1, InvUse
  <2>2. CASE RequestIsLost(d) \/ Mismatch(d)
    BY <2>2, InvBrowser
  <2>3. CASE \E a \in SignUp : SignUpReturns(d, a) \/ \E passkey \in BOOLEAN : SignUpBegins(d, a, passkey)
    BY <2>3, InvBrowser, InvSignUpBegins
  <2>4. CASE \E l \in Login : LoginReturns(d, l) \/ \E a \in SignUp : LoginBegins(d, l, a)
    BY <2>4, InvBrowser, InvLoginBegins
  <2> QED BY <2>1, <2>2, <2>3, <2>4 DEF DeviceStep
<1>4. CASE \E m \in Mode : Restart(m)
  BY <1>4, InvRestart
<1>5. CASE UNCHANGED vars
  <2> USE <1>5 DEF vars
  <2>1. Typed'
    BY DEF Inv, Typed
  <2>2. LoginsKept
    BY DEF LoginsKept
  <2>3. ASSUME NEW l \in Login PROVE LoginFollows(l)'
    BY DEF Inv, LoginFollows
  <2> QED BY <2>1, <2>2, <2>3, RowsStay, OutsideFrame
<1> QED BY <1>1, <1>2, <1>3, <1>4, <1>5 DEF Next

LEMMA InvHolds == Spec => []Inv
BY InvInit, InvNext, PTL DEF Spec

\* Requests, activities, sub-organizations, rows and credentials keep their shapes.
THEOREM TypeCorrect == Spec => []TypeOK
<1>1. Inv => TypeOK
  <2> SUFFICES ASSUME Inv PROVE TypeOK
    OBVIOUS
  <2>1. Typed
    BY DEF Inv
  <2>2. ASSUME NEW a \in SignUp
        PROVE  /\ req[a].pc \in {"idle"} \cup Busy \cup Ended
               /\ activity[a].step \in {"none"} \cup Step
               /\ activity[a].status \in {"none", "pending", "completed", "failed"}
               /\ org[a].policies \subseteq Policy /\ org[a].roots \subseteq Range(RootUsers)
               /\ row[a] \in {NoRow} \cup Row /\ opened[a] \subseteq Mode
    BY <2>1, RootsAre DEF Typed, ReqRec, ActivityRec, OrgRec
  <2>3. ASSUME NEW l \in Login
        PROVE  /\ login[l].pc \in {"idle", "posted", "verified", "rotated"} \cup Ended
               /\ login[l].pc # "idle" => login[l].user \in SignUp
    BY <2>1 DEF Typed, LoginRec
  <2> QED BY <2>1, <2>2, <2>3 DEF TypeOK, Typed
<1> QED BY <1>1, InvHolds, PTL

\* A wallet with a row has its passkey as its only root, is private, has its webhook, and
\* has nothing pending with Turnkey, whatever failed or came late: the row is the last
\* thing POST /users writes (Users.kt).
THEOREM RowsProvisioned == Spec => []RowsAreProvisioned
<1>1. Inv => RowsAreProvisioned
  <2> SUFFICES ASSUME Inv, NEW a \in SignUp, row[a] # NoRow
               PROVE  /\ wallet[a].private /\ wallet[a].webhook
                      /\ row[a].signer = "turnkey" =>
                            /\ org[a].exists /\ org[a].roots = {"owner"}
                            /\ row[a].spark = "spark"
                            /\ SignerWorks(a)
                            /\ activity[a].status # "pending"
    BY DEF RowsAreProvisioned
  <2>1. RowFollows(a) /\ OrgFollows(a)
    BY DEF Inv
  <2>2. ASSUME row[a].signer = "turnkey"
        PROVE  org[a] = Made("quorum") /\ row[a].spark = "spark" /\ activity[a].status # "pending"
    BY <2>1, <2>2 DEF RowFollows, OrgFollows, Provisioned, Step
  <2>3. Made("quorum").exists /\ Made("quorum").roots = {"owner"}
    BY DEF Made
  <2> QED BY <2>1, <2>2, <2>3, ScopeIsEnough DEF RowFollows
<1> QED BY <1>1, InvHolds, PTL

\* Once the wallet is visible the key the server holds can neither prepare a transfer nor
\* export a key it could sign one with (Turnkey.kt).
THEOREM DelegatedScoped == Spec => []DelegatedIsScoped
<1>1. Inv => DelegatedIsScoped
  <2> SUFFICES ASSUME Inv, NEW a \in SignUp, row[a] # NoRow
               PROVE  org[a] \in {NoOrg, Made("quorum")}
    BY ScopeIsNoMore DEF DelegatedIsScoped
  <2> QED BY DEF Inv, RowFollows, OrgFollows, Provisioned, Step
<1> QED BY <1>1, InvHolds, PTL

\* Credentials name a wallet that exists, and their key opens no other: a key is minted by
\* one sign-up or for one login, and rotated only into that login's wallet (Users.kt,
\* routes/Login.kt, api.ts).
THEOREM CredsNameWallet == Spec => []CredsNameTheirWallet
<1>1. Inv => CredsNameTheirWallet
  <2> SUFFICES ASSUME Inv, NEW d \in Device, device[d].creds # NoCreds
               PROVE  /\ row[device[d].creds.user] # NoRow
                      /\ \A a \in SignUp : row[a] # NoRow /\ row[a].key = device[d].creds.key
                                              => a = device[d].creds.user
    BY DEF CredsNameTheirWallet
  <2> DEFINE c == device[d].creds
  <2>1. c \in Creds /\ row[c.user] # NoRow /\ Owner(c.key, c.user)
    BY DEF Inv, Typed, CredsFollow
  <2>2. ASSUME NEW a \in SignUp, row[a] # NoRow, row[a].key = c.key PROVE a = c.user
    <3>1. Owner(c.key, a)
      BY <2>2 DEF Inv, RowFollows
    <3> QED BY <2>1, <3>1, DistinctAssumption DEF Owner, Creds
  <2> QED BY <2>1, <2>2
<1> QED BY <1>1, InvHolds, PTL

\* No wallet with a row is ever opened with the other backend's keys (Sdk.kt).
THEOREM OneBackendPerWallet == Spec => []OneBackend
<1>1. Inv => OneBackend
  BY DEF Inv, OneBackend, RowFollows
<1> QED BY <1>1, InvHolds, PTL

-----------------------------------------------------------------------------
(* What a sign-up that failed leaves behind, and what becomes of a row *)

\* The half of "if any step fails we 502 and never persist the user" (Users.kt 53) that
\* the code keeps: a sign-up answered 502 or 400 has no row and, by RowIsForGood, is never
\* given one, whatever Turnkey still finishes for it.  Only an answer that was never
\* sent, or a 500 from the INSERT itself, leaves the browser not knowing.
RefusedLeavesNoRow ==
    \A a \in SignUp : req[a].pc \notin {"created", "200", "500", "cut"} => row[a] = NoRow

THEOREM NobodyHalfPersisted == Spec => []RefusedLeavesNoRow
<1>1. Inv => RefusedLeavesNoRow
  BY DEF Inv, RefusedLeavesNoRow, RowFollows
<1> QED BY <1>1, InvHolds, PTL

\* What POST /login may change of the row of a: its key, into one minted for a login that
\* was verified for a's own sub-organization.
KeyRotates(a) ==
    \E l \in Login : login[l].pc = "verified" /\ login[l].user = a /\ row'[a].key = l

\* A row is written once, by the sign-up that minted it: no later step removes it or
\* gives it another signer or Spark account, and its key changes only as POST /login does.
RowOnlyRotates ==
    \A a \in SignUp : row[a] # NoRow =>
        /\ row'[a] # NoRow /\ row'[a].signer = row[a].signer /\ row'[a].spark = row[a].spark
        /\ row'[a].key = row[a].key \/ KeyRotates(a)

\* A request that has come to its INSERT has no row yet.
LEMMA InsertsOnce ==
    ASSUME Inv, NEW a \in SignUp, req[a].pc = "insert"
    PROVE  row[a] = NoRow
BY DEF Inv, RowFollows

LEMMA RotatingKeeps == ASSUME Inv, NEW l \in Login, Rotate(l) PROVE RowOnlyRotates
<1> DEFINE u == login[l].user
           rotated == IF row[u] # NoRow THEN [row EXCEPT ![u].key = l] ELSE row
<1>1. login[l].pc = "verified" /\ (row' = row \/ row' = rotated)
  BY DEF Rotate
<1>2. CASE row' = row
  BY <1>2 DEF RowOnlyRotates
<1>3. CASE row' = rotated /\ row[u] # NoRow
  <2>1. u \in SignUp
    BY <1>1 DEF Inv, Typed, LoginRec, Ended
  <2>2. row[u] \in Row /\ row \in [SignUp -> {NoRow} \cup Row]
    BY <1>3, <2>1 DEF Inv, Typed
  <2>3. row'[u] = [key |-> l, signer |-> row[u].signer, spark |-> row[u].spark]
    BY <1>3, <2>1, <2>2 DEF Row
  <2>4. row'[u] \in Row
    BY <2>2, <2>3 DEF Row
  <2>5. row'[u] # NoRow
    BY <2>4, NullAssumption
  <2>6. \A a \in SignUp \ {u} : row'[a] = row[a]
    BY <1>3, <2>2
  <2> QED BY <1>1, <2>1, <2>3, <2>5, <2>6 DEF RowOnlyRotates, KeyRotates
<1> QED BY <1>1, <1>2, <1>3

LEMMA InsertingKeeps ==
    ASSUME Inv, NEW a \in SignUp, Insert(a) \/ InsertFails(a)
    PROVE  RowOnlyRotates
<1>1. row[a] = NoRow
  BY InsertsOnce DEF Insert, InsertFails
<1>2. \A b \in SignUp \ {a} : row'[b] = row[b]
  BY DEF Insert, InsertFails, Inserted, Inv, Typed
<1> QED BY <1>1, <1>2 DEF RowOnlyRotates

LEMMA MostStepsKeep ==
    ASSUME Next
    PROVE  \/ row' = row
           \/ \E a \in SignUp : Insert(a) \/ InsertFails(a)
           \/ \E l \in Login : Rotate(l)
<1>1. ASSUME NEW a \in SignUp, SignUpStep(a) \/ ActivityRuns(a) \/ ActivityFails(a),
             ~Insert(a), ~InsertFails(a)
      PROVE  row' = row
  BY <1>1 DEF SignUpStep, ActivityRuns, ActivityFails, Submit, StepDone, StepRefused, GiveUp,
              ProvisionSigner, SetPrivate, RegisterWebhook, CallFails, AnswerSignUp
<1>2. ASSUME NEW l \in Login, LoginStep(l), ~Rotate(l) PROVE row' = row
  BY <1>2 DEF LoginStep, Verify, AnswerLogin
<1>3. ASSUME NEW d \in Device, DeviceStep(d) PROVE row' = row
  BY <1>3 DEF DeviceStep, SignUpReturns, SignUpBegins, LoginReturns, LoginBegins, RequestIsLost,
              Use, Mismatch
<1>4. ASSUME NEW n \in Mode, Restart(n) PROVE row' = row
  BY <1>4 DEF Restart
<1> QED BY <1>1, <1>2, <1>3, <1>4 DEF Next

\* Whatever races a sign-up or follows it, the row it wrote stays its own: never removed,
\* never re-provisioned, and its key replaced only by a login verified for this wallet
\* (Users.kt, routes/Login.kt; no statement deletes from the users table, and the one other
\* UPDATE, of the cached identity key, is not modelled).
THEOREM RowIsForGood == Spec => [][RowOnlyRotates]_vars
<1>1. Inv /\ [Next]_vars => [RowOnlyRotates]_vars
  <2> SUFFICES ASSUME Inv, Next PROVE RowOnlyRotates
    OBVIOUS
  <2>1. CASE row' = row
    BY <2>1 DEF RowOnlyRotates
  <2>2. CASE \E a \in SignUp : Insert(a) \/ InsertFails(a)
    BY <2>2, InsertingKeeps
  <2>3. CASE \E l \in Login : Rotate(l)
    BY <2>3, RotatingKeeps
  <2> QED BY <2>1, <2>2, <2>3, MostStepsKeep
<1> QED BY <1>1, InvHolds, PTL DEF Spec

=============================================================================
