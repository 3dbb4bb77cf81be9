------------------------------ MODULE SdkLease ------------------------------
(* SdkAccess.withUser of Sdk.kt: each call reads the user's row, builds an SDK  *)
(* instance of its own, attaches the event listener, runs one operation and     *)
(* disconnects in a finally block.  These are the calls of one user.            *)
(*                                                                              *)
(* A coroutine that is cancelled throws where it is suspended.  Every await of   *)
(* withUser is such a place, for a request's coroutine (Optimizer.kt 79-83) and  *)
(* for the optimization under its timer alike; each step below that may throw    *)
(* stands for that exception too.                                               *)

CONSTANTS
    Call        \* the coroutines that may use the SDK at once

Mode == {"seed", "turnkey"}

VARIABLES
    mode,       \* SIGNER of the deployment
    keyStored,  \* users.turnkey_identity_pubkey is set
    call        \* [Call -> where the coroutine is in withUser]

database == <<mode, keyStored>>

\* threw: withUser throws.
NoCall == [pc |-> "idle", threw |-> FALSE]

LeaseInit ==
    /\ mode \in Mode
    /\ keyStored \in BOOLEAN
    /\ call = [c \in Call |-> NoCall]

At(c, pc) == call[c].pc = pc
GoOn(c, pc) == call' = [call EXCEPT ![c].pc = pc]

\* withUser ends.
Leave(c, threw) == call' = [call EXCEPT ![c] = [pc |-> "left", threw |-> threw]]

Enter(c) ==
    /\ At(c, "idle")
    /\ GoOn(c, "row")
    /\ UNCHANGED database

\* The row is read; a missing one and one of the other signer mode throw.
ReadRow(c) ==
    /\ At(c, "row")
    /\ \/ GoOn(c, IF mode = "turnkey" /\ ~keyStored THEN "key" ELSE "build")
       \/ Leave(c, TRUE)
    /\ UNCHANGED database

\* A row without identity key: it is fetched from Turnkey and stored.  Calls of the
\* same user may all do so, and the UPDATE may take effect and fail nevertheless.
StoreKey(c) ==
    /\ At(c, "key")
    /\ \/ keyStored' = TRUE /\ GoOn(c, "build")
       \/ keyStored' \in {keyStored, TRUE} /\ Leave(c, TRUE)
    /\ UNCHANGED mode

Build(c) ==
    /\ At(c, "build")
    /\ GoOn(c, "listen") \/ Leave(c, TRUE)
    /\ UNCHANGED database

\* addEventListener, outside the try block: a call that throws here, and so one that is
\* cancelled here, never disconnects its instance.
Listen(c) ==
    /\ At(c, "listen")
    /\ GoOn(c, "op") \/ Leave(c, TRUE)
    /\ UNCHANGED database

OpReturns(c) ==
    /\ At(c, "op")
    /\ GoOn(c, "disconnect")
    /\ UNCHANGED database

OpThrows(c) ==
    /\ At(c, "op")
    /\ call' = [call EXCEPT ![c] = [pc |-> "disconnect", threw |-> TRUE]]
    /\ UNCHANGED database

\* disconnect ends, or throws, or is cut off by a cancellation: the catch around it logs
\* a warning for all of these, and the result of the operation stays.
Disconnect(c) ==
    /\ At(c, "disconnect")
    /\ Leave(c, call[c].threw)
    /\ UNCHANGED database

\* The caller of withUser goes on.
Resume(c) == call' = [call EXCEPT ![c] = NoCall] /\ UNCHANGED database

\* The process dies, and all instances with it.
LeaseRestart ==
    /\ call' = [c \in Call |-> NoCall]
    /\ UNCHANGED database

-----------------------------------------------------------------------------
LeaseTypeOK ==
    /\ mode \in Mode
    /\ keyStored \in BOOLEAN
    /\ call \in [Call -> [pc : {"idle", "row", "key", "build", "listen", "op",
                                 "disconnect", "left"},
                          threw : BOOLEAN]]
=============================================================================
