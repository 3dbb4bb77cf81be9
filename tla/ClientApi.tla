----------------------------- MODULE ClientApi -----------------------------
(* What lib/api.ts promises its callers: how a call can end, and the parts   *)
(* of the wire shapes the client's control flow looks at.                    *)

\* How call() ends.  Served: the server acted on the request.  An answer means it
\* did, and so does an answer of nothing: a 2xx whose body cannot be read is returned
\* as null.  An error (an HTTP status, the 45 s abort, a broken connection) is thrown
\* as an exception and says nothing about it.
CallEnd ==
    {e \in [served : BOOLEAN, seen : {"answer", "nothing", "error"}] :
        e.seen # "error" => e.served}

\* Where call() waits.  The 45 s timer can abort it in the first phase only: it is
\* cleared when the headers arrive, and reading the body has no bound.
CallPhase == {"headers", "body"}

\* Payment.status.
Status == {"completed", "pending", "failed"}
Terminal == Status \ {"pending"}

\* Prepare: what is paid and the kind of package to sign.  The kind is absent
\* (here "none") unless the deployment signs in the client.
PrepareOf(Request, kinds) == [request : Request, kind : kinds]

\* The two kinds of package under SIGNER=turnkey.
PackageKind == {"transfer", "swap"}

\* PublishResult: the swap settled, or the payment's status.
PublishAnswer == {"swap"} \cup Status
=============================================================================
