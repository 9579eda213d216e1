----------------------- MODULE SecretRefinesContract -----------------------
(***************************************************************************)
(* The Secret Service client implements RemoteContract.  An operation      *)
(* takes effect when the service executes its call or the user confirms    *)
(* its prompt; Get and Delete answer "notfound" for an item that was there *)
(* when they found it and is deleted before they use it.                   *)
(***************************************************************************)
EXTENDS SecretService

CONSTANT Blocked    \* no entry of this backend is refused by validation

PhaseOf ==
    [t \in Threads |->
        LET f == frame[t] IN
        IF pc[t] = "idle" THEN "idle"
        ELSE IF f.res # {} THEN IF "notfound" \in f.res THEN "applied" ELSE "failed"
        ELSE IF f.done \/ f.net \in {"empty", "NoSuchObject"} THEN "applied"
        ELSE IF f.conn = "broken" THEN "failed"
        ELSE IF f.item = "gone" THEN "applied" ELSE "called"]

AnswerOf ==
    [t \in Threads |->
        IF PhaseOf[t] # "applied" THEN None
        ELSE IF ~frame[t].done THEN "notfound"
        ELSE IF req[t].op = "get" THEN frame[t].val ELSE "ok"]

Contract == INSTANCE RemoteContract WITH
    store <- store, phase <- PhaseOf, call <- req, answer <- AnswerOf, late <- orphans,
    volatile <- FALSE

\* Every behaviour of the Secret Service client, with the service's restarts,
\* broken connections, dismissed prompts and calls that outlive their context,
\* is one of the linearizable map of RemoteContract (client.go, get/set/remove).
ImplementsRemoteContract == Contract!RemoteContractSpec
=============================================================================
