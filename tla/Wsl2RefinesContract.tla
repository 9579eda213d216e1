------------------------ MODULE Wsl2RefinesContract ------------------------
(***************************************************************************)
(* The WSL2 bridge implements RemoteContract: an operation takes effect    *)
(* when the helper executes it.                                            *)
(***************************************************************************)
EXTENDS Wsl2Bridge

CONSTANT Blocked    \* no entry of this backend is refused by validation

PhaseOf ==
    [t \in Threads |->
        IF pc[t] = "idle" THEN "idle"
        ELSE IF pc[t] = "return"
             THEN IF frame[t].res \in {"ok", "notfound"} THEN "applied" ELSE "failed"
        ELSE IF frame[t].done THEN "applied" ELSE "called"]

\* What the caller is told: the helper's answer once the operation returns.
AnswerOf ==
    [t \in Threads |->
        IF PhaseOf[t] # "applied" THEN None
        ELSE IF pc[t] = "return" /\ frame[t].res = "notfound" THEN "notfound"
        ELSE IF pc[t] = "return" /\ frame[t].answer = "notfound" THEN "ok"
        ELSE frame[t].answer]

Contract == INSTANCE RemoteContract WITH
    store <- store, phase <- PhaseOf, call <- req, answer <- AnswerOf, late <- orphans,
    volatile <- FALSE

\* Every behaviour of the WSL2 bridge, with helpers that crash, hang, are killed
\* and print what is no answer, is one of the linearizable map of RemoteContract
\* (keyring.go and client.go of secure/wsl2).
ImplementsRemoteContract == Contract!RemoteContractSpec
=============================================================================
