------------------------- MODULE FsRefinesContract -------------------------
(***************************************************************************)
(* The filesystem backend implements KeyringContract while the machine     *)
(* keeps its power.  Get takes effect when it opens the credential, Set at *)
(* the rename, Delete at the unlink.                                       *)
(***************************************************************************)
EXTENDS FsStorage

CONSTANTS
    Blocked,    \* a key that denotes an object which fails validation
    Torn        \* contents that are no value: nothing the contract knows

ASSUME BlockedAssumption == Blocked \notin Values \cup {None}

ValueIn(data) ==
    IF \E v \in Values : data = Bytes(v)
    THEN CHOOSE v \in Values : data = Bytes(v) ELSE Torn

StoreOf ==
    [k \in Keys |-> IF dir[k] = None THEN None
                    ELSE IF ~Trusted(dir[k]) THEN Blocked
                    ELSE ValueIn(inode[dir[k]].data)]

PhaseOf ==
    [t \in Threads |->
        CASE At(t, "idle") -> "idle"
          [] pc[t] \in {"read", "fsyncDir"} -> "applied"
          [] At(t, "cleanup") -> "failed"
          [] At(t, "return") -> IF frame[t].res \in Errors THEN "failed" ELSE "applied"
          [] OTHER -> "called"]

AnswerOf ==
    [t \in Threads |->
        CASE At(t, "read") -> ValueIn(inode[frame[t].fd].data)
          [] At(t, "fsyncDir") -> "ok"
          [] At(t, "return") /\ frame[t].res = "notfound" -> "notfound"
          [] At(t, "return") /\ frame[t].res = "ok" ->
                IF Op(t) = "get" THEN ValueIn(frame[t].buf) ELSE "ok"
          [] OTHER -> None]

Contract == INSTANCE KeyringContract WITH
    store <- StoreOf, phase <- PhaseOf, call <- req, answer <- AnswerOf

\* Every behaviour of the filesystem backend, seen through the mapping above, is
\* one of a linearizable map: each Get, Set and Delete of any goroutine of any
\* process takes effect at one instant or fails (keyring.go, storage_linux.go).
ImplementsContract == Contract!ContractSpec
=============================================================================
