--------------------------- MODULE KernelKeyring ---------------------------
(***************************************************************************)
(* The kernel keyring backend (internal/backend/keyctl): Get and Delete    *)
(* search for a key and then use its serial number, Get reads the size of  *)
(* the payload before the payload, Set is one add_key.  The keyring is     *)
(* shared by the goroutines and processes of a user, and ends with the     *)
(* user's session.  The kernel's keys are modelled by what these system    *)
(* calls do: add_key updates a key in place, and a key that is unlinked    *)
(* is destroyed, so that its serial number denotes nothing any more.       *)
(***************************************************************************)
EXTENDS Keyringer, Integers

CONSTANTS
    SizeOf,                 \* the length of each value
    userKeyPayloadLimit,    \* the largest payload
    Errnos                  \* unexpected errors: "EPERM", "ENOSYS", "other"

VARIABLES
    payload,    \* what each linked key holds, or None
    session,    \* the user-session keyring: "live" or "revoked"
    pc,         \* the next system call of each goroutine
    req,        \* its request
    frame       \* its local variables

vars == <<payload, session, pc, req, frame>>

NewFrame ==
    [key  |-> "none",   \* the serial number found: "none", "live", "gone" since
     size |-> 0,        \* the length of the buffer
     val  |-> None,     \* what Get returns
     res  |-> "none",   \* "none", "ok" or the category of the error
     done |-> FALSE]    \* whether the operation took effect (auxiliary)

Results == {"none", "ok", "notfound", "toolarge", "denied", "unavailable", "failure", "ended"}

\* Payloads that the kernel stores: it refuses empty ones.
Storable == {v \in Values : SizeOf[v] \in 1..userKeyPayloadLimit}

TypeOK ==
    /\ payload \in [Keys -> Storable \cup {None}]
    /\ session \in {"live", "revoked"}
    /\ pc \in [Threads -> {"idle", "search", "size", "read", "unlink", "add", "return"}]
    /\ req \in [Threads -> Requests \cup {NoRequest}]
    /\ frame \in [Threads -> [key : {"none", "live", "gone"}, size : 0..userKeyPayloadLimit,
                              val : Storable \cup {None}, res : Results, done : BOOLEAN]]

Init ==
    /\ payload \in [Keys -> Storable \cup {None}]
    /\ session = "live"
    /\ pc = [t \in Threads |-> "idle"]
    /\ req = [t \in Threads |-> NoRequest]
    /\ frame = [t \in Threads |-> NewFrame]

-----------------------------------------------------------------------------
Key(t) == req[t].key

operationError(errno) ==
    CASE errno \in {"ENOKEY", "EKEYREVOKED"} -> "notfound"
      [] errno = "EPERM"                     -> "denied"
      [] errno = "ENOSYS"                    -> "unavailable"
      [] OTHER                               -> "failure"

Go(t, label, f) ==
    /\ pc' = [pc EXCEPT ![t] = label]
    /\ frame' = [frame EXCEPT ![t] = f]

\* A system call fails: the operation returns its category.
Fail(t, errno) ==
    /\ Go(t, "return", [frame[t] EXCEPT !.res = operationError(errno)])
    /\ UNCHANGED <<payload, session, req>>

Unexpected(t) == \E errno \in Errnos : Fail(t, errno)

\* The serial number of an unlinked key denotes nothing for anybody.
Unlinked(keys, frames) ==
    [t \in Threads |->
        IF Key(t) \in keys /\ frames[t].key = "live"
        THEN [frames[t] EXCEPT !.key = "gone"] ELSE frames[t]]

\* Every operation looks at the context once, and Set at the length.
Call(t) ==
    /\ pc[t] = "idle"
    /\ \E q \in Requests :
        /\ req' = [req EXCEPT ![t] = q]
        /\ \/ Go(t, "return", [NewFrame EXCEPT !.res = "ended"])
           \/ q.op # "set" /\ Go(t, "search", NewFrame)
           \/ /\ q.op = "set"
              /\ IF SizeOf[q.val] > userKeyPayloadLimit
                 THEN Go(t, "return", [NewFrame EXCEPT !.res = "toolarge"])
                 ELSE Go(t, "add", NewFrame)
    /\ UNCHANGED <<payload, session>>

get(t) ==
    /\ pc[t] = "search"
    /\ \/ Unexpected(t)
       \/ session = "revoked" /\ Fail(t, "EKEYREVOKED")
       \/ session = "live" /\ payload[Key(t)] = None /\ Fail(t, "ENOKEY")
       \/ /\ session = "live" /\ payload[Key(t)] # None
          /\ Go(t, IF req[t].op = "get" THEN "size" ELSE "unlink",
                [frame[t] EXCEPT !.key = "live"])
          /\ UNCHANGED <<payload, session, req>>

\* readKeyContents: the first KEYCTL_READ asks for the size.
ReadSize(t) ==
    /\ pc[t] = "size"
    /\ \/ Unexpected(t)
       \/ frame[t].key = "gone" /\ Fail(t, "ENOKEY")
       \/ /\ frame[t].key = "live"
          /\ Go(t, "read", [frame[t] EXCEPT !.size = SizeOf[payload[Key(t)]]])
          /\ UNCHANGED <<payload, session, req>>

\* Mutant: a payload that fills the buffer is read again.
ReadShorter(t) ==
    /\ pc[t] = "read"
    /\ \/ Unexpected(t)
       \/ frame[t].key = "gone" /\ Fail(t, "ENOKEY")
       \/ LET v == payload[Key(t)] IN
          /\ frame[t].key = "live"
          /\ IF SizeOf[v] < frame[t].size
             THEN Go(t, "return", [frame[t] EXCEPT !.res = "ok", !.val = v, !.done = TRUE])
             ELSE Go(t, "read", [frame[t] EXCEPT !.size = SizeOf[v]])
          /\ UNCHANGED <<payload, session, req>>

\* The following reads take the payload, again when it has outgrown the buffer.
Read(t) ==
    /\ pc[t] = "read"
    /\ \/ Unexpected(t)
       \/ frame[t].key = "gone" /\ Fail(t, "ENOKEY")
       \/ LET v == payload[Key(t)] IN
          /\ frame[t].key = "live"
          /\ IF SizeOf[v] <= frame[t].size
             THEN Go(t, "return", [frame[t] EXCEPT !.res = "ok", !.val = v, !.done = TRUE])
             ELSE Go(t, "read", [frame[t] EXCEPT !.size = SizeOf[v]])
          /\ UNCHANGED <<payload, session, req>>

Add(t) ==
    /\ pc[t] = "add"
    /\ \/ Unexpected(t)
       \/ session = "revoked" /\ Fail(t, "EKEYREVOKED")
       \/ session = "live" /\ req[t].val \notin Storable /\ Fail(t, "EINVAL")
       \/ /\ session = "live" /\ req[t].val \in Storable
          /\ payload' = [payload EXCEPT ![Key(t)] = req[t].val]
          /\ Go(t, "return", [frame[t] EXCEPT !.res = "ok", !.done = TRUE])
          /\ UNCHANGED <<session, req>>

\* A key that another call unlinked is not found, or not linked to the keyring
\* when a call of somebody still holds it.
Unlink(t) ==
    /\ pc[t] = "unlink"
    /\ \/ Unexpected(t)
       \/ frame[t].key = "gone" /\ \E errno \in {"ENOKEY", "ENOENT"} : Fail(t, errno)
       \/ /\ frame[t].key = "live"
          /\ payload' = [payload EXCEPT ![Key(t)] = None]
          /\ pc' = [pc EXCEPT ![t] = "return"]
          /\ frame' = Unlinked({Key(t)},
                        [frame EXCEPT ![t] = [frame[t] EXCEPT !.res = "ok", !.done = TRUE]])
          /\ UNCHANGED <<session, req>>

Return(t) ==
    /\ pc[t] = "return"
    /\ req' = [req EXCEPT ![t] = NoRequest]
    /\ Go(t, "idle", NewFrame)
    /\ UNCHANGED <<payload, session>>

\* The user's last session ends: its keyring is revoked with all its keys.
Logout ==
    /\ session = "live"
    /\ session' = "revoked"
    /\ payload' = [k \in Keys |-> None]
    /\ frame' = Unlinked(Keys, frame)
    /\ UNCHANGED <<pc, req>>

Step(t) == get(t) \/ ReadSize(t) \/ Read(t) \/ Add(t) \/ Unlink(t) \/ Return(t)

\* What an operation may count on: it does not need an unexpected error to end.
Answers(t) == Step(t) /\ frame'[t].res \notin {operationError(errno) : errno \in Errnos}

Next == (\E t \in Threads : Call(t) \/ Step(t)) \/ Logout

Spec == Init /\ [][Next]_vars

-----------------------------------------------------------------------------
(* Where an operation stands, for RemoteContract: it takes effect at its     *)
(* last system call, or when the key it has found is unlinked.               *)

PhaseOf ==
    [t \in Threads |->
        LET f == frame[t] IN
        CASE pc[t] = "idle"      -> "idle"
          [] pc[t] = "return"    ->
                IF f.res = "ok" \/ (f.res = "notfound" /\ req[t].op # "set")
                THEN "applied" ELSE "failed"
          [] pc[t] \notin {"idle", "return"} -> IF f.key = "gone" THEN "applied" ELSE "called"]

AnswerOf ==
    [t \in Threads |->
        IF PhaseOf[t] # "applied" THEN None
        ELSE IF ~frame[t].done THEN "notfound"
        ELSE IF req[t].op = "get" THEN frame[t].val ELSE "ok"]
=============================================================================
