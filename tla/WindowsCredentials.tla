------------------------ MODULE WindowsCredentials ------------------------
(***************************************************************************)
(* Windows Credential Manager (internal/backend/windows): each operation   *)
(* checks its context and its arguments once and then makes one native     *)
(* call, which nothing interrupts.  A key is a pair of a service and a     *)
(* name, and both together become the target of one credential.  Names are *)
(* sequences of UTF-16 code units; the native calls are modelled by what   *)
(* the code expects of them.                                               *)
(***************************************************************************)
EXTENDS Keyringer, Integers, Sequences

CONSTANTS
    Units,                  \* UTF-16 code units
    Blob,                   \* the length of each value
    Unusable,               \* units that no name may have: NUL, invalid encodings
    maxCredentialBlobBytes, maxGenericTargetUnits, maxUsernameUnits,
    NativeErrors            \* errors of the native calls other than "missing"

VARIABLES
    credentials,    \* the value, or None, of every target
    pc,             \* where each goroutine stands
    req,            \* its request
    frame           \* what it will return

vars == <<credentials, pc, req, frame>>

Results == {"none", "ok", "notfound", "invalid", "toolarge", "denied", "unavailable",
            "failure", "ended"}

NewFrame == [res |-> "none", val |-> None]

-----------------------------------------------------------------------------
(* Targets.                                                                  *)

\* Mutant: nothing separates the service from the key.
JoinedTarget(k) == k[1] \o k[2]

\* This mapping is shared with the Windows helper of WSL2.
target(k) == k[1] \o <<":">> \o k[2]

Usable(name) == name # <<>> /\ \A i \in 1..Len(name) : name[i] \notin Unusable

\* validatedTarget: which names have a target at all.
Valid(k) ==
    /\ Usable(k[1]) /\ Usable(k[2])
    /\ Len(k[2]) <= maxUsernameUnits
    /\ Len(target(k)) <= maxGenericTargetUnits

Targets == {target(k) : k \in Keys}

\* What a key denotes.
Entry(k) == IF Valid(k) THEN credentials[target(k)] ELSE None

\* Values that Credential Manager can hold.
Fitting == {v \in Values : ~(Blob[v] > maxCredentialBlobBytes)}

TypeOK ==
    /\ credentials \in [Targets -> Fitting \cup {None}]
    /\ pc \in [Threads -> {"idle", "native", "return"}]
    /\ req \in [Threads -> Requests \cup {NoRequest}]
    /\ frame \in [Threads -> [res : Results, val : Values \cup {None}]]

Init ==
    /\ credentials \in [Targets -> Fitting \cup {None}]
    /\ \A k \in Keys : ~Valid(k) => credentials[target(k)] = None
    /\ pc = [t \in Threads |-> "idle"]
    /\ req = [t \in Threads |-> NoRequest]
    /\ frame = [t \in Threads |-> NewFrame]

-----------------------------------------------------------------------------
Go(t, label, res, val) ==
    /\ pc' = [pc EXCEPT ![t] = label]
    /\ frame' = [frame EXCEPT ![t] = [res |-> res, val |-> val]]

TooLarge(q) == q.op = "set" /\ Blob[q.val] > maxCredentialBlobBytes

\* The context and the arguments are looked at before the native call, never
\* after it.
Call(t) ==
    /\ pc[t] = "idle"
    /\ \E q \in Requests :
        /\ req' = [req EXCEPT ![t] = q]
        /\ \/ Go(t, "return", "ended", None)
           \/ ~Valid(q.key) /\ Go(t, "return", "invalid", None)
           \/ Valid(q.key) /\ TooLarge(q) /\ Go(t, "return", "toolarge", None)
           \/ Valid(q.key) /\ ~TooLarge(q) /\ Go(t, "native", "none", None)
    /\ UNCHANGED credentials

\* windowsError and then operationError.
operationError(e) ==
    CASE e = "missing"  -> "notfound"
      [] e = "username" -> "invalid"
      [] e = "denied"   -> "denied"
      [] e = "logon"    -> "unavailable"
      [] OTHER          -> "failure"

Missing(q) == q.op # "set" /\ credentials[target(q.key)] = None

Native(t) ==
    LET q == req[t] IN
    /\ pc[t] = "native"
    /\ \/ /\ \E e \in NativeErrors : Go(t, "return", operationError(e), None)
          /\ UNCHANGED credentials
       \/ Missing(q) /\ Go(t, "return", operationError("missing"), None)
            /\ UNCHANGED credentials
       \/ /\ ~Missing(q) /\ q.op = "get"
          /\ Go(t, "return", "ok", credentials[target(q.key)])
          /\ UNCHANGED credentials
       \/ /\ ~Missing(q) /\ q.op # "get"
          /\ Go(t, "return", "ok", None)
          /\ credentials' = [credentials EXCEPT ![target(q.key)] = q.val]
    /\ UNCHANGED req

Return(t) ==
    /\ pc[t] = "return"
    /\ Go(t, "idle", "none", None)
    /\ req' = [req EXCEPT ![t] = NoRequest]
    /\ UNCHANGED credentials

Next == \E t \in Threads : Call(t) \/ Native(t) \/ Return(t)

Spec == Init /\ [][Next]_vars

-----------------------------------------------------------------------------
(* Where an operation stands, for RemoteContract: it takes effect with its   *)
(* native call.                                                              *)

Took(t) == pc[t] = "return" /\ frame[t].res \in {"ok", "notfound"}

PhaseOf ==
    [t \in Threads |->
        CASE pc[t] = "idle"   -> "idle"
          [] pc[t] = "native" -> "called"
          [] pc[t] = "return" -> IF Took(t) THEN "applied" ELSE "failed"]

AnswerOf ==
    [t \in Threads |->
        IF ~Took(t) THEN None
        ELSE IF req[t].op = "get" /\ frame[t].res = "ok" THEN frame[t].val
        ELSE frame[t].res]

-----------------------------------------------------------------------------
\* A service names one application's credentials: what another service, or
\* another key of the same one, denotes changes only through a call that names
\* it (client.go: validatedTarget).
OnlyNamedChange ==
    \A k \in Keys :
        Entry(k)' # Entry(k) => \E t \in Threads : pc[t] = "native" /\ req[t].key = k

ServicesAreApart == [][OnlyNamedChange]_vars
=============================================================================
