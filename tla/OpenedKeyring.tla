--------------------------- MODULE OpenedKeyring ---------------------------
(***************************************************************************)
(* The Keyringer that Open has returned, or secure.NewKeyring, on the      *)
(* platforms with at most one native store.  Keyring.Get, Set and Delete   *)
(* go through the native adapter of the platform (internal/backend/native) *)
(* to its one backend, and are refused where there is none; the kernel     *)
(* keyring is returned as it is, and so is a Keyringer that the            *)
(* application brings, such as the fake.  The backend never changes after  *)
(* Open.  The backends have modules of their own, whose variables are      *)
(* these, each in its turn.                                                *)
(***************************************************************************)
EXTENDS Integers, Sequences, Bags

CONSTANTS
    Threads, Keys, Values, None,
    Opened,             \* the backends that Open may have selected
    KeysOf, ValuesOf,   \* the keys and values used with each of them
    Blocked,            \* no entry of these backends is refused by validation
    Unreadable,         \* macOS: the value of an entry that cannot be decoded
    Trimmed, CommandLength, commandLimit, MaxCalls,
    Units, Blob, Unusable,                              \* Windows
    maxCredentialBlobBytes, maxGenericTargetUnits, maxUsernameUnits, NativeErrors,
    SizeOf, userKeyPayloadLimit, Errnos                 \* the kernel keyring

\* "unsupported" is the Keyring of a platform without a native store.
Backends == {"keychain", "windows-credential-manager", "unsupported", "kernel-keyring", "custom"}

ASSUME OpenedKeyringAssumption ==
    /\ None \notin Keys \cup Values \cup Threads
    /\ Opened \subseteq Backends
    /\ KeysOf \in [Backends -> SUBSET Keys] /\ ValuesOf \in [Backends -> SUBSET Values]
    /\ Unreadable \notin Values \cup {None}
    /\ None \notin [form : {"base64", "hex", "plain", "undecodable"}, val : Values]
    /\ Trimmed \in [Values -> Values] /\ CommandLength \in [Values -> Nat]
    /\ commandLimit \in Nat /\ MaxCalls \in Nat
    /\ KeysOf["windows-credential-manager"] \subseteq Seq(Units) \X Seq(Units) /\ ":" \in Units
    /\ Blob \in [Values -> Nat]
    /\ {maxCredentialBlobBytes, maxGenericTargetUnits, maxUsernameUnits} \subseteq Nat
    /\ NativeErrors \subseteq {"username", "denied", "logon", "other"}
    /\ SizeOf \in [Values -> Nat] /\ userKeyPayloadLimit \in Nat \ {0}
    /\ Errnos \subseteq {"EPERM", "ENOSYS", "other"}

VARIABLES
    backend,                    \* the backend that was opened
    store,                      \* what it stores
    pc, req, frame,             \* the calls of its goroutines
    ctx, orphans, calls,        \* of the keychain
    session,                    \* of the kernel keyring
    service, failing, locked    \* of the fake

macVars == <<ctx, orphans, calls>>
fakeVars == <<service, failing, locked>>
vars == <<backend, store, pc, req, frame, macVars, session, fakeVars>>

Mac == INSTANCE MacKeychain WITH
    Keys <- KeysOf["keychain"], Values <- ValuesOf["keychain"], keychain <- store
Windows == INSTANCE WindowsCredentials WITH
    Keys <- KeysOf["windows-credential-manager"],
    Values <- ValuesOf["windows-credential-manager"], credentials <- store
Kernel == INSTANCE KernelKeyring WITH
    Keys <- KeysOf["kernel-keyring"], Values <- ValuesOf["kernel-keyring"], payload <- store
Fake == INSTANCE FakeKeyring WITH
    Keys <- KeysOf["custom"], Values <- ValuesOf["custom"], storage <- store, answer <- frame
NoNative == INSTANCE NoKeyring WITH
    Keys <- KeysOf["unsupported"], Values <- ValuesOf["unsupported"], res <- frame

-----------------------------------------------------------------------------
MacAtRest == ctx = [t \in Threads |-> "live"] /\ orphans = EmptyBag /\ calls = 0
KernelAtRest == session = "live"
FakeAtRest == service = "" /\ failing = FALSE /\ locked = [write |-> {}, read |-> {}]

Init ==
    /\ backend \in Opened
    /\ \/ backend = "keychain" /\ Mac!Init /\ KernelAtRest /\ FakeAtRest
       \/ backend = "windows-credential-manager" /\ Windows!Init
            /\ MacAtRest /\ KernelAtRest /\ FakeAtRest
       \/ backend = "kernel-keyring" /\ Kernel!Init /\ MacAtRest /\ FakeAtRest
       \/ backend = "custom" /\ Fake!Init /\ MacAtRest /\ KernelAtRest
       \/ backend = "unsupported" /\ NoNative!Init /\ store = None
            /\ MacAtRest /\ KernelAtRest /\ FakeAtRest

DelegateToKeychain ==
    backend = "keychain" /\ Mac!Next /\ UNCHANGED <<backend, session, fakeVars>>
DelegateToWindows ==
    backend = "windows-credential-manager" /\ Windows!Next
        /\ UNCHANGED <<backend, macVars, session, fakeVars>>
DelegateToKernel ==
    backend = "kernel-keyring" /\ Kernel!Next /\ UNCHANGED <<backend, macVars, fakeVars>>
DelegateToCustom ==
    backend = "custom" /\ Fake!Next /\ UNCHANGED <<backend, macVars, session>>
Refuse ==
    backend = "unsupported" /\ NoNative!Next
        /\ UNCHANGED <<backend, store, macVars, session, fakeVars>>

Next ==
    \/ DelegateToKeychain
    \/ DelegateToWindows
    \/ DelegateToKernel
    \/ DelegateToCustom
    \/ Refuse

Spec == Init /\ [][Next]_vars

\* The goroutines run and the kernel answers system calls; the security command
\* may wait for the user for ever.
Client(t) ==
    \/ backend = "keychain" /\ Mac!Client(t) /\ UNCHANGED <<backend, session, fakeVars>>
    \/ backend = "kernel-keyring" /\ Kernel!Answers(t) /\ UNCHANGED <<backend, macVars, fakeVars>>

FairSpec == Spec /\ \A t \in Threads : WF_vars(Client(t))

-----------------------------------------------------------------------------
(* What the opened Keyringer promises.                                       *)

Denoted(k) ==
    IF k \notin KeysOf[backend] THEN None
    ELSE CASE backend = "keychain"                   -> Mac!Value(store[k])
           [] backend = "windows-credential-manager" -> Windows!Entry(k)
           [] backend = "kernel-keyring"             -> store[k]
           [] backend = "custom"                     -> store[<<Fake!Named, k>>]
           [] backend = "unsupported"                -> None

PhaseOf ==
    CASE backend = "keychain"                   -> Mac!PhaseOf
      [] backend = "windows-credential-manager" -> Windows!PhaseOf
      [] backend = "kernel-keyring"             -> Kernel!PhaseOf
      [] backend = "custom"                     -> Fake!PhaseOf
      [] backend = "unsupported"                -> NoNative!PhaseOf

AnswerOf ==
    CASE backend = "keychain"                   -> Mac!AnswerOf
      [] backend = "windows-credential-manager" -> Windows!AnswerOf
      [] backend = "kernel-keyring"             -> Kernel!AnswerOf
      [] backend = "custom"                     -> Fake!AnswerOf
      [] backend = "unsupported"                -> [t \in Threads |-> None]

Contract == INSTANCE RemoteContract WITH
    Values <- Values \cup {Unreadable}, store <- [k \in Keys |-> Denoted(k)],
    phase <- PhaseOf, call <- req, answer <- AnswerOf,
    late <- orphans, volatile <- (backend = "kernel-keyring")

\* Whatever Open has returned is one linearizable map: with security commands
\* that are killed and take effect late, with keys that other goroutines replace,
\* grow and unlink between two system calls, and with credentials whose targets
\* are joined from two names (keyring.go: Get, Set, Delete).
ImplementsRemoteContract == Contract!RemoteContractSpec

\* WindowsCredentials.ServicesAreApart, of the opened Keyringer: a service never
\* changes what another service's keys denote (client.go: validatedTarget).
ServicesAreApart ==
    [][backend = "windows-credential-manager" => Windows!OnlyNamedChange]_vars

\* FakeKeyring.MapIsNotRaced: nobody reads the fake's map while it is written to
\* (fake/keyring.go: Get, Set, Delete).
MapIsNotRaced == backend = "custom" => Fake!MapIsNotRaced

\* Every operation on the kernel keyring returns: Get does not chase a payload
\* that others replace for ever (keyring_linux.go: readKeyContents).
OperationReturns ==
    \A t \in Threads : backend = "kernel-keyring" /\ pc[t] # "idle" ~> pc[t] = "idle"

\* Once its context has ended an operation on the keychain returns, even if
\* security waits for the user (client.go: runCommand).
EndedReturns == \A t \in Threads : ctx[t] = "ended" ~> pc[t] = "idle"
=============================================================================
