------------------------ MODULE OpenedKeyringProofs ------------------------
(***************************************************************************)
(* Proofs about OpenedKeyring, for every set of goroutines, keys, values   *)
(* and limits: the mutex of the fake keyring covers every use of its map,  *)
(* Windows services without a colon never share a credential, and the      *)
(* Keyringer that Open has returned implements RemoteContract, whichever   *)
(* backend is behind it.                                                   *)
(***************************************************************************)
EXTENDS OpenedKeyring, BagLemmas

-----------------------------------------------------------------------------
(* The fake keyring.                                                         *)

FakeLabels == {"idle", "init", "lock", "use", "delete", "return"}

\* Who uses the map holds the mutex in the mode its operation calls for, and
\* nobody holds it with a writer.
MutexInv ==
    /\ pc \in [Threads -> FakeLabels]
    /\ req \in [Threads -> Fake!Requests \cup {Fake!NoRequest}]
    /\ locked = [write |-> locked.write, read |-> locked.read]
    /\ \A t \in Threads : pc[t] \in {"use", "delete"} =>
          IF req[t].op = "get" THEN t \in locked.read ELSE t \in locked.write
    /\ \A t \in locked.write : locked.write = {t} /\ locked.read = {}

LEMMA FakeCallInv ==
  ASSUME MutexInv, NEW t \in Threads, Fake!Call(t)
  PROVE  MutexInv'
  <1>1. PICK q \in Fake!Requests : req' = [req EXCEPT ![t] = q]
    BY DEF Fake!Call
  <1>2. pc[t] = "idle" /\ pc' \in {[pc EXCEPT ![t] = "init"], [pc EXCEPT ![t] = "return"]}
    BY DEF Fake!Call, Fake!Go
  <1>3. locked' = locked
    BY DEF Fake!Call
  <1> QED BY <1>1, <1>2, <1>3 DEF MutexInv, FakeLabels

LEMMA FakeLockInv ==
  ASSUME MutexInv, NEW t \in Threads, Fake!Lock(t)
  PROVE  MutexInv'
  <1>1. pc' = [pc EXCEPT ![t] = "use"] /\ req' = req /\ locked.write = {}
    BY DEF Fake!Lock, Fake!Go
  <1>2. CASE req[t].op = "get"
    <2>1. locked'.write = {} /\ locked'.read = locked.read \cup {t}
          /\ locked' = [write |-> locked'.write, read |-> locked'.read]
      BY <1>1, <1>2 DEF Fake!Lock, Fake!ForReading, MutexInv
    <2> QED BY <1>1, <1>2, <2>1 DEF MutexInv, FakeLabels
  <1>3. CASE req[t].op # "get"
    <2>1. locked.read = {} /\ locked'.write = {t} /\ locked'.read = {}
          /\ locked' = [write |-> locked'.write, read |-> locked'.read]
      BY <1>1, <1>3 DEF Fake!Lock, Fake!ForReading, MutexInv
    <2> QED BY <1>1, <1>3, <2>1 DEF MutexInv, FakeLabels
  <1> QED BY <1>2, <1>3

LEMMA FakeUseInv ==
  ASSUME MutexInv, NEW t \in Threads, Fake!Use(t)
  PROVE  MutexInv'
  <1>1. pc[t] \in {"use", "delete"} /\ UNCHANGED <<locked, req>>
        /\ pc' \in {[pc EXCEPT ![t] = "return"], [pc EXCEPT ![t] = "delete"]}
    BY DEF Fake!Use, Fake!Go
  <1> QED BY <1>1 DEF MutexInv, FakeLabels

LEMMA FakeReturnInv ==
  ASSUME MutexInv, NEW t \in Threads, Fake!Return(t)
  PROVE  MutexInv'
  <1>1. pc[t] = "return" /\ pc' = [pc EXCEPT ![t] = "idle"]
        /\ req' = [req EXCEPT ![t] = Fake!NoRequest]
        /\ locked' = [write |-> locked.write \ {t}, read |-> locked.read \ {t}]
    BY DEF Fake!Return, Fake!Go
  <1> QED BY <1>1 DEF MutexInv, FakeLabels

LEMMA FakeNextInv ==
  ASSUME MutexInv, Fake!Next
  PROVE  MutexInv'
  <1>1. ASSUME NEW t \in Threads, Fake!InitFields(t) PROVE MutexInv'
    <2>1. pc[t] = "init" /\ pc' = [pc EXCEPT ![t] = "lock"] /\ UNCHANGED <<locked, req>>
      BY <1>1 DEF Fake!InitFields, Fake!Go
    <2> QED BY <2>1 DEF MutexInv, FakeLabels
  <1>2. CASE Fake!SetErr
    BY <1>2 DEF Fake!SetErr, MutexInv
  <1> QED BY <1>1, <1>2, FakeCallInv, FakeLockInv, FakeUseInv, FakeReturnInv
       DEF Fake!Next, Fake!Step

-----------------------------------------------------------------------------
(* Windows Credential Manager.                                               *)

WindowsProofs == INSTANCE WindowsCredentialsProofs WITH
    Keys <- KeysOf["windows-credential-manager"],
    Values <- ValuesOf["windows-credential-manager"], credentials <- store

\* The assumption of Keyringer, for this instance.
LEMMA WindowsConstants ==
  None \notin KeysOf["windows-credential-manager"] \cup ValuesOf["windows-credential-manager"]
                \cup Threads
  BY OpenedKeyringAssumption DEF Backends

\* The services that are used on Windows have no colon.
WindowsServicesArePlain ==
    \A k \in KeysOf["windows-credential-manager"] : \A i \in 1..Len(k[1]) : k[1][i] # ":"

\* Both instances of WindowsCredentials say the same.
LEMMA SameWindows ==
  /\ Windows!Init = WindowsProofs!Init
  /\ Windows!Next = WindowsProofs!Next
  /\ Windows!OnlyNamedChange = WindowsProofs!OnlyNamedChange
  BY DEF Windows!Init, WindowsProofs!Init, Windows!Next, WindowsProofs!Next,
     Windows!vars, WindowsProofs!vars, Windows!Call, WindowsProofs!Call, Windows!Native,
     WindowsProofs!Native, Windows!Return, WindowsProofs!Return, Windows!Go,
     WindowsProofs!Go, Windows!target, WindowsProofs!target, Windows!Usable,
     WindowsProofs!Usable, Windows!Valid, WindowsProofs!Valid, Windows!Targets,
     WindowsProofs!Targets, Windows!Entry, WindowsProofs!Entry, Windows!Fitting,
     WindowsProofs!Fitting, Windows!TooLarge, WindowsProofs!TooLarge, Windows!Missing,
     WindowsProofs!Missing, Windows!operationError, WindowsProofs!operationError,
     Windows!OnlyNamedChange, WindowsProofs!OnlyNamedChange, Windows!NewFrame,
     WindowsProofs!NewFrame, Windows!Requests, WindowsProofs!Requests, Windows!NoRequest,
     WindowsProofs!NoRequest

-----------------------------------------------------------------------------
(* The opened Keyringer.                                                     *)

OpenedInv ==
    /\ backend = "custom" => MutexInv
    /\ backend = "windows-credential-manager" => WindowsProofs!WInv

LEMMA OpenedInitInv == Init => OpenedInv
  <1> SUFFICES ASSUME Init PROVE OpenedInv
    OBVIOUS
  <1>1. CASE backend = "custom"
    <2>1. Fake!Init
      BY <1>1 DEF Init
    <2> QED BY <1>1, <2>1 DEF OpenedInv, MutexInv, FakeLabels, Fake!Init
  <1>2. CASE backend = "windows-credential-manager"
    <2>1. WindowsProofs!Init
      BY <1>2, SameWindows DEF Init
    <2> QED BY <1>2, <2>1, WindowsConstants, WindowsProofs!WindowsInitInv DEF OpenedInv
  <1> QED BY <1>1, <1>2 DEF OpenedInv

\* The backend stays, and only it takes steps.
LEMMA BackendSteps ==
  ASSUME [Next]_vars
  PROVE  /\ backend' = backend
         /\ backend = "custom" => Fake!Next \/ UNCHANGED <<pc, req, locked>>
         /\ backend = "windows-credential-manager" =>
               [WindowsProofs!Next]_(WindowsProofs!vars)
  <1>1. CASE UNCHANGED vars
    BY <1>1 DEF vars, fakeVars, WindowsProofs!vars
  <1>2. CASE Next
    BY <1>2, SameWindows DEF Next, DelegateToKeychain, DelegateToWindows, DelegateToKernel,
       DelegateToCustom, Refuse
  <1> QED BY <1>1, <1>2

LEMMA OpenedNextInv == OpenedInv /\ [Next]_vars => OpenedInv'
  <1> SUFFICES ASSUME OpenedInv, [Next]_vars PROVE OpenedInv'
    OBVIOUS
  <1>1. ASSUME backend = "custom" PROVE MutexInv'
    <2>1. CASE Fake!Next
      BY <1>1, <2>1, FakeNextInv DEF OpenedInv
    <2>2. CASE UNCHANGED <<pc, req, locked>>
      BY <1>1, <2>2 DEF OpenedInv, MutexInv
    <2> QED BY <1>1, <2>1, <2>2, BackendSteps
  <1>2. ASSUME backend = "windows-credential-manager" PROVE WindowsProofs!WInv'
    BY <1>2, BackendSteps, WindowsConstants, WindowsProofs!WindowsNextInv DEF OpenedInv
  <1> QED BY <1>1, <1>2, BackendSteps DEF OpenedInv

\* Nobody reads the fake's map while it is written to, for any number of
\* goroutines: every operation holds the mutex in its mode while it uses the
\* map (fake/keyring.go: Get, Set, Delete).
THEOREM FakeMapIsNotRaced == Spec => []MapIsNotRaced
  <1>1. OpenedInv => MapIsNotRaced
    BY DEF OpenedInv, MutexInv, MapIsNotRaced, Fake!MapIsNotRaced
  <1> QED BY <1>1, OpenedInitInv, OpenedNextInv, PTL DEF Spec

\* On Windows a service never changes what another service's keys denote, as
\* long as no service has a colon: the service of a target ends with the first
\* one (client.go: validatedTarget).
THEOREM OpenedServicesAreApart ==
  ASSUME WindowsServicesArePlain
  PROVE  Spec => ServicesAreApart
  <1>1. WindowsProofs!PlainServices
    BY OpenedKeyringAssumption DEF WindowsServicesArePlain, WindowsProofs!PlainServices,
       WindowsProofs!NoColon
  <1>2. OpenedInv /\ [Next]_vars =>
          [backend = "windows-credential-manager" => Windows!OnlyNamedChange]_vars
    BY <1>1, BackendSteps, SameWindows, WindowsConstants, WindowsProofs!NamedChange DEF OpenedInv
  <1> QED BY <1>2, OpenedInitInv, OpenedNextInv, PTL DEF Spec, ServicesAreApart

-----------------------------------------------------------------------------
(* Steps of the contract, as changes of what each goroutine and each key     *)
(* shows.                                                                    *)

\* What every key denotes.
Shown == [k \in Keys |-> Denoted(k)]

\* A step of the contract, or none.
Implemented == [Contract!RemoteNext]_(Contract!remoteVars)

\* No backend of the composition is another, and the bag of late requests is one.
Composed == backend \in Backends /\ IsABag(orphans)

LEMMA InstanceFacts ==
  ASSUME NEW b \in Backends
  PROVE  /\ KeysOf[b] \subseteq Keys /\ ValuesOf[b] \subseteq Values
         /\ None \notin Keys /\ None \notin Values /\ None # Unreadable
         /\ \A q \in [op : {"get", "delete"}, key : KeysOf[b], val : {None}]
                       \cup [op : {"set"}, key : KeysOf[b], val : ValuesOf[b]] :
               /\ q \in Contract!Requests
               /\ q.op \in {"get", "set", "delete"} /\ q.key \in KeysOf[b]
               /\ q.val \in ValuesOf[b] \cup {None}
               /\ q.op = "set" => q.val \in ValuesOf[b]
               /\ q.op # "set" => q.val = None
  <1>1. /\ KeysOf[b] \subseteq Keys /\ ValuesOf[b] \subseteq Values
        /\ None \notin Keys /\ None \notin Values /\ None # Unreadable
    BY OpenedKeyringAssumption
  <1> QED BY <1>1 DEF Contract!Requests

LEMMA ContractFacts ==
  ASSUME NEW A, NEW B
  PROVE  /\ Contract!\sqsubseteq(A, B) <=> A \sqsubseteq B
         /\ Contract!(+)(A, B) = A (+) B /\ Contract!(-)(A, B) = A (-) B
         /\ Contract!SetToBag(A) = SetToBag(A) /\ Contract!BagToSet(A) = BagToSet(A)
         /\ Contract!EmptyBag = EmptyBag
         /\ Contract!NoRequest = [op |-> "none", key |-> None, val |-> None]
  <1>1. Contract!\sqsubseteq(A, B) <=> A \sqsubseteq B
    BY Zenon DEF Contract!\sqsubseteq, \sqsubseteq
  <1>2. Contract!(+)(A, B) = A (+) B
    BY Zenon DEF Contract!(+), (+)
  <1>3. Contract!(-)(A, B) = A (-) B
    BY Zenon DEF Contract!(-), (-)
  <1>4. Contract!SetToBag(A) = SetToBag(A) /\ Contract!BagToSet(A) = BagToSet(A)
    BY Zenon DEF Contract!SetToBag, SetToBag, Contract!BagToSet, BagToSet
  <1>5. Contract!EmptyBag = EmptyBag
    BY Zenon DEF Contract!EmptyBag, EmptyBag, Contract!SetToBag, SetToBag
  <1>6. Contract!NoRequest = [op |-> "none", key |-> None, val |-> None]
    BY DEF Contract!NoRequest
  <1> QED BY <1>1, <1>2, <1>3, <1>4, <1>5, <1>6

\* The mapping, backend by backend.
LEMMA Mapping ==
  /\ backend = "keychain" => PhaseOf = Mac!PhaseOf /\ AnswerOf = Mac!AnswerOf
  /\ backend = "windows-credential-manager" =>
        PhaseOf = Windows!PhaseOf /\ AnswerOf = Windows!AnswerOf
  /\ backend = "kernel-keyring" => PhaseOf = Kernel!PhaseOf /\ AnswerOf = Kernel!AnswerOf
  /\ backend = "custom" => PhaseOf = Fake!PhaseOf /\ AnswerOf = Fake!AnswerOf
  /\ backend = "unsupported" =>
        PhaseOf = NoNative!PhaseOf /\ AnswerOf = [t \in Threads |-> None]
  BY DEF PhaseOf, AnswerOf

\* Every goroutine has a phase and an answer.
Functional ==
    /\ PhaseOf = [t \in Threads |-> PhaseOf[t]]
    /\ AnswerOf = [t \in Threads |-> AnswerOf[t]]

LEMMA MappedFunctions == backend \in Backends => Functional
  <1> SUFFICES ASSUME backend \in Backends PROVE Functional
    OBVIOUS
  <1> USE DEF Functional
  <1>1. CASE backend = "keychain"
    BY <1>1, Mapping DEF Mac!PhaseOf, Mac!AnswerOf
  <1>2. CASE backend = "windows-credential-manager"
    BY <1>2, Mapping DEF Windows!PhaseOf, Windows!AnswerOf
  <1>3. CASE backend = "kernel-keyring"
    BY <1>3, Mapping DEF Kernel!PhaseOf, Kernel!AnswerOf
  <1>4. CASE backend = "custom"
    BY <1>4, Mapping DEF Fake!PhaseOf, Fake!AnswerOf
  <1>5. CASE backend = "unsupported"
    BY <1>5, Mapping DEF NoNative!PhaseOf
  <1> QED BY <1>1, <1>2, <1>3, <1>4, <1>5 DEF Backends

\* t comes to phase p with answer a; the others stay.
Moves(t, p, a) ==
    \A u \in Threads : /\ PhaseOf'[u] = IF u = t THEN p ELSE PhaseOf[u]
                       /\ AnswerOf'[u] = IF u = t THEN a ELSE AnswerOf[u]

\* Nobody moves.
Rests == \A u \in Threads : PhaseOf'[u] = PhaseOf[u] /\ AnswerOf'[u] = AnswerOf[u]

\* t moves to p with answer a, and T finds that its key is gone.
MovesMissing(t, T, a) ==
    \A u \in Threads :
        /\ PhaseOf'[u] = IF u \in T \cup {t} THEN "applied" ELSE PhaseOf[u]
        /\ AnswerOf'[u] = IF u \in T THEN "notfound" ELSE IF u = t THEN a ELSE AnswerOf[u]

\* Every key denotes what it did.
Kept == \A k \in Keys : Denoted(k)' = Denoted(k)

\* The key of q comes to denote its value.
Put(q) == \A k \in Keys : Denoted(k)' = IF k = q.key THEN q.val ELSE Denoted(k)

LEMMA PrimedMapping ==
  ASSUME backend \in Backends, backend' = backend
  PROVE  Functional'
  <1>1. (backend \in Backends)' => Functional'
    BY MappedFunctions, PTL
  <1> QED BY <1>1 DEF Backends

LEMMA KeptStore ==
  ASSUME Kept
  PROVE  Shown' = Shown
  BY DEF Kept, Shown

LEMMA PutStore ==
  ASSUME NEW q, Put(q)
  PROVE  Shown' = [Shown EXCEPT ![q.key] = q.val]
  BY DEF Put, Shown

\* A step that shows nothing.
LEMMA Stutters ==
  ASSUME Composed, backend' = backend, Rests, Kept, UNCHANGED <<req, orphans>>
  PROVE  Implemented
  <1>1. PhaseOf' = PhaseOf /\ AnswerOf' = AnswerOf
    BY MappedFunctions, PrimedMapping DEF Composed, Functional, Rests
  <1> QED BY <1>1, KeptStore DEF Implemented, Contract!remoteVars, Contract!contractVars, Shown

LEMMA Calls ==
  ASSUME Composed, backend' = backend, NEW t \in Threads, NEW p \in {"called", "failed"},
         PhaseOf[t] = "idle", AnswerOf[t] = None, Moves(t, p, None), Kept, orphans' = orphans,
         NEW q \in Contract!Requests, req' = [req EXCEPT ![t] = q]
  PROVE  Implemented
  <1>1. PhaseOf' = [PhaseOf EXCEPT ![t] = p] /\ AnswerOf' = AnswerOf
    BY MappedFunctions, PrimedMapping DEF Composed, Functional, Moves
  <1>2. Contract!Call(t)
    BY <1>1, KeptStore DEF Contract!Call, Shown
  <1> QED BY <1>2 DEF Implemented, Contract!RemoteNext

LEMMA Returns ==
  ASSUME Composed, backend' = backend, NEW t \in Threads,
         PhaseOf[t] \in {"applied", "failed"}, Moves(t, "idle", None), Kept, orphans' = orphans,
         req' = [req EXCEPT ![t] = [op |-> "none", key |-> None, val |-> None]]
  PROVE  Implemented
  <1>1. PhaseOf' = [PhaseOf EXCEPT ![t] = "idle"] /\ AnswerOf' = [AnswerOf EXCEPT ![t] = None]
    BY MappedFunctions, PrimedMapping DEF Composed, Functional, Moves
  <1>2. Contract!Return(t)
    BY <1>1, KeptStore, ContractFacts DEF Contract!Return, Shown
  <1> QED BY <1>2 DEF Implemented, Contract!RemoteNext

LEMMA Fails ==
  ASSUME Composed, backend' = backend, NEW t \in Threads,
         PhaseOf[t] \in {"called", "applied"}, Moves(t, "failed", None), Kept, req' = req,
         orphans' \in {orphans, IF PhaseOf[t] = "called" /\ req[t].op # "get"
                                THEN orphans (+) SetToBag({req[t]}) ELSE orphans}
  PROVE  Implemented
  <1>1. PhaseOf' = [PhaseOf EXCEPT ![t] = "failed"] /\ AnswerOf' = [AnswerOf EXCEPT ![t] = None]
    BY MappedFunctions, PrimedMapping DEF Composed, Functional, Moves
  <1>2. Contract!Fail(t)
    BY <1>1, KeptStore DEF Contract!Fail, Shown
  <1>3. /\ orphans \sqsubseteq orphans /\ orphans \sqsubseteq orphans (+) SetToBag({req[t]})
        /\ orphans (+) SetToBag({req[t]}) \sqsubseteq orphans (+) SetToBag({req[t]})
    BY OneMore, BagReflexive DEF Composed
  <1>4. orphans' \sqsubseteq IF PhaseOf[t] = "called" /\ req[t].op # "get"
                             THEN orphans (+) SetToBag({req[t]}) ELSE orphans
    BY <1>3
  <1>5. Contract!RemoteFail(t)
    BY <1>2, <1>4, ContractFacts DEF Contract!RemoteFail
  <1> QED BY <1>5 DEF Implemented, Contract!RemoteNext

\* An operation takes effect, and operations of T find their key gone.
LEMMA Takes ==
  ASSUME Composed, backend' = backend, NEW t \in Threads, NEW T \in SUBSET Threads, t \notin T,
         PhaseOf[t] = "called", UNCHANGED <<req, orphans>>, req[t].key \in Keys,
         \A u \in T : PhaseOf[u] = "called" /\ req[u].op # "set"
                      /\ req[t].op = "delete" /\ req[u].key = req[t].key,
         IF req[t].op = "get" THEN Kept ELSE Put(req[t]),
         MovesMissing(t, T, IF req[t].op # "set" /\ Denoted(req[t].key) = None THEN "notfound"
                            ELSE IF req[t].op = "get" THEN Denoted(req[t].key) ELSE "ok")
  PROVE  Implemented
  <1> DEFINE q == req[t]
             a == IF q.op # "set" /\ Shown[q.key] = None THEN "notfound"
                  ELSE IF q.op = "get" THEN Shown[q.key] ELSE "ok"
  <1>1. Shown[q.key] = Denoted(q.key)
    BY DEF Shown
  <1>2. PhaseOf' = [u \in Threads |-> IF u \in T \cup {t} THEN "applied" ELSE PhaseOf[u]]
    BY MappedFunctions, PrimedMapping DEF Composed, Functional, MovesMissing
  <1>3. AnswerOf' = [u \in Threads |-> IF u \in T THEN "notfound"
                                       ELSE IF u # t THEN AnswerOf[u] ELSE a]
    <2>1. MovesMissing(t, T, a)
      BY <1>1
    <2> HIDE DEF a
    <2> QED BY <2>1, MappedFunctions, PrimedMapping DEF Composed, Functional, MovesMissing
  <1>4. Shown' = IF q.op = "get" THEN Shown ELSE [Shown EXCEPT ![q.key] = q.val]
    BY KeptStore, PutStore
  <1>5. Contract!Miss(T, q)
    BY DEF Contract!Miss, Contract!MissAny
  <1>6. Contract!\sqsubseteq(orphans', orphans)
    BY BagReflexive, ContractFacts DEF Composed
  <1>7. Contract!RemoteTake(t, T)
    BY <1>2, <1>3, <1>4, <1>5, <1>6 DEF Contract!RemoteTake, Shown
  <1> QED BY <1>7 DEF Implemented, Contract!RemoteNext

\* What a killed command had asked for takes effect.
LEMMA TakesLate ==
  ASSUME Composed, backend' = backend, NEW q \in BagToSet(orphans), Rests, Put(q),
         req' = req, orphans' = orphans (-) SetToBag({q})
  PROVE  Implemented
  <1>1. PhaseOf' = [u \in Threads |-> PhaseOf[u]] /\ AnswerOf' = [u \in Threads |-> AnswerOf[u]]
    BY MappedFunctions, PrimedMapping DEF Composed, Functional, Rests
  <1>2. Contract!\sqsubseteq(orphans', Contract!(-)(orphans, Contract!SetToBag({q})))
    <2>1. IsABag(orphans') /\ orphans' \sqsubseteq orphans'
      BY OneLess, BagReflexive DEF Composed
    <2> QED BY <2>1, ContractFacts
  <1>3. Contract!Miss({}, q)
    BY DEF Contract!Miss, Contract!MissAny
  <1>4. Shown' = [Shown EXCEPT ![q.key] = q.val]
    BY PutStore
  <1>5. Contract!TakeLate(q, {})
    BY <1>1, <1>2, <1>3, <1>4 DEF Contract!TakeLate, Shown
  <1>6. {} \in SUBSET Threads /\ q \in Contract!BagToSet(orphans)
    BY ContractFacts
  <1> QED BY <1>5, <1>6 DEF Implemented, Contract!RemoteNext

\* What a killed command had asked for is lost.
LEMMA LosesLate ==
  ASSUME Composed, backend' = backend, NEW q \in BagToSet(orphans), Rests, Kept,
         req' = req, orphans' = orphans (-) SetToBag({q})
  PROVE  Implemented
  <1>1. PhaseOf' = PhaseOf /\ AnswerOf' = AnswerOf
    BY MappedFunctions, PrimedMapping DEF Composed, Functional, Rests
  <1>2. Contract!\sqsubseteq(orphans', orphans)
    BY OneLess, ContractFacts DEF Composed
  <1>3. UNCHANGED Contract!contractVars
    BY <1>1, KeptStore DEF Contract!contractVars, Shown
  <1> QED BY <1>2, <1>3 DEF Implemented, Contract!RemoteNext

\* The keys of a volatile store go, and operations of T find that theirs has.
LEMMA Vanishes ==
  ASSUME Composed, backend' = backend, backend = "kernel-keyring",
         NEW T \in SUBSET Threads, UNCHANGED <<req, orphans>>,
         \A u \in T : PhaseOf[u] = "called" /\ req[u].op # "set" /\ req[u].key \in Keys,
         \A k \in Keys : Denoted(k)' = None,
         \A u \in Threads : /\ PhaseOf'[u] = IF u \in T THEN "applied" ELSE PhaseOf[u]
                            /\ AnswerOf'[u] = IF u \in T THEN "notfound" ELSE AnswerOf[u]
  PROVE  Implemented
  <1>1. /\ PhaseOf' = [u \in Threads |-> IF u \in T THEN "applied" ELSE PhaseOf[u]]
        /\ AnswerOf' = [u \in Threads |-> IF u \in T THEN "notfound" ELSE AnswerOf[u]]
    BY MappedFunctions, PrimedMapping DEF Composed, Functional
  <1>2. Shown' = [k \in Keys |-> IF k \in Keys THEN None ELSE Shown[k]]
    BY DEF Shown
  <1>3. Contract!MissAny(T, Keys)
    BY DEF Contract!MissAny
  <1>4. Contract!Vanish(Keys, T)
    BY <1>1, <1>2, <1>3 DEF Contract!Vanish, Shown
  <1> QED BY <1>4 DEF Implemented, Contract!RemoteNext

-----------------------------------------------------------------------------
(* The Keyring of a platform without a native store.                         *)

RefusedInv == pc \in [Threads -> {"idle", "return"}]

\* What is to be seen of the backend.
RefusedView ==
    /\ \A t \in Threads : /\ PhaseOf[t] = IF pc[t] = "idle" THEN "idle" ELSE "failed"
                          /\ AnswerOf[t] = None
    /\ \A k \in Keys : Denoted(k) = None

LEMMA RefusedIsSeen == backend = "unsupported" => RefusedView
  BY Mapping DEF NoNative!PhaseOf, Denoted, RefusedView

LEMMA RefusedViews ==
  ASSUME backend = "unsupported", backend' = backend
  PROVE  RefusedView /\ RefusedView'
  <1>1. (backend = "unsupported")' => RefusedView'
    BY RefusedIsSeen, PTL
  <1> QED BY <1>1, RefusedIsSeen

LEMMA RefusedSound ==
  ASSUME Composed, backend = "unsupported", RefusedInv, Refuse
  PROVE  RefusedInv' /\ Implemented
  <1>1. backend' = backend /\ orphans' = orphans
    BY DEF Refuse, macVars
  <1>2. Kept
    BY <1>1, RefusedViews DEF RefusedView, Kept
  <1>3. ASSUME NEW t \in Threads, NoNative!Call(t) PROVE RefusedInv' /\ Implemented
    <2>1. PICK q \in NoNative!Requests : req' = [req EXCEPT ![t] = q]
      BY <1>3 DEF NoNative!Call
    <2>2. q \in Contract!Requests
      BY InstanceFacts DEF NoNative!Requests, Backends
    <2>3. pc[t] = "idle" /\ pc' = [pc EXCEPT ![t] = "return"]
      BY <1>3 DEF NoNative!Call
    <2>4. PhaseOf[t] = "idle" /\ AnswerOf[t] = None /\ Moves(t, "failed", None)
      BY <1>1, <2>3, RefusedViews DEF RefusedView, Moves, RefusedInv
    <2>5. Implemented
      BY <1>1, <1>2, <2>1, <2>2, <2>4, Calls
    <2> QED BY <2>3, <2>5 DEF RefusedInv
  <1>4. ASSUME NEW t \in Threads, NoNative!Return(t) PROVE RefusedInv' /\ Implemented
    <2>1. /\ pc[t] = "return" /\ pc' = [pc EXCEPT ![t] = "idle"]
          /\ req' = [req EXCEPT ![t] = [op |-> "none", key |-> None, val |-> None]]
      BY <1>4 DEF NoNative!Return, NoNative!NoRequest
    <2>2. PhaseOf[t] = "failed" /\ Moves(t, "idle", None)
      BY <1>1, <2>1, RefusedViews DEF RefusedView, Moves, RefusedInv
    <2>3. Implemented
      BY <1>1, <1>2, <2>1, <2>2, Returns
    <2> QED BY <2>1, <2>3 DEF RefusedInv
  <1> QED BY <1>3, <1>4 DEF Refuse, NoNative!Next
-----------------------------------------------------------------------------
(* The fake keyring, as a map.                                               *)

\* Between init and Return the service has its name, and who is about to delete an
\* entry has seen it.
FakeInv ==
    /\ MutexInv
    /\ store \in [Fake!Services \X KeysOf["custom"] -> ValuesOf["custom"] \cup {None}]
    /\ service \in Fake!Services
    /\ frame \in [Threads -> ValuesOf["custom"] \cup {None, "ok", "notfound", "error"}]
    /\ \A t \in Threads :
        /\ pc[t] # "idle" => req[t] \in Fake!Requests
        /\ pc[t] \in {"lock", "use", "delete"} => service # ""
        /\ pc[t] = "delete" => req[t].op = "delete" /\ store[Fake!Key(t)] # None

FakeView ==
    /\ \A t \in Threads :
        /\ PhaseOf[t] = IF pc[t] = "idle" THEN "idle"
                        ELSE IF pc[t] # "return" THEN "called"
                        ELSE IF frame[t] = "error" THEN "failed" ELSE "applied"
        /\ AnswerOf[t] = IF PhaseOf[t] = "applied" THEN frame[t] ELSE None
    /\ \A k \in Keys :
          Denoted(k) = IF k \in KeysOf["custom"] THEN store[<<Fake!Named, k>>] ELSE None

LEMMA FakeIsSeen == backend = "custom" /\ MutexInv => FakeView
  <1> SUFFICES ASSUME backend = "custom", MutexInv PROVE FakeView
    OBVIOUS
  <1>1. \A t \in Threads : pc[t] \in FakeLabels
    BY DEF MutexInv
  <1> QED BY <1>1, Mapping DEF Fake!PhaseOf, Fake!AnswerOf, Denoted, FakeView, FakeLabels

LEMMA FakeViews ==
  ASSUME backend = "custom", backend' = backend, MutexInv, MutexInv'
  PROVE  FakeView /\ FakeView'
  <1>1. (backend = "custom")' /\ MutexInv' => FakeView'
    BY FakeIsSeen, PTL
  <1> QED BY <1>1, FakeIsSeen

\* A goroutine comes to a label with an answer.
LEMMA FakeGoes ==
  ASSUME FakeInv, MutexInv', backend = "custom", backend' = backend,
         NEW t \in Threads, NEW label \in FakeLabels, NEW a, Fake!Go(t, label, a)
  PROVE  /\ pc'[t] = label /\ frame'[t] = a
         /\ \A u \in Threads : u # t => pc'[u] = pc[u] /\ frame'[u] = frame[u]
         /\ Moves(t, IF label = "idle" THEN "idle" ELSE IF label # "return" THEN "called"
                     ELSE IF a = "error" THEN "failed" ELSE "applied",
                     IF label = "return" /\ a # "error" THEN a ELSE None)
  <1>1. /\ pc'[t] = label /\ frame'[t] = a
        /\ \A u \in Threads : u # t => pc'[u] = pc[u] /\ frame'[u] = frame[u]
    BY DEF FakeInv, MutexInv, Fake!Go
  <1>2. FakeView /\ FakeView'
    BY FakeViews DEF FakeInv
  <1>3. ASSUME NEW u \in Threads, u # t
        PROVE  PhaseOf'[u] = PhaseOf[u] /\ AnswerOf'[u] = AnswerOf[u]
    BY <1>1, <1>2, <1>3 DEF FakeView
  <1>4. /\ PhaseOf'[t] = IF label = "idle" THEN "idle" ELSE IF label # "return" THEN "called"
                         ELSE IF a = "error" THEN "failed" ELSE "applied"
        /\ AnswerOf'[t] = IF label = "return" /\ a # "error" THEN a ELSE None
    BY <1>1, <1>2 DEF FakeView
  <1> QED BY <1>1, <1>3, <1>4 DEF Moves

\* What a goroutine knows of the map stays true of the others.
LEMMA FakeGoesOn ==
  ASSUME FakeInv, MutexInv', NEW t \in Threads, NEW label \in FakeLabels,
         NEW a \in ValuesOf["custom"] \cup {None, "ok", "notfound", "error"},
         Fake!Go(t, label, a),
         store' \in [Fake!Services \X KeysOf["custom"] -> ValuesOf["custom"] \cup {None}],
         service' \in Fake!Services, service # "" => service' = service,
         \A u \in Threads : u # t => req'[u] = req[u],
         label # "idle" => req'[t] \in Fake!Requests,
         label \in {"lock", "use", "delete"} => service' # "",
         label = "delete" => req'[t].op = "delete" /\ store'[<<service', req'[t].key>>] # None,
         \A u \in Threads : u # t /\ pc[u] = "delete" => store'[Fake!Key(u)] # None
  PROVE  FakeInv'
  <1>1. /\ pc'[t] = label /\ frame'[t] = a
        /\ \A u \in Threads : u # t => pc'[u] = pc[u]
    BY DEF FakeInv, MutexInv, Fake!Go
  <1>2. frame' \in [Threads -> ValuesOf["custom"] \cup {None, "ok", "notfound", "error"}]
    BY DEF FakeInv, Fake!Go
  <1>3. ASSUME NEW u \in Threads, u # t
        PROVE  /\ pc'[u] # "idle" => req'[u] \in Fake!Requests
               /\ pc'[u] \in {"lock", "use", "delete"} => service' # ""
               /\ pc'[u] = "delete" => req'[u].op = "delete" /\ store'[Fake!Key(u)'] # None
    BY <1>1, <1>3 DEF FakeInv, Fake!Key
  <1>4. /\ pc'[t] # "idle" => req'[t] \in Fake!Requests
        /\ pc'[t] \in {"lock", "use", "delete"} => service' # ""
        /\ pc'[t] = "delete" => req'[t].op = "delete" /\ store'[Fake!Key(t)'] # None
    BY <1>1 DEF Fake!Key
  <1>5. \A u \in Threads : 
               /\ pc'[u] # "idle" => req'[u] \in Fake!Requests
               /\ pc'[u] \in {"lock", "use", "delete"} => service' # ""
               /\ pc'[u] = "delete" => req'[u].op = "delete" /\ store'[Fake!Key(u)'] # None
    BY <1>3, <1>4
  <1> QED BY <1>2, <1>5 DEF FakeInv
\* Who is about to change an entry is alone.
LEMMA FakeWriterIsAlone ==
  ASSUME MutexInv, NEW t \in Threads, NEW u \in Threads, pc[t] \in {"use", "delete"},
         req[t].op # "get", pc[u] \in {"use", "delete"}
  PROVE  u = t
  BY DEF MutexInv

LEMMA FakeRequest ==
  ASSUME FakeInv, NEW t \in Threads, pc[t] # "idle"
  PROVE  /\ req[t].key \in KeysOf["custom"] /\ req[t].key \in Keys
         /\ req[t].op \in {"get", "set", "delete"}
         /\ req[t].op = "set" => req[t].val \in ValuesOf["custom"]
         /\ req[t].op # "set" => req[t].val = None
         /\ Fake!Key(t) \in Fake!Services \X KeysOf["custom"]
         /\ Fake!Key(t) = <<service, req[t].key>>
  <1>1. req[t] \in Fake!Requests /\ service \in Fake!Services
    BY DEF FakeInv
  <1>2. KeysOf["custom"] \subseteq Keys
    BY InstanceFacts DEF Backends
  <1> QED BY <1>1, <1>2 DEF Fake!Requests, Fake!Key

LEMMA FakeCallSound ==
  ASSUME Composed, backend = "custom", FakeInv, MutexInv', NEW t \in Threads,
         DelegateToCustom, Fake!Call(t)
  PROVE  FakeInv' /\ Implemented
  <1>1. backend' = backend /\ UNCHANGED <<orphans, store, service>> /\ pc[t] = "idle"
    BY DEF DelegateToCustom, macVars, Fake!Call
  <1>2. PICK q \in Fake!Requests : req' = [req EXCEPT ![t] = q]
    BY DEF Fake!Call
  <1>3. PICK p \in {"called", "failed"}, label \in {"init", "return"}, a \in {None, "error"} :
            /\ Fake!Go(t, label, a)
            /\ IF p = "called" THEN label = "init" /\ a = None ELSE label = "return" /\ a = "error"
    BY DEF Fake!Call
  <1>4. q \in Contract!Requests
    BY InstanceFacts DEF Fake!Requests, Backends
  <1>5. req'[t] = q /\ \A u \in Threads : u # t => req'[u] = req[u]
    BY <1>2 DEF FakeInv, MutexInv
  <1>6. FakeView /\ FakeView'
    BY <1>1, FakeViews DEF FakeInv
  <1>7. Kept
    BY <1>1, <1>6 DEF FakeView, Kept, Fake!Named
  <1>8. PhaseOf[t] = "idle" /\ AnswerOf[t] = None
    BY <1>1, <1>6 DEF FakeView
  <1>9. Moves(t, p, None)
    <2>1. label \in FakeLabels
      BY DEF FakeLabels
    <2> QED BY <1>1, <1>3, <2>1, FakeGoes
  <1>10. Implemented
    BY <1>1, <1>2, <1>4, <1>7, <1>8, <1>9, Calls
  <1>11. FakeInv'
    <2>1. label \in FakeLabels
      BY DEF FakeLabels
    <2>2. \A u \in Threads : pc[u] = "delete" => store'[Fake!Key(u)] # None
      BY <1>1 DEF FakeInv
    <2> QED BY <1>1, <1>3, <1>5, <2>1, <2>2, FakeGoesOn DEF FakeInv
  <1> QED BY <1>10, <1>11
LEMMA FakeInitFieldsSound ==
  ASSUME Composed, backend = "custom", FakeInv, MutexInv', NEW t \in Threads,
         DelegateToCustom, Fake!InitFields(t)
  PROVE  FakeInv' /\ Implemented
  <1>1. /\ backend' = backend /\ UNCHANGED <<orphans, store, req>> /\ pc[t] = "init"
        /\ service' = IF service = "" THEN "fake" ELSE service
        /\ Fake!Go(t, "lock", None)
    BY DEF DelegateToCustom, macVars, Fake!InitFields, Fake!DefaultService
  <1>2. FakeView /\ FakeView'
    BY <1>1, FakeViews DEF FakeInv
  <1>3. Kept
    <2>1. Fake!Named' = Fake!Named
      BY <1>1 DEF Fake!Named
    <2> QED BY <1>1, <1>2, <2>1 DEF FakeView, Kept
  <1>4. "lock" \in FakeLabels
    BY DEF FakeLabels
  <1>5. Rests
    <2>1. PhaseOf[t] = "called" /\ AnswerOf[t] = None
      BY <1>1, <1>2 DEF FakeView
    <2>2. Moves(t, "called", None)
      BY <1>1, <1>4, FakeGoes
    <2> QED BY <2>1, <2>2 DEF Moves, Rests
  <1>6. Implemented
    BY <1>1, <1>3, <1>5, Stutters
  <1>7. FakeInv'
    <2>1. \A u \in Threads : pc[u] = "delete" => store'[Fake!Key(u)] # None
      BY <1>1 DEF FakeInv
    <2>2. service' \in Fake!Services /\ service' # ""
      BY <1>1 DEF FakeInv, Fake!Services
    <2>3. req[t] \in Fake!Requests
      BY <1>1 DEF FakeInv
    <2> QED BY <1>1, <1>4, <2>1, <2>2, <2>3, FakeGoesOn DEF FakeInv
  <1> QED BY <1>6, <1>7

LEMMA FakeLockSound ==
  ASSUME Composed, backend = "custom", FakeInv, MutexInv', NEW t \in Threads,
         DelegateToCustom, Fake!Lock(t)
  PROVE  FakeInv' /\ Implemented
  <1>1. /\ backend' = backend /\ UNCHANGED <<orphans, store, service, req>> /\ pc[t] = "lock"
        /\ Fake!Go(t, "use", None)
    BY DEF DelegateToCustom, macVars, Fake!Lock
  <1>2. FakeView /\ FakeView'
    BY <1>1, FakeViews DEF FakeInv
  <1>3. Kept
    BY <1>1, <1>2 DEF FakeView, Kept, Fake!Named
  <1>4. "use" \in FakeLabels
    BY DEF FakeLabels
  <1>5. Rests
    <2>1. PhaseOf[t] = "called" /\ AnswerOf[t] = None
      BY <1>1, <1>2 DEF FakeView
    <2>2. Moves(t, "called", None)
      BY <1>1, <1>4, FakeGoes
    <2> QED BY <2>1, <2>2 DEF Moves, Rests
  <1>6. Implemented
    BY <1>1, <1>3, <1>5, Stutters
  <1>7. FakeInv'
    <2>1. \A u \in Threads : pc[u] = "delete" => store'[Fake!Key(u)] # None
      BY <1>1 DEF FakeInv
    <2>2. req[t] \in Fake!Requests /\ service # ""
      BY <1>1 DEF FakeInv
    <2> QED BY <1>1, <1>4, <2>1, <2>2, FakeGoesOn DEF FakeInv
  <1> QED BY <1>6, <1>7

\* An operation at the map takes effect.
LEMMA FakeTakes ==
  ASSUME Composed, backend = "custom", FakeInv, MutexInv', NEW t \in Threads,
         backend' = backend, UNCHANGED <<orphans, req, service>>, pc[t] \in {"use", "delete"},
         NEW a \in ValuesOf["custom"] \cup {None, "ok", "notfound", "error"},
         Fake!Go(t, "return", a), a # "error",
         req[t].op = "get" => store' = store,
         req[t].op # "get" => store' = [store EXCEPT ![Fake!Key(t)] = req[t].val],
         a = IF req[t].op # "set" /\ store[Fake!Key(t)] = None THEN "notfound"
             ELSE IF req[t].op = "get" THEN store[Fake!Key(t)] ELSE "ok"
  PROVE  FakeInv' /\ Implemented
  <1> DEFINE q == req[t]
             e == Fake!Key(t)
  <1>1. /\ q.key \in KeysOf["custom"] /\ q.key \in Keys /\ q.op \in {"get", "set", "delete"}
        /\ q.op = "set" => q.val \in ValuesOf["custom"]
        /\ q.op # "set" => q.val = None
        /\ e \in Fake!Services \X KeysOf["custom"]
        /\ e = <<service, q.key>>
    BY FakeRequest
  <1>2. FakeView /\ FakeView'
    BY FakeViews DEF FakeInv
  <1>3. service # "" /\ Fake!Named = service /\ Fake!Named' = service
    BY DEF FakeInv, Fake!Named
  <1>4. "return" \in FakeLabels
    BY DEF FakeLabels
  <1>5. Moves(t, "applied", a)
    BY <1>4, FakeGoes
  <1>6. PhaseOf[t] = "called"
    BY <1>2 DEF FakeView
  <1>7. Denoted(q.key) = store[e]
    <2>1. Denoted(q.key) = store[<<Fake!Named, q.key>>]
      BY <1>1, <1>2, Zenon DEF FakeView
    <2> QED BY <1>1, <1>3, <2>1, Zenon
  <1>8. IF q.op = "get" THEN Kept ELSE Put(q)
    <2>1. CASE q.op = "get"
      <3>1. store' = store
        BY <2>1
      <3>2. Kept
        BY <1>2, <1>3, <3>1 DEF FakeView, Kept
      <3> QED BY <2>1, <3>2
    <2>2. CASE q.op # "get"
      <3>1. \A x \in Fake!Services \X KeysOf["custom"] :
                store'[x] = IF x = e THEN q.val ELSE store[x]
        BY <1>1, <2>2 DEF FakeInv
      <3> SUFFICES ASSUME NEW k \in Keys
                   PROVE  Denoted(k)' = IF k = q.key THEN q.val ELSE Denoted(k)
        BY <2>2 DEF Put
      <3>2. CASE k \in KeysOf["custom"]
        <4>1. <<service, k>> \in Fake!Services \X KeysOf["custom"]
          BY <3>2 DEF FakeInv
        <4>2. (<<service, k>> = e) <=> (k = q.key)
          BY <1>1
        <4>3. Denoted(k)' = store'[<<service, k>>] /\ Denoted(k) = store[<<service, k>>]
          BY <1>2, <1>3, <3>2 DEF FakeView
        <4>4. store'[<<service, k>>] = IF k = q.key THEN q.val ELSE store[<<service, k>>]
          BY <3>1, <4>1, <4>2, Zenon
        <4> QED BY <4>3, <4>4
      <3>3. CASE k \notin KeysOf["custom"]
        <4>1. k # q.key
          BY <1>1, <3>3
        <4>2. Denoted(k)' = None /\ Denoted(k) = None
          BY <1>2, <3>3 DEF FakeView
        <4> QED BY <4>1, <4>2
      <3> QED BY <3>2, <3>3
    <2> QED BY <2>1, <2>2
  <1>9. MovesMissing(t, {}, IF q.op # "set" /\ Denoted(q.key) = None THEN "notfound"
                            ELSE IF q.op = "get" THEN Denoted(q.key) ELSE "ok")
    BY <1>5, <1>7 DEF Moves, MovesMissing
  <1>10. Implemented
    BY <1>1, <1>6, <1>8, <1>9, Takes
  <1>11. store' \in [Fake!Services \X KeysOf["custom"] -> ValuesOf["custom"] \cup {None}]
    BY <1>1 DEF FakeInv
  <1>12. ASSUME NEW u \in Threads, u # t, pc[u] = "delete" PROVE store'[Fake!Key(u)] # None
    <2>1. CASE q.op = "get"
      BY <1>12, <2>1 DEF FakeInv
    <2>2. CASE q.op # "get"
      BY <1>12, <2>2, FakeWriterIsAlone DEF FakeInv
    <2> QED BY <2>1, <2>2
  <1>13. FakeInv'
    BY <1>4, <1>11, <1>12, FakeGoesOn DEF FakeInv
  <1> QED BY <1>10, <1>13

LEMMA FakeUseSound ==
  ASSUME Composed, backend = "custom", FakeInv, MutexInv', NEW t \in Threads,
         DelegateToCustom, Fake!Use(t)
  PROVE  FakeInv' /\ Implemented
  <1> DEFINE q == req[t]
             found == store[Fake!Key(t)]
             Answers == ValuesOf["custom"] \cup {None, "ok", "notfound", "error"}
  <1>1. /\ backend' = backend /\ UNCHANGED <<orphans, service, req>>
        /\ pc[t] \in {"use", "delete"} /\ service # "" /\ q \in Fake!Requests
    BY DEF DelegateToCustom, macVars, Fake!Use, FakeInv
  <1>2. /\ q.op \in {"get", "set", "delete"} /\ Fake!Key(t) \in Fake!Services \X KeysOf["custom"]
        /\ q.op # "set" => q.val = None
        /\ found \in ValuesOf["custom"] \cup {None}
        /\ Fake!Key(t) = <<service, q.key>>
    BY <1>1, FakeRequest DEF FakeInv
  <1>3. FakeView /\ FakeView'
    BY <1>1, FakeViews DEF FakeInv
  <1>4. "return" \in FakeLabels /\ "delete" \in FakeLabels
    BY DEF FakeLabels
  <1>5. \A u \in Threads : pc[u] = "delete" => store[Fake!Key(u)] # None
    BY DEF FakeInv
  <1>6. ASSUME store' = store PROVE Kept
    BY <1>1, <1>3, <1>6 DEF FakeView, Kept, Fake!Named
  <1>7. ASSUME Fake!Go(t, "return", "error"), store' = store PROVE FakeInv' /\ Implemented
    <2>1. PhaseOf[t] = "called" /\ Moves(t, "failed", None)
      BY <1>1, <1>3, <1>4, <1>7, FakeGoes DEF FakeView
    <2>2. Implemented
      BY <1>1, <1>6, <1>7, <2>1, Fails
    <2> QED BY <1>1, <1>4, <1>5, <1>7, <2>2, FakeGoesOn DEF FakeInv
  <1>8. ASSUME pc[t] = "use", q.op = "delete", found # None, Fake!Go(t, "delete", None),
               store' = store
        PROVE  FakeInv' /\ Implemented
    <2>1. PhaseOf[t] = "called" /\ AnswerOf[t] = None /\ Moves(t, "called", None)
      BY <1>1, <1>3, <1>4, <1>8, FakeGoes DEF FakeView
    <2>2. Implemented
      BY <1>1, <1>6, <1>8, <2>1, Stutters DEF Moves, Rests
    <2> QED BY <1>1, <1>2, <1>4, <1>5, <1>8, <2>2, FakeGoesOn DEF FakeInv
  <1>9. ASSUME NEW a \in Answers, Fake!Go(t, "return", a), a # "error",
               a = IF q.op # "set" /\ found = None THEN "notfound"
                   ELSE IF q.op = "get" THEN found ELSE "ok",
               q.op = "get" => store' = store,
               q.op # "get" => store' = [store EXCEPT ![Fake!Key(t)] = q.val]
        PROVE  FakeInv' /\ Implemented
    BY <1>1, <1>9, FakeTakes
  <1>10. CASE pc[t] = "use" /\ failing
    BY <1>7, <1>10 DEF Fake!Use
  <1>11. CASE pc[t] = "use" /\ ~failing /\ q.op # "set" /\ found = None
    <2>1. Fake!Go(t, "return", "notfound") /\ store' = store
      BY <1>11 DEF Fake!Use
    <2>2. q.op # "get" => store' = [store EXCEPT ![Fake!Key(t)] = q.val]
      BY <1>2, <1>11, <2>1 DEF FakeInv
    <2> QED BY <1>9, <1>11, <2>1, <2>2
  <1>12. CASE pc[t] = "use" /\ ~failing /\ found # None /\ q.op = "delete"
    BY <1>8, <1>12 DEF Fake!Use
  <1>13. CASE pc[t] = "use" /\ ~failing /\ found # None /\ q.op = "get"
    <2>1. Fake!Go(t, "return", found) /\ store' = store
      BY <1>13 DEF Fake!Use
    <2>2. CASE found = "error"
      BY <1>7, <2>1, <2>2
    <2>3. CASE found # "error"
      BY <1>2, <1>9, <1>13, <2>1, <2>3
    <2> QED BY <2>2, <2>3
  <1>14. CASE pc[t] = "use" /\ ~failing /\ q.op = "set"
    <2>1. Fake!Go(t, "return", "ok") /\ store' = [store EXCEPT ![Fake!Key(t)] = q.val]
      BY <1>14 DEF Fake!Use
    <2> QED BY <1>9, <1>14, <2>1
  <1>15. CASE pc[t] = "delete"
    <2>1. q.op = "delete" /\ found # None
      BY <1>15 DEF FakeInv
    <2>2. Fake!Go(t, "return", "ok") /\ store' = [store EXCEPT ![Fake!Key(t)] = q.val]
      BY <1>2, <1>15, <2>1 DEF Fake!Use
    <2> QED BY <1>9, <2>1, <2>2
  <1>16. failing \in BOOLEAN \/ failing \notin BOOLEAN
    OBVIOUS
  <1> QED BY <1>1, <1>2, <1>10, <1>11, <1>12, <1>13, <1>14, <1>15

LEMMA FakeReturnSound ==
  ASSUME Composed, backend = "custom", FakeInv, MutexInv', NEW t \in Threads,
         DelegateToCustom, Fake!Return(t)
  PROVE  FakeInv' /\ Implemented
  <1>1. /\ backend' = backend /\ UNCHANGED <<orphans, store, service>> /\ pc[t] = "return"
        /\ req' = [req EXCEPT ![t] = [op |-> "none", key |-> None, val |-> None]]
        /\ Fake!Go(t, "idle", None)
    BY DEF DelegateToCustom, macVars, Fake!Return, Fake!NoRequest
  <1>2. FakeView /\ FakeView'
    BY <1>1, FakeViews DEF FakeInv
  <1>3. Kept
    BY <1>1, <1>2 DEF FakeView, Kept, Fake!Named
  <1>4. "idle" \in FakeLabels
    BY DEF FakeLabels
  <1>5. PhaseOf[t] \in {"applied", "failed"} /\ Moves(t, "idle", None)
    BY <1>1, <1>2, <1>4, FakeGoes DEF FakeView
  <1>6. Implemented
    BY <1>1, <1>3, <1>5, Returns
  <1>7. FakeInv'
    <2>1. \A u \in Threads : pc[u] = "delete" => store'[Fake!Key(u)] # None
      BY <1>1 DEF FakeInv
    <2>2. \A u \in Threads : u # t => req'[u] = req[u]
      BY <1>1 DEF FakeInv, MutexInv
    <2> QED BY <1>1, <1>4, <2>1, <2>2, FakeGoesOn DEF FakeInv
  <1> QED BY <1>6, <1>7

LEMMA FakeSound ==
  ASSUME Composed, backend = "custom", FakeInv, DelegateToCustom
  PROVE  FakeInv' /\ Implemented
  <1>1. Fake!Next /\ backend' = backend /\ orphans' = orphans
    BY DEF DelegateToCustom, macVars
  <1>2. MutexInv'
    BY <1>1, FakeNextInv DEF FakeInv
  <1>3. CASE Fake!SetErr
    <2>1. UNCHANGED <<store, service, pc, req, frame>>
      BY <1>3 DEF Fake!SetErr
    <2>2. FakeView /\ FakeView'
      BY <1>1, <1>2, FakeViews DEF FakeInv
    <2>3. Rests /\ Kept
      BY <2>1, <2>2 DEF FakeView, Rests, Kept, Fake!Named
    <2>4. Implemented
      BY <1>1, <2>1, <2>3, Stutters
    <2> QED BY <1>2, <2>1, <2>4 DEF FakeInv, Fake!Key
  <1> QED BY <1>1, <1>2, <1>3, FakeCallSound, FakeInitFieldsSound, FakeLockSound, FakeUseSound,
             FakeReturnSound DEF Fake!Next, Fake!Step
-----------------------------------------------------------------------------
(* Windows Credential Manager, as a map.                                     *)

WindowsLabels == {"idle", "native", "return"}

LEMMA WindowsTypes ==
  ASSUME WindowsProofs!WInv
  PROVE  /\ store \in [Windows!Targets -> ValuesOf["windows-credential-manager"] \cup {None}]
         /\ pc \in [Threads -> WindowsLabels]
         /\ frame \in [Threads -> [res : Windows!Results,
                                   val : ValuesOf["windows-credential-manager"] \cup {None}]]
         /\ \A t \in Threads :
              pc[t] = "native" => req[t] \in Windows!Requests /\ Windows!Valid(req[t].key)
  BY DEF WindowsProofs!WInv, WindowsProofs!TypeOK, WindowsProofs!Checked, WindowsLabels,
     WindowsProofs!Targets, Windows!Targets, WindowsProofs!target, Windows!target,
     WindowsProofs!Fitting, WindowsProofs!Results, Windows!Results,
     WindowsProofs!Requests, Windows!Requests, WindowsProofs!Valid, Windows!Valid,
     WindowsProofs!Usable, Windows!Usable

WindowsView ==
    /\ \A t \in Threads :
        LET took == pc[t] = "return" /\ frame[t].res \in {"ok", "notfound"} IN
        /\ PhaseOf[t] = IF pc[t] = "idle" THEN "idle" ELSE IF pc[t] = "native" THEN "called"
                        ELSE IF took THEN "applied" ELSE "failed"
        /\ AnswerOf[t] = IF ~took THEN None
                         ELSE IF req[t].op = "get" /\ frame[t].res = "ok" THEN frame[t].val
                         ELSE frame[t].res
    /\ \A k \in Keys : Denoted(k) = IF k \in KeysOf["windows-credential-manager"]
                                    THEN Windows!Entry(k) ELSE None

LEMMA WindowsIsSeen ==
  backend = "windows-credential-manager" /\ WindowsProofs!WInv => WindowsView
  <1> SUFFICES ASSUME backend = "windows-credential-manager", WindowsProofs!WInv
               PROVE  WindowsView
    OBVIOUS
  <1>1. \A t \in Threads : pc[t] \in WindowsLabels
    BY WindowsTypes
  <1> QED BY <1>1, Mapping DEF Windows!PhaseOf, Windows!AnswerOf, Windows!Took, Denoted,
                               WindowsView, WindowsLabels

LEMMA WindowsViews ==
  ASSUME backend = "windows-credential-manager", backend' = backend, WindowsProofs!WInv,
         WindowsProofs!WInv'
  PROVE  WindowsView /\ WindowsView'
  <1>1. (backend = "windows-credential-manager")' /\ WindowsProofs!WInv' => WindowsView'
    BY WindowsIsSeen, PTL
  <1> QED BY <1>1, WindowsIsSeen

\* A goroutine comes to a label with a result.
LEMMA WindowsGoes ==
  ASSUME backend = "windows-credential-manager", backend' = backend, WindowsProofs!WInv,
         WindowsProofs!WInv', NEW t \in Threads, NEW label \in WindowsLabels, NEW res, NEW val,
         Windows!Go(t, label, res, val), \A u \in Threads : u # t => req'[u] = req[u]
  PROVE  Moves(t, IF label = "idle" THEN "idle" ELSE IF label = "native" THEN "called"
                  ELSE IF res \in {"ok", "notfound"} THEN "applied" ELSE "failed",
                  IF label # "return" \/ res \notin {"ok", "notfound"} THEN None
                  ELSE IF req'[t].op = "get" /\ res = "ok" THEN val ELSE res)
  <1>1. /\ pc'[t] = label /\ frame'[t].res = res /\ frame'[t].val = val
        /\ \A u \in Threads : u # t => pc'[u] = pc[u] /\ frame'[u] = frame[u]
    BY WindowsTypes DEF Windows!Go
  <1>2. WindowsView /\ WindowsView'
    BY WindowsViews
  <1>3. ASSUME NEW u \in Threads, u # t
        PROVE  PhaseOf'[u] = PhaseOf[u] /\ AnswerOf'[u] = AnswerOf[u]
    BY <1>1, <1>2, <1>3 DEF WindowsView
  <1>4. /\ PhaseOf'[t] = IF label = "idle" THEN "idle" ELSE IF label = "native" THEN "called"
                         ELSE IF res \in {"ok", "notfound"} THEN "applied" ELSE "failed"
        /\ AnswerOf'[t] = IF label # "return" \/ res \notin {"ok", "notfound"} THEN None
                          ELSE IF req'[t].op = "get" /\ res = "ok" THEN val ELSE res
    BY <1>1, <1>2 DEF WindowsView, WindowsLabels
  <1> QED BY <1>3, <1>4 DEF Moves

LEMMA WindowsKept ==
  ASSUME backend = "windows-credential-manager", backend' = backend, WindowsProofs!WInv,
         WindowsProofs!WInv', store' = store
  PROVE  Kept
  <1>1. WindowsView /\ WindowsView'
    BY WindowsViews
  <1>2. \A k : Windows!Entry(k)' = Windows!Entry(k)
    BY DEF Windows!Entry, Windows!Valid, Windows!Usable, Windows!target
  <1> QED BY <1>1, <1>2 DEF WindowsView, Kept

LEMMA WindowsCallSound ==
  ASSUME Composed, backend = "windows-credential-manager", WindowsProofs!WInv,
         WindowsProofs!WInv', NEW t \in Threads, DelegateToWindows, Windows!Call(t)
  PROVE  Implemented
  <1>1. backend' = backend /\ UNCHANGED <<orphans, store>> /\ pc[t] = "idle"
    BY DEF DelegateToWindows, macVars, Windows!Call
  <1>2. PICK q \in Windows!Requests, label \in {"native", "return"},
             res \in {"none", "ended", "invalid", "toolarge"} :
           req' = [req EXCEPT ![t] = q] /\ Windows!Go(t, label, res, None)
    BY DEF Windows!Call
  <1>3. q \in Contract!Requests
    BY InstanceFacts DEF Windows!Requests, Backends
  <1>4. PhaseOf[t] = "idle" /\ AnswerOf[t] = None
    BY <1>1, WindowsViews DEF WindowsView
  <1>5. \A u \in Threads : u # t => req'[u] = req[u]
    BY <1>2, WindowsTypes
  <1>6. Moves(t, IF label = "native" THEN "called" ELSE "failed", None)
    <2>1. label \in WindowsLabels
      BY DEF WindowsLabels
    <2> QED BY <1>1, <1>2, <1>5, <2>1, WindowsGoes
  <1>7. Kept
    BY <1>1, WindowsKept
  <1> QED BY <1>1, <1>2, <1>3, <1>4, <1>6, <1>7, Calls

LEMMA WindowsReturnSound ==
  ASSUME Composed, backend = "windows-credential-manager", WindowsProofs!WInv,
         WindowsProofs!WInv', NEW t \in Threads, DelegateToWindows, Windows!Return(t)
  PROVE  Implemented
  <1>1. /\ backend' = backend /\ UNCHANGED <<orphans, store>> /\ pc[t] = "return"
        /\ Windows!Go(t, "idle", "none", None)
        /\ req' = [req EXCEPT ![t] = [op |-> "none", key |-> None, val |-> None]]
    BY DEF DelegateToWindows, macVars, Windows!Return, Windows!NoRequest
  <1>2. PhaseOf[t] \in {"applied", "failed"}
    BY <1>1, WindowsViews DEF WindowsView
  <1>3. Moves(t, "idle", None)
    <2>1. "idle" \in WindowsLabels /\ \A u \in Threads : u # t => req'[u] = req[u]
      BY <1>1, WindowsTypes DEF WindowsLabels
    <2> QED BY <1>1, <2>1, WindowsGoes
  <1>4. Kept
    BY <1>1, WindowsKept
  <1> QED BY <1>1, <1>2, <1>3, <1>4, Returns
LEMMA WindowsTargetsDiffer ==
  ASSUME WindowsServicesArePlain, NEW k \in KeysOf["windows-credential-manager"],
         NEW l \in KeysOf["windows-credential-manager"], Windows!target(k) = Windows!target(l)
  PROVE  k = l
  <1>1. WindowsProofs!PlainServices
    BY OpenedKeyringAssumption DEF WindowsServicesArePlain, WindowsProofs!PlainServices,
       WindowsProofs!NoColon
  <1>2. WindowsProofs!target(k) = WindowsProofs!target(l)
    BY DEF Windows!target, WindowsProofs!target
  <1> QED BY <1>1, <1>2, WindowsConstants, WindowsProofs!TargetsDiffer

LEMMA WindowsPut ==
  ASSUME WindowsServicesArePlain, backend = "windows-credential-manager", backend' = backend,
         WindowsProofs!WInv, WindowsProofs!WInv', NEW q \in Windows!Requests,
         Windows!Valid(q.key), store' = [store EXCEPT ![Windows!target(q.key)] = q.val]
  PROVE  Put(q)
  <1>1. WindowsView /\ WindowsView'
    BY WindowsViews
  <1>2. q.key \in KeysOf["windows-credential-manager"]
    BY DEF Windows!Requests
  <1> SUFFICES ASSUME NEW k \in Keys
               PROVE  Denoted(k)' = IF k = q.key THEN q.val ELSE Denoted(k)
    BY DEF Put
  <1>3. CASE k \notin KeysOf["windows-credential-manager"]
    <2>1. Denoted(k)' = None /\ Denoted(k) = None
      BY <1>1, <1>3 DEF WindowsView
    <2> QED BY <1>2, <1>3, <2>1
  <1>4. CASE k \in KeysOf["windows-credential-manager"]
    <2>1. /\ Denoted(k) = IF Windows!Valid(k) THEN store[Windows!target(k)] ELSE None
          /\ Denoted(k)' = IF Windows!Valid(k) THEN store'[Windows!target(k)] ELSE None
      <3>1. Denoted(k) = Windows!Entry(k) /\ Denoted(k)' = Windows!Entry(k)'
        BY <1>1, <1>4 DEF WindowsView
      <3> QED BY <3>1 DEF Windows!Entry, Windows!Valid, Windows!Usable, Windows!target
    <2>2. Windows!target(k) \in Windows!Targets
      BY <1>4 DEF Windows!Targets
    <2>3. Windows!target(k) = Windows!target(q.key) => k = q.key
      BY <1>2, <1>4, WindowsTargetsDiffer
    <2>4. store'[Windows!target(k)] = IF k = q.key THEN q.val ELSE store[Windows!target(k)]
      BY <2>2, <2>3, WindowsTypes
    <2> QED BY <2>1, <2>4
  <1> QED BY <1>3, <1>4

LEMMA WindowsNativeSound ==
  ASSUME Composed, backend = "windows-credential-manager", WindowsServicesArePlain,
         WindowsProofs!WInv, WindowsProofs!WInv', NEW t \in Threads, DelegateToWindows,
         Windows!Native(t)
  PROVE  Implemented
  <1> DEFINE q == req[t]
             found == store[Windows!target(q.key)]
  <1>1. backend' = backend /\ UNCHANGED <<orphans, req>> /\ pc[t] = "native"
    BY DEF DelegateToWindows, macVars, Windows!Native
  <1>2. q \in Windows!Requests /\ Windows!Valid(q.key)
    BY <1>1, WindowsTypes
  <1>3. /\ q.key \in KeysOf["windows-credential-manager"] /\ q.key \in Keys
        /\ q.op \in {"get", "set", "delete"}
        /\ q.op # "set" => q.val = None
    BY <1>2, InstanceFacts DEF Windows!Requests, Backends
  <1>4. PhaseOf[t] = "called"
    BY <1>1, WindowsViews DEF WindowsView
  <1>5. Denoted(q.key) = found
    BY <1>1, <1>2, <1>3, WindowsViews DEF WindowsView, Windows!Entry
  <1>6. "return" \in WindowsLabels /\ \A u \in Threads : u # t => req'[u] = req[u]
    BY <1>1 DEF WindowsLabels
  <1>7. ASSUME store' = store PROVE Kept
    BY <1>1, <1>7, WindowsKept
  <1>8. CASE \E e \in NativeErrors : Windows!Go(t, "return", Windows!operationError(e), None)
             /\ store' = store
    <2>1. PICK e \in NativeErrors : Windows!Go(t, "return", Windows!operationError(e), None)
      BY <1>8
    <2>2. e \in {"username", "denied", "logon", "other"}
      BY OpenedKeyringAssumption
    <2>3. Windows!operationError(e) \notin {"ok", "notfound"}
      BY <2>2 DEF Windows!operationError
    <2>4. Moves(t, "failed", None)
      BY <1>1, <1>6, <2>1, <2>3, WindowsGoes
    <2> QED BY <1>1, <1>4, <1>7, <1>8, <2>4, Fails
  <1>9. ASSUME NEW res \in {"ok", "notfound"}, NEW val, Windows!Go(t, "return", res, val),
               res = IF q.op # "set" /\ found = None THEN "notfound" ELSE "ok",
               q.op = "get" => val = found,
               IF q.op = "get" \/ res = "notfound" THEN store' = store
               ELSE store' = [store EXCEPT ![Windows!target(q.key)] = q.val]
        PROVE  Implemented
    <2>1. MovesMissing(t, {}, IF q.op # "set" /\ Denoted(q.key) = None THEN "notfound"
                              ELSE IF q.op = "get" THEN Denoted(q.key) ELSE "ok")
      <3>1. Moves(t, "applied", IF q.op = "get" /\ res = "ok" THEN val ELSE res)
        BY <1>1, <1>6, <1>9, WindowsGoes
      <3> QED BY <1>3, <1>5, <1>9, <3>1 DEF Moves, MovesMissing
    <2>2. IF q.op = "get" THEN Kept ELSE Put(q)
      <3>1. CASE q.op = "get"
        BY <1>7, <1>9, <3>1
      <3>2. CASE q.op # "get"
        <4>1. store' = [store EXCEPT ![Windows!target(q.key)] = q.val]
          <5>1. CASE res = "ok"
            BY <1>9, <3>2, <5>1
          <5>2. CASE res = "notfound"
            <6>1. store' = store /\ found = None /\ q.val = None
              BY <1>3, <1>9, <5>2
            <6>2. DOMAIN store = Windows!Targets
              BY WindowsTypes
            <6> QED BY <6>1, <6>2, WindowsTypes
          <5> QED BY <5>1, <5>2
        <4> QED BY <1>1, <1>2, <3>2, <4>1, WindowsPut
      <3> QED BY <3>1, <3>2
    <2> QED BY <1>1, <1>3, <1>4, <2>1, <2>2, Takes
  <1>10. CASE Windows!Missing(q) /\ Windows!Go(t, "return", Windows!operationError("missing"), None)
              /\ store' = store
    <2>1. Windows!operationError("missing") = "notfound"
      BY DEF Windows!operationError
    <2>2. found = None /\ q.op # "set"
      BY <1>10 DEF Windows!Missing
    <2> QED BY <1>9, <1>10, <2>1, <2>2
  <1>11. CASE ~Windows!Missing(q) /\ q.op = "get" /\ Windows!Go(t, "return", "ok", found)
              /\ store' = store
    BY <1>9, <1>11 DEF Windows!Missing
  <1>12. CASE /\ ~Windows!Missing(q) /\ q.op # "get" /\ Windows!Go(t, "return", "ok", None)
              /\ store' = [store EXCEPT ![Windows!target(q.key)] = q.val]
    BY <1>9, <1>12 DEF Windows!Missing
  <1> QED BY <1>8, <1>10, <1>11, <1>12 DEF Windows!Native

LEMMA WindowsSound ==
  ASSUME Composed, backend = "windows-credential-manager", WindowsServicesArePlain,
         WindowsProofs!WInv, WindowsProofs!WInv', DelegateToWindows
  PROVE  Implemented
  BY WindowsCallSound, WindowsNativeSound, WindowsReturnSound DEF DelegateToWindows, Windows!Next
-----------------------------------------------------------------------------
(* The kernel keyring, as a map.                                             *)

KernelLabels == {"idle", "search", "size", "read", "unlink", "add", "return"}

KernelFrames == [key : {"none", "live", "gone"}, size : Nat,
                 val : ValuesOf["kernel-keyring"] \cup {None}, res : Kernel!Results,
                 done : BOOLEAN]

\* What a goroutine at a label knows.
KernelStands(label, q, f) ==
    /\ label # "idle" => q \in Kernel!Requests
    /\ label \in {"idle", "search", "add"} => f.key = "none"
    /\ label = "search" => q.op # "set"
    /\ label = "add" => q.op = "set"
    /\ label \in {"size", "read"} => q.op = "get"
    /\ label = "unlink" => q.op = "delete"
    /\ label \in {"size", "read", "unlink"} => f.key \in {"live", "gone"}
    /\ f.done <=> label = "return" /\ f.res = "ok"

\* A key that somebody has found is there, or was unlinked since, and a revoked
\* keyring has none.
KernelInv ==
    /\ store \in [KeysOf["kernel-keyring"] -> ValuesOf["kernel-keyring"] \cup {None}]
    /\ pc \in [Threads -> KernelLabels]
    /\ req \in [Threads -> Kernel!Requests \cup {Kernel!NoRequest}]
    /\ frame \in [Threads -> KernelFrames]
    /\ \A t \in Threads : /\ KernelStands(pc[t], req[t], frame[t])
                          /\ frame[t].key = "live" => store[req[t].key] # None
    /\ session = "revoked" => \A k \in KeysOf["kernel-keyring"] : store[k] = None

KernelPhase(label, q, f) ==
    IF label = "idle" THEN "idle"
    ELSE IF label = "return"
         THEN IF f.res = "ok" \/ (f.res = "notfound" /\ q.op # "set") THEN "applied" ELSE "failed"
    ELSE IF f.key = "gone" THEN "applied" ELSE "called"

KernelAnswer(label, q, f) ==
    IF KernelPhase(label, q, f) # "applied" THEN None
    ELSE IF label # "return" \/ f.res # "ok" THEN "notfound"
    ELSE IF q.op = "get" THEN f.val ELSE "ok"

KernelView ==
    /\ \A t \in Threads : /\ PhaseOf[t] = KernelPhase(pc[t], req[t], frame[t])
                          /\ AnswerOf[t] = KernelAnswer(pc[t], req[t], frame[t])
    /\ \A k \in Keys : Denoted(k) = IF k \in KeysOf["kernel-keyring"] THEN store[k] ELSE None

LEMMA KernelIsSeen == backend = "kernel-keyring" /\ KernelInv => KernelView
  <1> SUFFICES ASSUME backend = "kernel-keyring", KernelInv PROVE KernelView
    OBVIOUS
  <1>1. ASSUME NEW t \in Threads
        PROVE  PhaseOf[t] = KernelPhase(pc[t], req[t], frame[t])
    <2>1. pc[t] \in KernelLabels
      BY DEF KernelInv
    <2> QED BY <2>1, Mapping DEF Kernel!PhaseOf, KernelPhase, KernelLabels
  <1>2. ASSUME NEW t \in Threads
        PROVE  AnswerOf[t] = KernelAnswer(pc[t], req[t], frame[t])
    <2>1. frame[t].done <=> pc[t] = "return" /\ frame[t].res = "ok"
      BY DEF KernelInv, KernelStands
    <2>2. AnswerOf[t] = IF PhaseOf[t] # "applied" THEN None
                        ELSE IF ~frame[t].done THEN "notfound"
                        ELSE IF req[t].op = "get" THEN frame[t].val ELSE "ok"
      BY Mapping DEF Kernel!AnswerOf
    <2> QED BY <1>1, <2>1, <2>2 DEF KernelAnswer
  <1>3. \A k \in Keys : Denoted(k) = IF k \in KeysOf["kernel-keyring"] THEN store[k] ELSE None
    BY DEF Denoted
  <1> QED BY <1>1, <1>2, <1>3 DEF KernelView

LEMMA KernelViews ==
  ASSUME backend = "kernel-keyring", backend' = backend, KernelInv, KernelInv'
  PROVE  KernelView /\ KernelView'
  <1>1. (backend = "kernel-keyring")' /\ KernelInv' => KernelView'
    BY KernelIsSeen, PTL
  <1> QED BY <1>1, KernelIsSeen

LEMMA KernelKept ==
  ASSUME backend = "kernel-keyring", backend' = backend, KernelInv, KernelInv', store' = store
  PROVE  Kept
  BY KernelViews DEF KernelView, Kept

\* A goroutine comes to a label with a frame.
LEMMA KernelGoes ==
  ASSUME KernelInv, backend = "kernel-keyring", backend' = backend, session' = session,
         NEW t \in Threads, NEW label \in KernelLabels, NEW f \in KernelFrames,
         Kernel!Go(t, label, f),
         store' \in [KeysOf["kernel-keyring"] -> ValuesOf["kernel-keyring"] \cup {None}],
         \A k \in KeysOf["kernel-keyring"] : store[k] # None => store'[k] # None,
         session = "revoked" => store' = store,
         NEW q \in Kernel!Requests \cup {Kernel!NoRequest}, req' = [req EXCEPT ![t] = q],
         KernelStands(label, q, f), f.key = "live" => store'[q.key] # None
  PROVE  KernelInv' /\ Moves(t, KernelPhase(label, q, f), KernelAnswer(label, q, f))
  <1>1. /\ pc'[t] = label /\ frame'[t] = f /\ req'[t] = q
        /\ pc' \in [Threads -> KernelLabels] /\ frame' \in [Threads -> KernelFrames]
        /\ req' \in [Threads -> Kernel!Requests \cup {Kernel!NoRequest}]
        /\ \A u \in Threads : u # t => pc'[u] = pc[u] /\ frame'[u] = frame[u] /\ req'[u] = req[u]
    BY DEF KernelInv, Kernel!Go
  <1>2. ASSUME NEW u \in Threads
        PROVE  /\ KernelStands(pc'[u], req'[u], frame'[u])
               /\ frame'[u].key = "live" => store'[req'[u].key] # None
    <2>1. CASE u = t
      BY <1>1, <2>1
    <2>2. CASE u # t
      <3>1. KernelStands(pc[u], req[u], frame[u])
            /\ (frame[u].key = "live" => store[req[u].key] # None)
        BY DEF KernelInv
      <3>2. frame[u].key = "live" => req[u].key \in KeysOf["kernel-keyring"]
        BY <3>1 DEF KernelStands, Kernel!Requests
      <3> QED BY <1>1, <2>2, <3>1, <3>2
    <2> QED BY <2>1, <2>2
  <1>3. KernelInv'
    BY <1>1, <1>2 DEF KernelInv, KernelStands
  <1>4. KernelView /\ KernelView'
    BY <1>3, KernelViews
  <1>5. Moves(t, KernelPhase(label, q, f), KernelAnswer(label, q, f))
    BY <1>1, <1>4 DEF KernelView, Moves, KernelPhase, KernelAnswer
  <1> QED BY <1>3, <1>5

LEMMA KernelRequest ==
  ASSUME KernelInv, NEW t \in Threads, pc[t] # "idle"
  PROVE  /\ req[t] \in Kernel!Requests
         /\ req[t].key \in KeysOf["kernel-keyring"] /\ req[t].key \in Keys
         /\ req[t].op \in {"get", "set", "delete"}
         /\ req[t].op = "set" => req[t].val \in ValuesOf["kernel-keyring"]
         /\ req[t].op # "set" => req[t].val = None
  <1>1. req[t] \in Kernel!Requests
    BY DEF KernelInv, KernelStands
  <1>2. KeysOf["kernel-keyring"] \subseteq Keys
    BY InstanceFacts DEF Backends
  <1> QED BY <1>1, <1>2 DEF Kernel!Requests

LEMMA KernelCallSound ==
  ASSUME Composed, backend = "kernel-keyring", KernelInv, NEW t \in Threads,
         DelegateToKernel, Kernel!Call(t)
  PROVE  KernelInv' /\ Implemented
  <1>1. backend' = backend /\ UNCHANGED <<orphans, store, session>> /\ pc[t] = "idle"
    BY DEF DelegateToKernel, macVars, Kernel!Call
  <1>2. PICK q \in Kernel!Requests :
           /\ req' = [req EXCEPT ![t] = q]
           /\ \/ Kernel!Go(t, "return", [Kernel!NewFrame EXCEPT !.res = "ended"])
              \/ q.op # "set" /\ Kernel!Go(t, "search", Kernel!NewFrame)
              \/ q.op = "set" /\ Kernel!Go(t, "return", [Kernel!NewFrame EXCEPT !.res = "toolarge"])
              \/ q.op = "set" /\ Kernel!Go(t, "add", Kernel!NewFrame)
    BY DEF Kernel!Call
  <1>3. PhaseOf[t] = "idle" /\ AnswerOf[t] = None
    BY <1>1, KernelIsSeen DEF KernelView, KernelPhase, KernelAnswer
  <1>4. q \in Contract!Requests
    BY InstanceFacts DEF Kernel!Requests, Backends
  <1>5. ASSUME NEW label \in KernelLabels \ {"idle"}, NEW f \in KernelFrames,
               Kernel!Go(t, label, f), KernelStands(label, q, f), f.key = "none",
               f.res \in {"none", "ended", "toolarge"}
        PROVE  KernelInv' /\ Implemented
    <2>1. store' \in [KeysOf["kernel-keyring"] -> ValuesOf["kernel-keyring"] \cup {None}]
      BY <1>1 DEF KernelInv
    <2>2. KernelInv' /\ Moves(t, KernelPhase(label, q, f), KernelAnswer(label, q, f))
      BY <1>1, <1>2, <1>5, <2>1, KernelGoes
    <2>3. KernelPhase(label, q, f) \in {"called", "failed"} /\ KernelAnswer(label, q, f) = None
      BY <1>5 DEF KernelPhase, KernelAnswer
    <2>4. Kept
      BY <1>1, <2>2, KernelKept
    <2> QED BY <1>1, <1>2, <1>3, <1>4, <2>2, <2>3, <2>4, Calls
  <1>6. ASSUME NEW res \in {"none", "ended", "toolarge"},
               NEW f, f = [Kernel!NewFrame EXCEPT !.res = res]
        PROVE  f \in KernelFrames /\ f.key = "none" /\ ~f.done /\ f.res = res
    BY <1>6 DEF Kernel!NewFrame, KernelFrames, Kernel!Results
  <1>7. /\ Kernel!NewFrame \in KernelFrames /\ Kernel!NewFrame.key = "none"
        /\ ~Kernel!NewFrame.done /\ Kernel!NewFrame.res = "none"
    BY DEF Kernel!NewFrame, KernelFrames, Kernel!Results
  <1>8. ASSUME NEW res \in {"ended", "toolarge"},
               Kernel!Go(t, "return", [Kernel!NewFrame EXCEPT !.res = res])
        PROVE  KernelInv' /\ Implemented
    <2> DEFINE f == [Kernel!NewFrame EXCEPT !.res = res]
    <2>1. f \in KernelFrames /\ f.key = "none" /\ ~f.done /\ f.res = res
      BY <1>6
    <2> HIDE DEF f
    <2>2. KernelStands("return", q, f)
      BY <2>1 DEF KernelStands
    <2>3. Kernel!Go(t, "return", f)
      BY <1>8 DEF f
    <2> QED BY <1>5, <2>1, <2>2, <2>3 DEF KernelLabels
  <1>9. ASSUME NEW label \in {"search", "add"}, q.op = "set" <=> label = "add",
               Kernel!Go(t, label, Kernel!NewFrame)
        PROVE  KernelInv' /\ Implemented
    <2> DEFINE f == Kernel!NewFrame
    <2>1. f \in KernelFrames /\ f.key = "none" /\ ~f.done /\ f.res = "none"
      BY <1>7
    <2> HIDE DEF f
    <2>2. KernelStands(label, q, f)
      BY <1>9, <2>1 DEF KernelStands
    <2>3. Kernel!Go(t, label, f)
      BY <1>9 DEF f
    <2> QED BY <1>5, <2>1, <2>2, <2>3 DEF KernelLabels
  <1> QED BY <1>2, <1>8, <1>9

LEMMA KernelReturnSound ==
  ASSUME Composed, backend = "kernel-keyring", KernelInv, NEW t \in Threads,
         DelegateToKernel, Kernel!Return(t)
  PROVE  KernelInv' /\ Implemented
  <1> DEFINE f == Kernel!NewFrame
  <1>1. /\ backend' = backend /\ UNCHANGED <<orphans, store, session>> /\ pc[t] = "return"
        /\ req' = [req EXCEPT ![t] = Kernel!NoRequest] /\ Kernel!Go(t, "idle", f)
    BY DEF DelegateToKernel, macVars, Kernel!Return
  <1>2. f \in KernelFrames /\ f.key = "none" /\ ~f.done
    BY DEF Kernel!NewFrame, KernelFrames, Kernel!Results
  <1> HIDE DEF f
  <1>3. KernelStands("idle", Kernel!NoRequest, f)
    BY <1>2 DEF KernelStands
  <1>4. store' \in [KeysOf["kernel-keyring"] -> ValuesOf["kernel-keyring"] \cup {None}]
    BY <1>1 DEF KernelInv
  <1>5. /\ KernelInv'
        /\ Moves(t, KernelPhase("idle", Kernel!NoRequest, f),
                    KernelAnswer("idle", Kernel!NoRequest, f))
    BY <1>1, <1>2, <1>3, <1>4, KernelGoes DEF KernelLabels
  <1>6. Moves(t, "idle", None)
    BY <1>5 DEF KernelPhase, KernelAnswer
  <1>7. PhaseOf[t] \in {"applied", "failed"}
    BY <1>1, KernelIsSeen DEF KernelView, KernelPhase
  <1>8. Kept
    BY <1>1, <1>5, KernelKept
  <1>9. Implemented
    BY <1>1, <1>6, <1>7, <1>8, Returns DEF Kernel!NoRequest
  <1> QED BY <1>5, <1>9

\* A system call fails.
LEMMA KernelFails ==
  ASSUME Composed, backend = "kernel-keyring", backend' = backend, UNCHANGED <<orphans>>,
         KernelInv, NEW t \in Threads, pc[t] \notin {"idle", "return"},
         NEW errno \in {"ENOKEY", "EKEYREVOKED", "EPERM", "ENOSYS", "EINVAL", "ENOENT", "other"},
         Kernel!Fail(t, errno),
         errno \in {"ENOKEY", "EKEYREVOKED"} =>
            \/ req[t].op = "set" \/ frame[t].key = "gone" \/ store[req[t].key] = None
  PROVE  KernelInv' /\ Implemented
  <1> DEFINE res == Kernel!operationError(errno)
             f == [frame[t] EXCEPT !.res = res]
             q == req[t]
  <1>1. res \in Kernel!Results \ {"ok"} /\ (res = "notfound" => errno \in {"ENOKEY", "EKEYREVOKED"})
    BY DEF Kernel!operationError, Kernel!Results
  <1> HIDE DEF res
  <1>2. frame[t] \in KernelFrames /\ KernelStands(pc[t], q, frame[t])
    BY DEF KernelInv
  <1>3. ~frame[t].done
    BY <1>2 DEF KernelStands
  <1>4. f \in KernelFrames /\ f.res = res /\ f.key = frame[t].key /\ f.done = frame[t].done
    BY <1>1, <1>2 DEF KernelFrames
  <1>5. UNCHANGED <<store, session, req>> /\ Kernel!Go(t, "return", f)
    BY DEF Kernel!Fail, res
  <1> HIDE DEF f
  <1>6. q \in Kernel!Requests /\ q.key \in Keys /\ q.key \in KeysOf["kernel-keyring"]
        /\ (q.op # "set" => q.val = None) /\ q.op \in {"get", "set", "delete"}
    BY KernelRequest
  <1>7. KernelStands("return", q, f)
    BY <1>1, <1>3, <1>4, <1>6 DEF KernelStands
  <1>8. req' = [req EXCEPT ![t] = q]
    BY <1>5 DEF KernelInv
  <1>9. f.key = "live" => store'[q.key] # None
    BY <1>4, <1>5 DEF KernelInv
  <1>10. KernelInv' /\ Moves(t, KernelPhase("return", q, f), KernelAnswer("return", q, f))
    <2>1. store' \in [KeysOf["kernel-keyring"] -> ValuesOf["kernel-keyring"] \cup {None}]
      BY <1>5 DEF KernelInv
    <2>2. "return" \in KernelLabels
      BY DEF KernelLabels
    <2> QED BY <1>4, <1>5, <1>6, <1>7, <1>8, <1>9, <2>1, <2>2, KernelGoes
  <1>11. Kept
    BY <1>5, <1>10, KernelKept
  <1>12. /\ PhaseOf[t] = IF frame[t].key = "gone" THEN "applied" ELSE "called"
         /\ AnswerOf[t] = IF frame[t].key = "gone" THEN "notfound" ELSE None
         /\ Denoted(q.key) = store[q.key]
    BY <1>6, KernelIsSeen DEF KernelView, KernelPhase, KernelAnswer
  <1>13. CASE ~(res = "notfound" /\ q.op # "set")
    <2>1. Moves(t, "failed", None)
      BY <1>1, <1>4, <1>10, <1>13 DEF KernelPhase, KernelAnswer
    <2> QED BY <1>5, <1>10, <1>11, <1>12, <2>1, Fails
  <1>14. CASE res = "notfound" /\ q.op # "set"
    <2>1. Moves(t, "applied", "notfound")
      BY <1>4, <1>10, <1>14 DEF KernelPhase, KernelAnswer
    <2>2. CASE frame[t].key = "gone"
      <3>1. Rests
        BY <1>12, <2>1, <2>2 DEF Moves, Rests
      <3> QED BY <1>5, <1>10, <1>11, <3>1, Stutters
    <2>3. CASE frame[t].key # "gone"
      <3>1. Denoted(q.key) = None
        BY <1>1, <1>12, <1>14, <2>3
      <3>2. IF q.op = "get" THEN Kept ELSE Put(q)
        BY <1>6, <1>11, <1>14, <3>1 DEF Kept, Put
      <3>3. MovesMissing(t, {}, IF q.op # "set" /\ Denoted(q.key) = None THEN "notfound"
                                ELSE IF q.op = "get" THEN Denoted(q.key) ELSE "ok")
        BY <1>14, <2>1, <3>1 DEF Moves, MovesMissing
      <3> QED BY <1>5, <1>6, <1>10, <1>12, <2>3, <3>2, <3>3, Takes
    <2> QED BY <2>2, <2>3
  <1> QED BY <1>13, <1>14

LEMMA KernelUnexpected ==
  ASSUME Composed, backend = "kernel-keyring", backend' = backend, UNCHANGED <<orphans>>,
         KernelInv, NEW t \in Threads, pc[t] \notin {"idle", "return"}, Kernel!Unexpected(t)
  PROVE  KernelInv' /\ Implemented
  <1>1. PICK errno \in Errnos : Kernel!Fail(t, errno)
    BY DEF Kernel!Unexpected
  <1>2. errno \in {"EPERM", "ENOSYS", "other"}
    BY OpenedKeyringAssumption
  <1> QED BY <1>1, <1>2, KernelFails

\* A goroutine goes on with what it holds.
LEMMA KernelGoesOn ==
  ASSUME Composed, backend = "kernel-keyring", backend' = backend,
         UNCHANGED <<orphans, store, session, req>>, KernelInv,
         NEW t \in Threads, pc[t] \in {"search", "size", "read"}, frame[t].key \in {"none", "live"},
         NEW label \in {"size", "read", "unlink"}, NEW f \in KernelFrames,
         Kernel!Go(t, label, f), label = "unlink" <=> req[t].op = "delete", ~f.done,
         f.key = "live", store[req[t].key] # None
  PROVE  KernelInv' /\ Implemented
  <1> DEFINE q == req[t]
  <1>1. q \in Kernel!Requests /\ q.op \in {"get", "set", "delete"} /\ q.op # "set"
    BY KernelRequest DEF KernelInv, KernelStands
  <1>2. KernelStands(label, q, f)
    BY <1>1 DEF KernelStands
  <1>3. req' = [req EXCEPT ![t] = q]
    BY DEF KernelInv
  <1>4. KernelInv' /\ Moves(t, KernelPhase(label, q, f), KernelAnswer(label, q, f))
    <2>1. store' \in [KeysOf["kernel-keyring"] -> ValuesOf["kernel-keyring"] \cup {None}]
      BY DEF KernelInv
    <2>2. label \in KernelLabels
      BY DEF KernelLabels
    <2> QED BY <1>1, <1>2, <1>3, <2>1, <2>2, KernelGoes
  <1>5. Kept
    BY <1>4, KernelKept
  <1>6. Rests
    <2>1. PhaseOf[t] = "called" /\ AnswerOf[t] = None
      BY KernelIsSeen DEF KernelView, KernelPhase, KernelAnswer
    <2>2. Moves(t, "called", None)
      BY <1>4 DEF KernelPhase, KernelAnswer
    <2> QED BY <2>1, <2>2 DEF Moves, Rests
  <1> QED BY <1>4, <1>5, <1>6, Stutters

LEMMA KernelGetSound ==
  ASSUME Composed, backend = "kernel-keyring", KernelInv, NEW t \in Threads,
         DelegateToKernel, Kernel!get(t)
  PROVE  KernelInv' /\ Implemented
  <1>1. backend' = backend /\ UNCHANGED <<orphans>> /\ pc[t] = "search"
    BY DEF DelegateToKernel, macVars, Kernel!get
  <1>2. /\ frame[t] \in KernelFrames /\ KernelStands(pc[t], req[t], frame[t])
        /\ req[t].key \in KeysOf["kernel-keyring"]
    BY <1>1, KernelRequest DEF KernelInv
  <1>3. CASE Kernel!Unexpected(t)
    BY <1>1, <1>3, KernelUnexpected
  <1>4. CASE session = "revoked" /\ Kernel!Fail(t, "EKEYREVOKED")
    <2>1. store[req[t].key] = None
      BY <1>2, <1>4 DEF KernelInv
    <2> QED BY <1>1, <1>4, <2>1, KernelFails
  <1>5. CASE store[Kernel!Key(t)] = None /\ Kernel!Fail(t, "ENOKEY")
    <2>1. store[req[t].key] = None
      BY <1>5 DEF Kernel!Key
    <2> QED BY <1>1, <1>5, <2>1, KernelFails
  <1>6. CASE /\ store[Kernel!Key(t)] # None /\ UNCHANGED <<store, session, req>>
             /\ Kernel!Go(t, IF req[t].op = "get" THEN "size" ELSE "unlink",
                          [frame[t] EXCEPT !.key = "live"])
    <2> DEFINE f == [frame[t] EXCEPT !.key = "live"]
               label == IF req[t].op = "get" THEN "size" ELSE "unlink"
    <2>1. f \in KernelFrames /\ f.key = "live" /\ f.done = frame[t].done
      BY <1>2 DEF KernelFrames
    <2>2. ~frame[t].done /\ frame[t].key = "none"
      BY <1>1, <1>2 DEF KernelStands
    <2>3. label \in {"size", "read", "unlink"} /\ (label = "unlink" <=> req[t].op = "delete")
      BY <1>1, <1>2, KernelRequest DEF KernelStands
    <2>4. Kernel!Go(t, label, f) /\ store[req[t].key] # None
      BY <1>6 DEF Kernel!Key
    <2> HIDE DEF f, label
    <2>5. ~f.done
      BY <2>1, <2>2
    <2> QED BY <1>1, <1>6, <2>1, <2>2, <2>3, <2>4, <2>5, KernelGoesOn
  <1> QED BY <1>3, <1>4, <1>5, <1>6 DEF Kernel!get

LEMMA KernelReadSizeSound ==
  ASSUME Composed, backend = "kernel-keyring", KernelInv, NEW t \in Threads,
         DelegateToKernel, Kernel!ReadSize(t)
  PROVE  KernelInv' /\ Implemented
  <1>1. backend' = backend /\ UNCHANGED <<orphans>> /\ pc[t] = "size"
    BY DEF DelegateToKernel, macVars, Kernel!ReadSize
  <1>2. /\ frame[t] \in KernelFrames /\ KernelStands(pc[t], req[t], frame[t])
        /\ req[t].key \in KeysOf["kernel-keyring"]
    BY <1>1, KernelRequest DEF KernelInv
  <1>3. CASE Kernel!Unexpected(t)
    BY <1>1, <1>3, KernelUnexpected
  <1>4. CASE frame[t].key = "gone" /\ Kernel!Fail(t, "ENOKEY")
    BY <1>1, <1>4, KernelFails
  <1>5. CASE /\ frame[t].key = "live" /\ UNCHANGED <<store, session, req>>
             /\ Kernel!Go(t, "read", [frame[t] EXCEPT !.size = SizeOf[store[Kernel!Key(t)]]])
    <2> DEFINE v == store[req[t].key]
               f == [frame[t] EXCEPT !.size = SizeOf[v]]
    <2>1. v # None /\ SizeOf[v] \in Nat
      <3>1. v # None
        BY <1>5 DEF KernelInv
      <3>2. v \in Values
        BY <1>2, <3>1, InstanceFacts DEF KernelInv, Backends
      <3> QED BY <3>1, <3>2, OpenedKeyringAssumption
    <2>2. f \in KernelFrames /\ f.key = frame[t].key /\ f.done = frame[t].done
      <3> HIDE DEF v
      <3> QED BY <1>2, <2>1 DEF KernelFrames
    <2>3. ~frame[t].done /\ req[t].op = "get"
      BY <1>1, <1>2 DEF KernelStands
    <2>4. Kernel!Go(t, "read", f)
      BY <1>5 DEF Kernel!Key
    <2> HIDE DEF f
    <2>5. ~f.done /\ f.key = "live"
      BY <1>5, <2>2, <2>3
    <2> QED BY <1>1, <1>5, <2>1, <2>2, <2>3, <2>4, <2>5, KernelGoesOn
  <1> QED BY <1>3, <1>4, <1>5 DEF Kernel!ReadSize

\* A read or an add_key takes effect.
LEMMA KernelTakes ==
  ASSUME Composed, backend = "kernel-keyring", backend' = backend,
         UNCHANGED <<orphans, session, req>>, KernelInv, NEW t \in Threads,
         pc[t] \in {"read", "add"}, frame[t].key # "gone", NEW f \in KernelFrames,
         Kernel!Go(t, "return", f), f.done, f.res = "ok", f.key = frame[t].key,
         IF req[t].op = "get"
         THEN store' = store /\ store[req[t].key] # None /\ f.val = store[req[t].key]
         ELSE session = "live" /\ store' = [store EXCEPT ![req[t].key] = req[t].val]
  PROVE  KernelInv' /\ Implemented
  <1> DEFINE q == req[t]
  <1>1. /\ q \in Kernel!Requests /\ q.key \in KeysOf["kernel-keyring"] /\ q.key \in Keys
        /\ q.op = IF pc[t] = "read" THEN "get" ELSE "set"
        /\ q.op = "set" => q.val \in ValuesOf["kernel-keyring"] /\ q.val # None
    BY KernelRequest, OpenedKeyringAssumption DEF KernelInv, KernelStands, Backends
  <1>2. KernelStands("return", q, f)
    BY <1>1 DEF KernelStands
  <1>3. req' = [req EXCEPT ![t] = q]
    BY DEF KernelInv
  <1>4. /\ store' \in [KeysOf["kernel-keyring"] -> ValuesOf["kernel-keyring"] \cup {None}]
        /\ \A k \in KeysOf["kernel-keyring"] : store[k] # None => store'[k] # None
        /\ session = "revoked" => store' = store
        /\ store'[q.key] # None
    <2>1. CASE q.op = "get"
      BY <2>1 DEF KernelInv
    <2>2. CASE q.op = "set"
      BY <1>1, <2>2 DEF KernelInv
    <2> QED BY <1>1, <2>1, <2>2
  <1>5. KernelInv' /\ Moves(t, KernelPhase("return", q, f), KernelAnswer("return", q, f))
    <2>1. "return" \in KernelLabels
      BY DEF KernelLabels
    <2> QED BY <1>1, <1>2, <1>3, <1>4, <2>1, KernelGoes
  <1>6. Moves(t, "applied", IF q.op = "get" THEN store[q.key] ELSE "ok")
    BY <1>5 DEF KernelPhase, KernelAnswer
  <1>7. KernelView /\ KernelView'
    BY <1>5, KernelViews
  <1>8. PhaseOf[t] = "called" /\ Denoted(q.key) = store[q.key]
    BY <1>1, <1>7 DEF KernelView, KernelPhase
  <1>9. IF q.op = "get" THEN Kept ELSE Put(q)
    <2>1. CASE q.op = "get"
      BY <1>5, <2>1, KernelKept
    <2>2. CASE q.op # "get"
      <3>1. store' = [store EXCEPT ![q.key] = q.val]
        BY <2>2
      <3>2. \A k \in KeysOf["kernel-keyring"] :
                store'[k] = IF k = q.key THEN q.val ELSE store[k]
        BY <1>1, <3>1 DEF KernelInv
      <3>3. Put(q)
        BY <1>1, <1>7, <3>2 DEF KernelView, Put
      <3> QED BY <2>2, <3>3
    <2> QED BY <2>1, <2>2
  <1>10. MovesMissing(t, {}, IF q.op # "set" /\ Denoted(q.key) = None THEN "notfound"
                             ELSE IF q.op = "get" THEN Denoted(q.key) ELSE "ok")
    BY <1>1, <1>6, <1>8 DEF Moves, MovesMissing
  <1>11. Implemented
    BY <1>1, <1>8, <1>9, <1>10, Takes
  <1> QED BY <1>5, <1>11

LEMMA KernelReadSound ==
  ASSUME Composed, backend = "kernel-keyring", KernelInv, NEW t \in Threads,
         DelegateToKernel, Kernel!Read(t)
  PROVE  KernelInv' /\ Implemented
  <1> DEFINE v == store[req[t].key]
  <1>1. backend' = backend /\ UNCHANGED <<orphans>> /\ pc[t] = "read"
    BY DEF DelegateToKernel, macVars, Kernel!Read
  <1>2. /\ frame[t] \in KernelFrames /\ KernelStands(pc[t], req[t], frame[t])
        /\ req[t].key \in KeysOf["kernel-keyring"]
    BY <1>1, KernelRequest DEF KernelInv
  <1>3. CASE Kernel!Unexpected(t)
    BY <1>1, <1>3, KernelUnexpected
  <1>4. CASE frame[t].key = "gone" /\ Kernel!Fail(t, "ENOKEY")
    BY <1>1, <1>4, KernelFails
  <1>5. ~frame[t].done /\ req[t].op = "get"
    BY <1>1, <1>2 DEF KernelStands
  <1>6. ASSUME frame[t].key = "live"
        PROVE  v # None /\ v \in ValuesOf["kernel-keyring"] /\ SizeOf[v] \in Nat
    <2>1. v # None
      BY <1>6 DEF KernelInv
    <2>2. v \in ValuesOf["kernel-keyring"]
      BY <1>2, <2>1 DEF KernelInv
    <2> QED BY <2>1, <2>2, InstanceFacts, OpenedKeyringAssumption DEF Backends
  <1>7. CASE /\ frame[t].key = "live" /\ UNCHANGED <<store, session, req>>
             /\ Kernel!Go(t, "return", [frame[t] EXCEPT !.res = "ok", !.val = v, !.done = TRUE])
    <2> DEFINE f == [frame[t] EXCEPT !.res = "ok", !.val = v, !.done = TRUE]
    <2>1. /\ f \in KernelFrames /\ f.key = frame[t].key /\ f.done = TRUE /\ f.res = "ok"
          /\ f.val = v
      <3>1. v # None /\ v \in ValuesOf["kernel-keyring"]
        BY <1>6, <1>7
      <3> HIDE DEF v
      <3> QED BY <1>2, <3>1 DEF KernelFrames, Kernel!Results
    <2>2. Kernel!Go(t, "return", f)
      BY <1>7
    <2> HIDE DEF f
    <2>3. f.done /\ f.key # "gone"
      BY <1>7, <2>1
    <2> QED BY <1>1, <1>5, <1>6, <1>7, <2>1, <2>2, <2>3, KernelTakes
  <1>8. CASE /\ frame[t].key = "live" /\ UNCHANGED <<store, session, req>>
             /\ Kernel!Go(t, "read", [frame[t] EXCEPT !.size = SizeOf[v]])
    <2> DEFINE f == [frame[t] EXCEPT !.size = SizeOf[v]]
    <2>1. f \in KernelFrames /\ f.key = frame[t].key /\ f.done = frame[t].done
      <3>1. SizeOf[v] \in Nat
        BY <1>6, <1>8
      <3> HIDE DEF v
      <3> QED BY <1>2, <3>1 DEF KernelFrames
    <2>2. Kernel!Go(t, "read", f)
      BY <1>8
    <2> HIDE DEF f
    <2>3. ~f.done /\ f.key = "live"
      BY <1>5, <1>8, <2>1
    <2> QED BY <1>1, <1>5, <1>6, <1>8, <2>1, <2>2, <2>3, KernelGoesOn
  <1> QED BY <1>3, <1>4, <1>7, <1>8 DEF Kernel!Read, Kernel!Key

LEMMA KernelAddSound ==
  ASSUME Composed, backend = "kernel-keyring", KernelInv, NEW t \in Threads,
         DelegateToKernel, Kernel!Add(t)
  PROVE  KernelInv' /\ Implemented
  <1>1. backend' = backend /\ UNCHANGED <<orphans>> /\ pc[t] = "add"
    BY DEF DelegateToKernel, macVars, Kernel!Add
  <1>2. frame[t] \in KernelFrames /\ KernelStands(pc[t], req[t], frame[t])
    BY DEF KernelInv
  <1>3. req[t].op = "set" /\ frame[t].key = "none"
    BY <1>1, <1>2 DEF KernelStands
  <1>4. CASE Kernel!Unexpected(t)
    BY <1>1, <1>4, KernelUnexpected
  <1>5. CASE Kernel!Fail(t, "EKEYREVOKED") \/ Kernel!Fail(t, "EINVAL")
    BY <1>1, <1>3, <1>5, KernelFails
  <1>6. CASE /\ session = "live" /\ store' = [store EXCEPT ![Kernel!Key(t)] = req[t].val]
             /\ Kernel!Go(t, "return", [frame[t] EXCEPT !.res = "ok", !.done = TRUE])
             /\ UNCHANGED <<session, req>>
    <2> DEFINE f == [frame[t] EXCEPT !.res = "ok", !.done = TRUE]
    <2>1. f \in KernelFrames /\ f.key = frame[t].key /\ f.done = TRUE /\ f.res = "ok"
      BY <1>2 DEF KernelFrames, Kernel!Results
    <2>2. Kernel!Go(t, "return", f)
      BY <1>6
    <2> HIDE DEF f
    <2>3. f.done
      BY <2>1
    <2>4. store' = [store EXCEPT ![req[t].key] = req[t].val]
      BY <1>6 DEF Kernel!Key
    <2> QED BY <1>1, <1>3, <1>6, <2>1, <2>2, <2>3, <2>4, KernelTakes
  <1> QED BY <1>4, <1>5, <1>6 DEF Kernel!Add

\* The goroutines that hold a key that goes.
Holders(keys) ==
    {t \in Threads : pc[t] \in {"size", "read", "unlink"} /\ req[t].key \in keys
                     /\ frame[t].key = "live"}

LEMMA KernelUnlinkedFrames ==
  ASSUME NEW keys, NEW frames, NEW g, g = Kernel!Unlinked(keys, frames)
  PROVE  /\ g = [u \in Threads |-> g[u]]
         /\ \A u \in Threads : g[u] = IF req[u].key \in keys /\ frames[u].key = "live"
                                     THEN [frames[u] EXCEPT !.key = "gone"] ELSE frames[u]
  BY DEF Kernel!Unlinked, Kernel!Key

\* A frame of somebody whose key may have gone.
LEMMA KernelUnlinked ==
  ASSUME KernelInv, NEW keys \in SUBSET KeysOf["kernel-keyring"], NEW f \in KernelFrames,
         NEW g, NEW q \in Kernel!Requests \cup {Kernel!NoRequest}, NEW label \in KernelLabels,
         KernelStands(label, q, f),
         g = IF q.key \in keys /\ f.key = "live" THEN [f EXCEPT !.key = "gone"] ELSE f
  PROVE  /\ g \in KernelFrames /\ KernelStands(label, q, g)
         /\ g.key = "live" => f.key = "live" /\ q.key \notin keys
         /\ KernelPhase(label, q, g) =
               IF label \in {"size", "read", "unlink"} /\ q.key \in keys /\ f.key = "live"
               THEN "applied" ELSE KernelPhase(label, q, f)
         /\ KernelAnswer(label, q, g) =
               IF label \in {"size", "read", "unlink"} /\ q.key \in keys /\ f.key = "live"
               THEN "notfound" ELSE KernelAnswer(label, q, f)
  <1>1. CASE ~(q.key \in keys /\ f.key = "live")
    BY <1>1
  <1>2. CASE q.key \in keys /\ f.key = "live"
    <2>1. g \in KernelFrames /\ g.key = "gone" /\ g.done = f.done /\ g.res = f.res /\ g.val = f.val
      BY <1>2 DEF KernelFrames
    <2>2. label \notin {"idle", "search", "add"}
      BY <1>2 DEF KernelStands
    <2>3. KernelStands(label, q, g)
      BY <2>1, <2>2 DEF KernelStands
    <2>4. KernelPhase(label, q, g) = IF label \in {"size", "read", "unlink"} THEN "applied"
                                     ELSE KernelPhase(label, q, f)
      BY <2>1, <2>2 DEF KernelPhase, KernelLabels
    <2>5. KernelAnswer(label, q, g) = IF label \in {"size", "read", "unlink"} THEN "notfound"
                                      ELSE KernelAnswer(label, q, f)
      BY <2>1, <2>2, <2>4 DEF KernelAnswer, KernelLabels
    <2> QED BY <1>2, <2>1, <2>3, <2>4, <2>5
  <1> QED BY <1>1, <1>2

LEMMA KernelUnlinkSound ==
  ASSUME Composed, backend = "kernel-keyring", KernelInv, NEW t \in Threads,
         DelegateToKernel, Kernel!Unlink(t)
  PROVE  KernelInv' /\ Implemented
  <1> DEFINE q == req[t]
  <1>1. backend' = backend /\ UNCHANGED <<orphans>> /\ pc[t] = "unlink"
    BY DEF DelegateToKernel, macVars, Kernel!Unlink
  <1>2. /\ frame[t] \in KernelFrames /\ KernelStands(pc[t], q, frame[t])
        /\ q \in Kernel!Requests /\ q.key \in KeysOf["kernel-keyring"] /\ q.key \in Keys
        /\ q.op = "delete" /\ q.val = None
    BY <1>1, KernelRequest DEF KernelInv, KernelStands
  <1>3. CASE Kernel!Unexpected(t)
    BY <1>1, <1>3, KernelUnexpected
  <1>4. CASE frame[t].key = "gone" /\ \E errno \in {"ENOKEY", "ENOENT"} : Kernel!Fail(t, errno)
    BY <1>1, <1>4, KernelFails
  <1>5. CASE /\ frame[t].key = "live" /\ store' = [store EXCEPT ![Kernel!Key(t)] = None]
             /\ pc' = [pc EXCEPT ![t] = "return"] /\ UNCHANGED <<session, req>>
             /\ frame' = Kernel!Unlinked({Kernel!Key(t)},
                           [frame EXCEPT ![t] = [frame[t] EXCEPT !.res = "ok", !.done = TRUE]])
    <2> DEFINE f == [frame[t] EXCEPT !.res = "ok", !.done = TRUE]
               T == Holders({q.key}) \ {t}
    <2>1. f \in KernelFrames /\ f.key = "live" /\ f.done = TRUE /\ f.res = "ok"
      BY <1>2, <1>5 DEF KernelFrames, Kernel!Results
    <2>2. /\ frame' = [u \in Threads |-> frame'[u]]
          /\ \A u \in Threads :
             frame'[u] = LET g == IF u = t THEN f ELSE frame[u]
                         IN  IF req[u].key \in {q.key} /\ g.key = "live"
                             THEN [g EXCEPT !.key = "gone"] ELSE g
      <3> DEFINE fs == [frame EXCEPT ![t] = f]
      <3>1. \A u \in Threads : fs[u] = IF u = t THEN f ELSE frame[u]
        BY DEF KernelInv
      <3>2. frame' = Kernel!Unlinked({q.key}, fs)
        BY <1>5 DEF Kernel!Key
      <3> HIDE DEF f, fs, q
      <3>3. \A u \in Threads :
               frame'[u] = IF req[u].key \in {q.key} /\ fs[u].key = "live"
                           THEN [fs[u] EXCEPT !.key = "gone"] ELSE fs[u]
        BY <3>2, KernelUnlinkedFrames
      <3>4. frame' = [u \in Threads |-> frame'[u]]
        BY <3>2, Zenon DEF Kernel!Unlinked
      <3> QED BY <3>1, <3>3, <3>4
    <2> HIDE DEF f
    <2>3. \A u \in Threads : pc'[u] = IF u = t THEN "return" ELSE pc[u]
      BY <1>5 DEF KernelInv
    <2>4. KernelStands("return", q, f)
      BY <1>2, <2>1 DEF KernelStands
    <2>5. /\ frame'[t] \in KernelFrames /\ KernelStands(pc'[t], req'[t], frame'[t])
          /\ frame'[t].key # "live" /\ KernelPhase(pc'[t], req'[t], frame'[t]) = "applied"
          /\ KernelAnswer(pc'[t], req'[t], frame'[t]) = "ok"
      <3>1. pc'[t] = "return" /\ req'[t] = q
        BY <1>5, <2>3
      <3>2. frame'[t] = IF q.key \in {q.key} /\ f.key = "live"
                        THEN [f EXCEPT !.key = "gone"] ELSE f
        BY <2>2
      <3>3. "return" \in KernelLabels /\ {q.key} \in SUBSET KeysOf["kernel-keyring"]
        BY <1>2 DEF KernelLabels
      <3>4. /\ frame'[t] \in KernelFrames /\ KernelStands("return", q, frame'[t])
            /\ frame'[t].key # "live"
            /\ KernelPhase("return", q, frame'[t]) = KernelPhase("return", q, f)
            /\ KernelAnswer("return", q, frame'[t]) = KernelAnswer("return", q, f)
        BY <1>2, <2>1, <2>4, <3>2, <3>3, KernelUnlinked
      <3>5. KernelPhase("return", q, f) = "applied" /\ KernelAnswer("return", q, f) = "ok"
        BY <1>2, <2>1 DEF KernelPhase, KernelAnswer
      <3> QED BY <3>1, <3>4, <3>5
    <2>6. ASSUME NEW u \in Threads, u # t
          PROVE  /\ frame'[u] \in KernelFrames /\ KernelStands(pc'[u], req'[u], frame'[u])
                 /\ frame'[u].key = "live" => store[req[u].key] # None /\ req[u].key # q.key
                 /\ KernelPhase(pc'[u], req'[u], frame'[u]) =
                      IF u \in T THEN "applied" ELSE KernelPhase(pc[u], req[u], frame[u])
                 /\ KernelAnswer(pc'[u], req'[u], frame'[u]) =
                      IF u \in T THEN "notfound" ELSE KernelAnswer(pc[u], req[u], frame[u])
      <3>1. pc'[u] = pc[u] /\ req'[u] = req[u]
        BY <1>5, <2>3, <2>6
      <3>2. frame'[u] = IF req[u].key \in {q.key} /\ frame[u].key = "live"
                        THEN [frame[u] EXCEPT !.key = "gone"] ELSE frame[u]
        BY <2>2, <2>6
      <3>3. /\ frame[u] \in KernelFrames /\ KernelStands(pc[u], req[u], frame[u])
            /\ req[u] \in Kernel!Requests \cup {Kernel!NoRequest} /\ pc[u] \in KernelLabels
            /\ frame[u].key = "live" => store[req[u].key] # None
        BY DEF KernelInv
      <3>4. u \in T <=> pc[u] \in {"size", "read", "unlink"} /\ req[u].key \in {q.key}
                        /\ frame[u].key = "live"
        BY <2>6 DEF Holders
      <3>5. {q.key} \in SUBSET KeysOf["kernel-keyring"]
        BY <1>2
      <3> HIDE DEF T
      <3>6. /\ frame'[u] \in KernelFrames /\ KernelStands(pc[u], req[u], frame'[u])
            /\ frame'[u].key = "live" => frame[u].key = "live" /\ req[u].key \notin {q.key}
            /\ KernelPhase(pc[u], req[u], frame'[u]) =
                 IF u \in T THEN "applied" ELSE KernelPhase(pc[u], req[u], frame[u])
            /\ KernelAnswer(pc[u], req[u], frame'[u]) =
                 IF u \in T THEN "notfound" ELSE KernelAnswer(pc[u], req[u], frame[u])
        BY <3>2, <3>3, <3>4, <3>5, KernelUnlinked
      <3> HIDE DEF q
      <3> QED BY <3>1, <3>3, <3>6
    <2>7. \A k \in KeysOf["kernel-keyring"] : store'[k] = IF k = q.key THEN None ELSE store[k]
      BY <1>2, <1>5 DEF KernelInv, Kernel!Key
    <2>8. KernelInv'
      <3>1. store' \in [KeysOf["kernel-keyring"] -> ValuesOf["kernel-keyring"] \cup {None}]
        BY <1>5 DEF KernelInv
      <3>2. pc' \in [Threads -> KernelLabels] /\ frame' \in [Threads -> KernelFrames]
            /\ req' \in [Threads -> Kernel!Requests \cup {Kernel!NoRequest}]
        <4>1. frame' = [u \in Threads |-> frame'[u]]
          BY <2>2
        <4>2. \A u \in Threads : frame'[u] \in KernelFrames
          BY <2>5, <2>6
        <4>3. pc' \in [Threads -> KernelLabels]
          BY <1>5 DEF KernelInv, KernelLabels
        <4> QED BY <1>5, <4>1, <4>2, <4>3 DEF KernelInv
      <3>3. ASSUME NEW u \in Threads, frame'[u].key = "live"
            PROVE  store'[req'[u].key] # None
        <4>1. u # t /\ store[req[u].key] # None /\ req[u].key # q.key /\ req'[u] = req[u]
          BY <1>5, <2>5, <2>6, <3>3
        <4>2. req[u].key \in KeysOf["kernel-keyring"]
          <5>1. req'[u] \in Kernel!Requests
            <6>1. KernelStands(pc'[u], req'[u], frame'[u])
              BY <2>6, <4>1
            <6> QED BY <3>3, <6>1 DEF KernelStands
          <5> QED BY <4>1, <5>1 DEF Kernel!Requests
        <4> QED BY <2>7, <4>1, <4>2
      <3>4. session' = "revoked" => \A k \in KeysOf["kernel-keyring"] : store'[k] = None
        BY <1>5, <2>7 DEF KernelInv
      <3>5. \A u \in Threads : KernelStands(pc'[u], req'[u], frame'[u])
        BY <2>5, <2>6
      <3> QED BY <3>1, <3>2, <3>3, <3>4, <3>5 DEF KernelInv, KernelStands
    <2>9. KernelView /\ KernelView'
      BY <1>1, <2>8, KernelViews
    <2>10. PhaseOf[t] = "called" /\ Denoted(q.key) = store[q.key] /\ store[q.key] # None
      BY <1>1, <1>2, <1>5, <2>9 DEF KernelView, KernelPhase, KernelInv
    <2>11. Put(q)
      BY <1>2, <2>7, <2>9 DEF KernelView, Put
    <2>12. MovesMissing(t, T, IF q.op # "set" /\ Denoted(q.key) = None THEN "notfound"
                              ELSE IF q.op = "get" THEN Denoted(q.key) ELSE "ok")
      <3>1. t \notin T
        OBVIOUS
      <3> HIDE DEF T
      <3>2. PhaseOf'[t] = "applied" /\ AnswerOf'[t] = "ok"
        BY <2>5, <2>9 DEF KernelView
      <3>3. ASSUME NEW u \in Threads, u # t
            PROVE  /\ PhaseOf'[u] = IF u \in T THEN "applied" ELSE PhaseOf[u]
                   /\ AnswerOf'[u] = IF u \in T THEN "notfound" ELSE AnswerOf[u]
        BY <2>6, <2>9, <3>3 DEF KernelView
      <3> QED BY <1>2, <2>10, <3>1, <3>2, <3>3 DEF MovesMissing
    <2>13. \A u \in T : PhaseOf[u] = "called" /\ req[u].op # "set"
                        /\ q.op = "delete" /\ req[u].key = q.key
      <3> SUFFICES ASSUME NEW u \in T
                   PROVE  PhaseOf[u] = "called" /\ req[u].op # "set" /\ req[u].key = q.key
        BY <1>2
      <3>1. u \in Threads /\ pc[u] \in {"size", "read", "unlink"} /\ req[u].key = q.key
            /\ frame[u].key = "live"
        BY DEF Holders
      <3>2. PhaseOf[u] = "called"
        BY <2>9, <3>1 DEF KernelView, KernelPhase
      <3>3. req[u].op # "set"
        BY <3>1 DEF KernelInv, KernelStands
      <3> QED BY <3>1, <3>2, <3>3
    <2>14. T \in SUBSET Threads /\ t \notin T
      BY DEF Holders
    <2> HIDE DEF T
    <2>15. Implemented
      BY <1>1, <1>2, <1>5, <2>10, <2>11, <2>12, <2>13, <2>14, Takes
    <2> QED BY <2>8, <2>15
  <1> QED BY <1>3, <1>4, <1>5 DEF Kernel!Unlink

LEMMA KernelLogoutSound ==
  ASSUME Composed, backend = "kernel-keyring", KernelInv, DelegateToKernel, Kernel!Logout
  PROVE  KernelInv' /\ Implemented
  <1> DEFINE T == Holders(KeysOf["kernel-keyring"])
  <1>1. /\ backend' = backend /\ UNCHANGED <<orphans, pc, req>> /\ session' = "revoked"
        /\ store' = [k \in KeysOf["kernel-keyring"] |-> None]
        /\ frame' = Kernel!Unlinked(KeysOf["kernel-keyring"], frame)
    BY DEF DelegateToKernel, macVars, Kernel!Logout
  <1>2. ASSUME NEW u \in Threads
        PROVE  /\ frame'[u] \in KernelFrames /\ KernelStands(pc[u], req[u], frame'[u])
               /\ frame'[u].key # "live"
               /\ KernelPhase(pc[u], req[u], frame'[u]) =
                    IF u \in T THEN "applied" ELSE KernelPhase(pc[u], req[u], frame[u])
               /\ KernelAnswer(pc[u], req[u], frame'[u]) =
                    IF u \in T THEN "notfound" ELSE KernelAnswer(pc[u], req[u], frame[u])
    <2>1. frame'[u] = IF req[u].key \in KeysOf["kernel-keyring"] /\ frame[u].key = "live"
                      THEN [frame[u] EXCEPT !.key = "gone"] ELSE frame[u]
      BY <1>1, KernelUnlinkedFrames
    <2>2. /\ frame[u] \in KernelFrames /\ KernelStands(pc[u], req[u], frame[u])
          /\ req[u] \in Kernel!Requests \cup {Kernel!NoRequest} /\ pc[u] \in KernelLabels
      BY DEF KernelInv
    <2>3. u \in T <=> pc[u] \in {"size", "read", "unlink"}
                      /\ req[u].key \in KeysOf["kernel-keyring"] /\ frame[u].key = "live"
      BY DEF Holders
    <2>4. frame[u].key = "live" => req[u].key \in KeysOf["kernel-keyring"]
      BY <2>2 DEF KernelStands, Kernel!Requests
    <2> HIDE DEF T
    <2> QED BY <2>1, <2>2, <2>3, <2>4, KernelUnlinked
  <1>3. KernelInv'
    <2>1. frame' \in [Threads -> KernelFrames]
      <3>1. frame' = [u \in Threads |-> frame'[u]]
        BY <1>1, KernelUnlinkedFrames
      <3> QED BY <1>2, <3>1
    <2>2. \A u \in Threads : KernelStands(pc'[u], req'[u], frame'[u]) /\ frame'[u].key # "live"
      BY <1>1, <1>2
    <2> QED BY <1>1, <2>1, <2>2 DEF KernelInv, KernelStands
  <1>4. KernelView /\ KernelView'
    BY <1>1, <1>3, KernelViews
  <1>5. \A u \in Threads : /\ PhaseOf'[u] = IF u \in T THEN "applied" ELSE PhaseOf[u]
                           /\ AnswerOf'[u] = IF u \in T THEN "notfound" ELSE AnswerOf[u]
    BY <1>1, <1>2, <1>4 DEF KernelView
  <1>6. ASSUME NEW u \in T
        PROVE  PhaseOf[u] = "called" /\ req[u].op # "set" /\ req[u].key \in Keys
    <2>1. u \in Threads /\ pc[u] \in {"size", "read", "unlink"} /\ frame[u].key = "live"
      BY DEF Holders
    <2>2. PhaseOf[u] = "called"
      BY <1>4, <2>1 DEF KernelView, KernelPhase
    <2>3. req[u].op # "set"
      BY <2>1 DEF KernelInv, KernelStands
    <2> QED BY <2>1, <2>2, <2>3, KernelRequest
  <1>7. \A k \in Keys : Denoted(k)' = None
    BY <1>1, <1>4 DEF KernelView
  <1>8. T \in SUBSET Threads
    BY DEF Holders
  <1> HIDE DEF T
  <1>9. Implemented
    BY <1>1, <1>5, <1>6, <1>7, <1>8, Vanishes
  <1> QED BY <1>3, <1>9

LEMMA KernelSound ==
  ASSUME Composed, backend = "kernel-keyring", KernelInv, DelegateToKernel
  PROVE  KernelInv' /\ Implemented
  BY KernelCallSound, KernelGetSound, KernelReadSizeSound, KernelReadSound, KernelAddSound,
     KernelUnlinkSound, KernelReturnSound, KernelLogoutSound
     DEF DelegateToKernel, Kernel!Next, Kernel!Step
-----------------------------------------------------------------------------
(* The macOS Keychain, as a map.                                             *)

MacFrames == [done : BOOLEAN, entry : Mac!Entries \cup {None}, res : Mac!Results,
              val : Values \cup {None}]

\* A command that was started, or killed, is not too long to be read.
MacStands(label, q, f) ==
    /\ label # "idle" => q \in Mac!Requests
    /\ label = "run" => ~Mac!TooLong(q) /\ (~f.done => f.entry = None)

MacInv ==
    /\ store \in [KeysOf["keychain"] -> Mac!Entries \cup {None}]
    /\ pc \in [Threads -> {"idle", "run", "return"}]
    /\ req \in [Threads -> Mac!Requests \cup {Mac!NoRequest}]
    /\ frame \in [Threads -> MacFrames]
    /\ \A t \in Threads : MacStands(pc[t], req[t], frame[t])
    /\ IsABag(orphans)
    /\ \A q \in BagToSet(orphans) : q \in Mac!Requests /\ q.op # "get" /\ ~Mac!TooLong(q)

MacPhase(label, q, f) ==
    IF label = "idle" THEN "idle"
    ELSE IF label = "run" THEN (IF f.done THEN "applied" ELSE "called")
    ELSE IF f.res \in {"ok", "notfound"} THEN "applied" ELSE "failed"

MacAnswer(label, q, f) ==
    IF MacPhase(label, q, f) # "applied" THEN None
    ELSE IF (label = "return" /\ f.res = "notfound") \/ (q.op # "set" /\ f.entry = None)
         THEN "notfound"
    ELSE IF q.op = "get" THEN (IF label = "return" THEN f.val ELSE Mac!Value(f.entry))
    ELSE "ok"

MacView ==
    /\ \A t \in Threads : /\ PhaseOf[t] = MacPhase(pc[t], req[t], frame[t])
                          /\ AnswerOf[t] = MacAnswer(pc[t], req[t], frame[t])
    /\ \A k \in Keys : Denoted(k) = IF k \in KeysOf["keychain"] THEN Mac!Value(store[k]) ELSE None

LEMMA MacIsSeen == backend = "keychain" /\ MacInv => MacView
  <1> SUFFICES ASSUME backend = "keychain", MacInv PROVE MacView
    OBVIOUS
  <1>1. ASSUME NEW t \in Threads
        PROVE  PhaseOf[t] = MacPhase(pc[t], req[t], frame[t])
    <2>1. pc[t] \in {"idle", "run", "return"}
      BY DEF MacInv
    <2> QED BY <2>1, Mapping DEF Mac!PhaseOf, MacPhase
  <1>2. ASSUME NEW t \in Threads
        PROVE  AnswerOf[t] = MacAnswer(pc[t], req[t], frame[t])
    <2>1. PhaseOf = Mac!PhaseOf /\ AnswerOf = Mac!AnswerOf
      BY Mapping
    <2>2. AnswerOf[t] = IF PhaseOf[t] # "applied" THEN None
                        ELSE IF pc[t] = "return" /\ frame[t].res = "notfound" THEN "notfound"
                        ELSE IF req[t].op # "set" /\ frame[t].entry = None THEN "notfound"
                        ELSE IF req[t].op = "get"
                             THEN (IF pc[t] = "return" THEN frame[t].val
                                   ELSE Mac!Value(frame[t].entry))
                        ELSE "ok"
      BY <2>1 DEF Mac!AnswerOf
    <2> QED BY <1>1, <2>2 DEF MacAnswer
  <1>3. \A k \in Keys :
           Denoted(k) = IF k \in KeysOf["keychain"] THEN Mac!Value(store[k]) ELSE None
    BY DEF Denoted
  <1> QED BY <1>1, <1>2, <1>3 DEF MacView

LEMMA MacViews ==
  ASSUME backend = "keychain", backend' = backend, MacInv, MacInv'
  PROVE  MacView /\ MacView'
  <1>1. (backend = "keychain")' /\ MacInv' => MacView'
    BY MacIsSeen, PTL
  <1> QED BY <1>1, MacIsSeen

LEMMA MacFacts ==
  ASSUME NEW A, NEW B
  PROVE  /\ Mac!(+)(A, B) = A (+) B /\ Mac!(-)(A, B) = A (-) B
         /\ Mac!SetToBag(A) = SetToBag(A) /\ Mac!BagToSet(A) = BagToSet(A)
         /\ Mac!EmptyBag = EmptyBag
  <1>1. Mac!(+)(A, B) = A (+) B
    BY Zenon DEF Mac!(+), (+)
  <1>2. Mac!(-)(A, B) = A (-) B
    BY Zenon DEF Mac!(-), (-)
  <1>3. Mac!SetToBag(A) = SetToBag(A) /\ Mac!BagToSet(A) = BagToSet(A)
    BY Zenon DEF Mac!SetToBag, SetToBag, Mac!BagToSet, BagToSet
  <1>4. Mac!EmptyBag = EmptyBag
    BY Zenon DEF Mac!EmptyBag, EmptyBag, Mac!SetToBag, SetToBag
  <1> QED BY <1>1, <1>2, <1>3, <1>4

\* What an entry stands for; only a missing one stands for nothing.
LEMMA MacValue ==
  ASSUME NEW e \in Mac!Entries \cup {None}
  PROVE  /\ Mac!Value(e) = None <=> e = None
         /\ e # None /\ e.form # "undecodable" =>
               Mac!Value(e) = Mac!decodeValue(e) /\ Mac!decodeValue(e) \in Values
  <1>1. None \notin Values /\ Unreadable # None /\ ValuesOf["keychain"] \subseteq Values
    BY OpenedKeyringAssumption DEF Backends
  <1>2. CASE e = None
    BY <1>2 DEF Mac!Value
  <1>3. CASE e # None
    <2>1. e \in Mac!Entries /\ e.val \in Values
      BY <1>1, <1>3 DEF Mac!Entries
    <2>2. Trimmed[e.val] \in Values
      BY <2>1, OpenedKeyringAssumption
    <2> QED BY <1>1, <1>3, <2>1, <2>2 DEF Mac!Value, Mac!decodeValue
  <1> QED BY <1>2, <1>3

LEMMA MacEncoded ==
  ASSUME NEW v \in ValuesOf["keychain"]
  PROVE  /\ Mac!Encoded(v) \in Mac!Entries /\ Mac!Encoded(v) # None
         /\ ~(CommandLength[v] > commandLimit) => Mac!Value(Mac!Encoded(v)) = v
  <1>1. Mac!Encoded(v) \in Mac!Entries /\ Mac!Encoded(v).val = v
    BY DEF Mac!Encoded, Mac!Entries
  <1>2. Mac!Encoded(v) # None
    <2>1. Mac!Entries \subseteq [form : {"base64", "hex", "plain", "undecodable"}, val : Values]
      BY InstanceFacts DEF Mac!Entries, Backends
    <2> QED BY <1>1, <2>1, OpenedKeyringAssumption
  <1>3. ASSUME ~(CommandLength[v] > commandLimit) PROVE Mac!Encoded(v).form = "base64"
    BY <1>3 DEF Mac!Encoded
  <1> QED BY <1>1, <1>2, <1>3 DEF Mac!Value, Mac!decodeValue

LEMMA MacRequest ==
  ASSUME NEW q \in Mac!Requests
  PROVE  /\ q.key \in KeysOf["keychain"] /\ q.key \in Keys /\ q.op \in {"get", "set", "delete"}
         /\ q.op = "set" => q.val \in ValuesOf["keychain"]
         /\ q.op # "set" => q.val = None
  <1>1. KeysOf["keychain"] \subseteq Keys
    BY InstanceFacts DEF Backends
  <1> QED BY <1>1 DEF Mac!Requests

\* The keychain executes a request: one entry, or none.
LEMMA MacExecuted ==
  ASSUME MacInv, NEW q \in Mac!Requests, NEW s, s = Mac!Executed(q)
  PROVE  /\ s \in [KeysOf["keychain"] -> Mac!Entries \cup {None}]
         /\ q.op = "get" => s = store
         /\ \A k \in KeysOf["keychain"] :
               s[k] = IF k # q.key \/ q.op = "get" THEN store[k]
                      ELSE IF q.op = "set" THEN Mac!Encoded(q.val) ELSE None
  <1> DEFINE e == CASE q.op = "get"    -> store[q.key]
                    [] q.op = "set"    -> Mac!Encoded(q.val)
                    [] q.op = "delete" -> None
  <1>1. s = [store EXCEPT ![q.key] = e]
    BY DEF Mac!Executed
  <1>2. e = IF q.op = "get" THEN store[q.key]
            ELSE IF q.op = "set" THEN Mac!Encoded(q.val) ELSE None
    BY MacRequest
  <1>3. e \in Mac!Entries \cup {None}
    BY <1>2, MacRequest, MacEncoded DEF MacInv
  <1> HIDE DEF e
  <1> QED BY <1>1, <1>2, <1>3, MacRequest DEF MacInv

LEMMA MacKept ==
  ASSUME backend = "keychain", backend' = backend, MacInv, MacInv', store' = store
  PROVE  Kept
  <1>1. MacView /\ MacView'
    BY MacViews
  <1>2. ASSUME NEW k \in Keys PROVE Denoted(k)' = Denoted(k)
    <2>1. Denoted(k)' = IF k \in KeysOf["keychain"] THEN Mac!Value(store'[k]) ELSE None
      BY <1>1 DEF MacView
    <2> QED BY <1>1, <2>1 DEF MacView
  <1> QED BY <1>2 DEF Kept

\* A mutation that is not too long is what its key comes to denote.
LEMMA MacPut ==
  ASSUME backend = "keychain", backend' = backend, MacInv, MacInv', NEW q \in Mac!Requests,
         q.op # "get", ~Mac!TooLong(q), store' = Mac!Executed(q)
  PROVE  Put(q)
  <1>1. MacView /\ MacView'
    BY MacViews
  <1>2. \A k \in KeysOf["keychain"] :
           store'[k] = IF k # q.key THEN store[k]
                       ELSE IF q.op = "set" THEN Mac!Encoded(q.val) ELSE None
    BY MacExecuted
  <1>3. Mac!Value(IF q.op = "set" THEN Mac!Encoded(q.val) ELSE None) = q.val
    <2>1. CASE q.op = "set"
      BY <2>1, MacRequest, MacEncoded DEF Mac!TooLong
    <2>2. CASE q.op # "set"
      <3>1. Mac!Value(None) = None
        BY DEF Mac!Value
      <3> QED BY <2>2, <3>1, MacRequest
    <2> QED BY <2>1, <2>2
  <1>4. ASSUME NEW k \in Keys PROVE Denoted(k)' = IF k = q.key THEN q.val ELSE Denoted(k)
    <2>1. Denoted(k)' = IF k \in KeysOf["keychain"] THEN Mac!Value(store'[k]) ELSE None
      BY <1>1 DEF MacView
    <2>2. Denoted(k) = IF k \in KeysOf["keychain"] THEN Mac!Value(store[k]) ELSE None
      BY <1>1 DEF MacView
    <2>3. q.key \in KeysOf["keychain"]
      BY MacRequest
    <2> QED BY <1>2, <1>3, <2>1, <2>2, <2>3
  <1> QED BY <1>4 DEF Put

\* A goroutine comes to a label with a frame.
LEMMA MacGoes ==
  ASSUME MacInv, backend = "keychain", backend' = backend, NEW t \in Threads,
         NEW label \in {"idle", "run", "return"}, NEW f \in MacFrames, Mac!Go(t, label, f),
         store' \in [KeysOf["keychain"] -> Mac!Entries \cup {None}],
         NEW q \in Mac!Requests \cup {Mac!NoRequest}, req' = [req EXCEPT ![t] = q],
         MacStands(label, q, f), IsABag(orphans'),
         \A p \in BagToSet(orphans') : p \in Mac!Requests /\ p.op # "get" /\ ~Mac!TooLong(p)
  PROVE  MacInv' /\ Moves(t, MacPhase(label, q, f), MacAnswer(label, q, f))
  <1>1. /\ pc'[t] = label /\ frame'[t] = f /\ req'[t] = q
        /\ pc' \in [Threads -> {"idle", "run", "return"}] /\ frame' \in [Threads -> MacFrames]
        /\ req' \in [Threads -> Mac!Requests \cup {Mac!NoRequest}]
        /\ \A u \in Threads : u # t => pc'[u] = pc[u] /\ frame'[u] = frame[u] /\ req'[u] = req[u]
    BY DEF MacInv, Mac!Go
  <1>2. \A u \in Threads : MacStands(pc'[u], req'[u], frame'[u])
    BY <1>1 DEF MacInv
  <1>3. MacInv'
    BY <1>1, <1>2 DEF MacInv, MacStands, Mac!TooLong
  <1>4. MacView /\ MacView'
    BY <1>3, MacViews
  <1>5. ASSUME NEW u \in Threads
        PROVE  /\ PhaseOf'[u] = MacPhase(pc'[u], req'[u], frame'[u])
               /\ AnswerOf'[u] = MacAnswer(pc'[u], req'[u], frame'[u])
    BY <1>4 DEF MacView, MacPhase, MacAnswer, Mac!Value, Mac!decodeValue
  <1>6. Moves(t, MacPhase(label, q, f), MacAnswer(label, q, f))
    BY <1>1, <1>4, <1>5 DEF MacView, Moves
  <1> QED BY <1>3, <1>6

LEMMA MacCallSound ==
  ASSUME Composed, backend = "keychain", MacInv, NEW t \in Threads, DelegateToKeychain,
         Mac!Call(t)
  PROVE  MacInv' /\ Implemented
  <1>1. backend' = backend /\ UNCHANGED <<orphans, store>> /\ pc[t] = "idle"
    BY DEF DelegateToKeychain, Mac!Call
  <1>2. PICK q \in Mac!Requests :
           /\ req' = [req EXCEPT ![t] = q]
           /\ \/ Mac!Go(t, "return", [Mac!NewFrame EXCEPT !.res = "ended"])
              \/ Mac!Go(t, "return", [Mac!NewFrame EXCEPT !.res = "toolarge"])
              \/ ~Mac!TooLong(q) /\ Mac!Go(t, "run", Mac!NewFrame)
    BY DEF Mac!Call
  <1>3. PhaseOf[t] = "idle" /\ AnswerOf[t] = None
    BY <1>1, MacIsSeen DEF MacView, MacPhase, MacAnswer
  <1>4. q \in Contract!Requests
    BY InstanceFacts DEF Mac!Requests, Backends
  <1>5. /\ store' \in [KeysOf["keychain"] -> Mac!Entries \cup {None}] /\ IsABag(orphans')
        /\ \A p \in BagToSet(orphans') : p \in Mac!Requests /\ p.op # "get" /\ ~Mac!TooLong(p)
    BY <1>1 DEF MacInv
  <1>6. ASSUME NEW label \in {"run", "return"}, NEW f \in MacFrames, Mac!Go(t, label, f),
               MacStands(label, q, f), ~f.done, f.res \notin {"ok", "notfound"}
        PROVE  MacInv' /\ Implemented
    <2>1. MacInv' /\ Moves(t, MacPhase(label, q, f), MacAnswer(label, q, f))
      BY <1>1, <1>2, <1>5, <1>6, MacGoes
    <2>2. MacPhase(label, q, f) \in {"called", "failed"} /\ MacAnswer(label, q, f) = None
      BY <1>6 DEF MacPhase, MacAnswer
    <2>3. Kept
      BY <1>1, <2>1, MacKept
    <2> QED BY <1>1, <1>2, <1>3, <1>4, <2>1, <2>2, <2>3, Calls
  <1>7. ASSUME NEW res \in {"ended", "toolarge"},
               Mac!Go(t, "return", [Mac!NewFrame EXCEPT !.res = res])
        PROVE  MacInv' /\ Implemented
    <2> DEFINE f == [Mac!NewFrame EXCEPT !.res = res]
    <2>1. f \in MacFrames /\ ~f.done /\ f.res = res
      BY DEF Mac!NewFrame, MacFrames, Mac!Results
    <2>2. Mac!Go(t, "return", f)
      BY <1>7
    <2> HIDE DEF f
    <2>3. MacStands("return", q, f)
      BY <2>1 DEF MacStands
    <2> QED BY <1>6, <2>1, <2>2, <2>3
  <1>8. CASE ~Mac!TooLong(q) /\ Mac!Go(t, "run", Mac!NewFrame)
    <2> DEFINE f == Mac!NewFrame
    <2>1. f \in MacFrames /\ ~f.done /\ f.res = "none" /\ f.entry = None
      BY DEF Mac!NewFrame, MacFrames, Mac!Results
    <2>2. Mac!Go(t, "run", f)
      BY <1>8
    <2> HIDE DEF f
    <2>3. MacStands("run", q, f)
      BY <1>8, <2>1 DEF MacStands
    <2> QED BY <1>6, <2>1, <2>2, <2>3
  <1> QED BY <1>2, <1>7, <1>8

LEMMA MacReturnSound ==
  ASSUME Composed, backend = "keychain", MacInv, NEW t \in Threads, DelegateToKeychain,
         Mac!Return(t)
  PROVE  MacInv' /\ Implemented
  <1> DEFINE f == Mac!NewFrame
  <1>1. /\ backend' = backend /\ UNCHANGED <<orphans, store>> /\ pc[t] = "return"
        /\ req' = [req EXCEPT ![t] = Mac!NoRequest] /\ Mac!Go(t, "idle", f)
    BY DEF DelegateToKeychain, Mac!Return
  <1>2. f \in MacFrames
    BY DEF Mac!NewFrame, MacFrames, Mac!Results
  <1> HIDE DEF f
  <1>3. MacStands("idle", Mac!NoRequest, f)
    BY DEF MacStands
  <1>4. /\ store' \in [KeysOf["keychain"] -> Mac!Entries \cup {None}] /\ IsABag(orphans')
        /\ \A p \in BagToSet(orphans') : p \in Mac!Requests /\ p.op # "get" /\ ~Mac!TooLong(p)
    BY <1>1 DEF MacInv
  <1>5. /\ MacInv'
        /\ Moves(t, MacPhase("idle", Mac!NoRequest, f), MacAnswer("idle", Mac!NoRequest, f))
    BY <1>1, <1>2, <1>3, <1>4, MacGoes
  <1>6. Moves(t, "idle", None)
    BY <1>5 DEF MacPhase, MacAnswer
  <1>7. PhaseOf[t] \in {"applied", "failed"}
    BY <1>1, MacIsSeen DEF MacView, MacPhase
  <1>8. Kept
    BY <1>1, <1>5, MacKept
  <1>9. Implemented
    BY <1>1, <1>6, <1>7, <1>8, Returns DEF Mac!NoRequest
  <1> QED BY <1>5, <1>9

LEMMA MacExecutesSound ==
  ASSUME Composed, backend = "keychain", MacInv, NEW t \in Threads, DelegateToKeychain,
         Mac!SecurityExecutes(t)
  PROVE  MacInv' /\ Implemented
  <1> DEFINE q == req[t]
             e == store[q.key]
             f == [frame[t] EXCEPT !.done = TRUE, !.entry = e]
  <1>1. /\ backend' = backend /\ UNCHANGED <<orphans, req>> /\ pc[t] = "run" /\ ~frame[t].done
        /\ store' = Mac!Executed(q) /\ Mac!Go(t, "run", f)
    BY DEF DelegateToKeychain, Mac!SecurityExecutes
  <1>2. q \in Mac!Requests /\ ~Mac!TooLong(q) /\ frame[t] \in MacFrames
    BY <1>1 DEF MacInv, MacStands
  <1>3. /\ q.key \in KeysOf["keychain"] /\ q.key \in Keys /\ q.op \in {"get", "set", "delete"}
    BY <1>2, MacRequest
  <1>4. e \in Mac!Entries \cup {None}
    BY <1>3 DEF MacInv
  <1>5. f \in MacFrames /\ f.done = TRUE /\ f.entry = e
    <2> HIDE DEF e
    <2> QED BY <1>2, <1>4 DEF MacFrames
  <1> HIDE DEF f
  <1>6. f.done
    BY <1>5
  <1>7. /\ store' \in [KeysOf["keychain"] -> Mac!Entries \cup {None}] /\ IsABag(orphans')
        /\ \A p \in BagToSet(orphans') : p \in Mac!Requests /\ p.op # "get" /\ ~Mac!TooLong(p)
    BY <1>1, <1>2, MacExecuted DEF MacInv
  <1>8. MacStands("run", q, f) /\ req' = [req EXCEPT ![t] = q]
    BY <1>1, <1>2, <1>6 DEF MacStands, MacInv
  <1>9. MacInv' /\ Moves(t, MacPhase("run", q, f), MacAnswer("run", q, f))
    BY <1>1, <1>2, <1>5, <1>7, <1>8, MacGoes
  <1>10. PhaseOf[t] = "called" /\ Denoted(q.key) = Mac!Value(e)
    BY <1>1, <1>3, MacIsSeen DEF MacView, MacPhase
  <1>11. IF q.op = "get" THEN Kept ELSE Put(q)
    <2>1. CASE q.op = "get"
      <3>1. store' = store
        BY <1>1, <1>2, <2>1, MacExecuted
      <3> QED BY <1>1, <1>9, <2>1, <3>1, MacKept
    <2>2. CASE q.op # "get"
      BY <1>1, <1>2, <1>9, <2>2, MacPut
    <2> QED BY <2>1, <2>2
  <1>12. MovesMissing(t, {}, IF q.op # "set" /\ Denoted(q.key) = None THEN "notfound"
                             ELSE IF q.op = "get" THEN Denoted(q.key) ELSE "ok")
    <2>1. Mac!Value(e) = None <=> e = None
      BY <1>4, MacValue
    <2> HIDE DEF e
    <2>2. MacPhase("run", q, f) = "applied"
      BY <1>6 DEF MacPhase
    <2>3. MacAnswer("run", q, f) = IF q.op # "set" /\ e = None THEN "notfound"
                                   ELSE IF q.op = "get" THEN Mac!Value(e) ELSE "ok"
      BY <1>5, <2>2 DEF MacAnswer
    <2> QED BY <1>9, <1>10, <2>1, <2>2, <2>3 DEF Moves, MovesMissing
  <1>13. UNCHANGED <<req, orphans>> /\ backend' = backend
    BY <1>1
  <1>14. Implemented
    BY <1>3, <1>10, <1>11, <1>12, <1>13, Takes
  <1> QED BY <1>9, <1>14

\* An error of a command: what it had asked for may be late.
LEMMA MacErrs ==
  ASSUME Composed, backend = "keychain", backend' = backend, MacInv, NEW t \in Threads,
         pc[t] = "run", UNCHANGED <<store, req>>,
         NEW res \in Mac!Results \ {"ok", "notfound"}, Mac!Result(t, res),
         orphans' \in {orphans, IF frame[t].done \/ req[t].op = "get" THEN orphans
                                ELSE orphans (+) SetToBag({req[t]})}
  PROVE  MacInv' /\ Implemented
  <1> DEFINE q == req[t]
             f == [frame[t] EXCEPT !.res = res]
  <1>1. q \in Mac!Requests /\ ~Mac!TooLong(q) /\ frame[t] \in MacFrames
    BY DEF MacInv, MacStands
  <1>2. f \in MacFrames /\ f.res = res /\ Mac!Go(t, "return", f)
    BY <1>1 DEF MacFrames, Mac!Result
  <1> HIDE DEF f
  <1>3. MacStands("return", q, f) /\ req' = [req EXCEPT ![t] = q]
    BY <1>1 DEF MacStands, MacInv
  <1>4. /\ IsABag(orphans')
        /\ \A p \in BagToSet(orphans') : p \in Mac!Requests /\ p.op # "get" /\ ~Mac!TooLong(p)
    <2>1. CASE orphans' = orphans
      BY <2>1 DEF MacInv
    <2>2. CASE q.op # "get" /\ orphans' = orphans (+) SetToBag({q})
      <3>1. IsABag(orphans') /\ BagToSet(orphans') = BagToSet(orphans) \cup {q}
        BY <2>2, OneMore DEF Composed
      <3> QED BY <1>1, <2>2, <3>1 DEF MacInv
    <2> QED BY <2>1, <2>2
  <1>5. MacInv' /\ Moves(t, MacPhase("return", q, f), MacAnswer("return", q, f))
    <2>1. store' \in [KeysOf["keychain"] -> Mac!Entries \cup {None}]
      BY DEF MacInv
    <2> QED BY <1>1, <1>2, <1>3, <1>4, <2>1, MacGoes
  <1>6. Moves(t, "failed", None)
    BY <1>2, <1>5 DEF MacPhase, MacAnswer
  <1>7. PhaseOf[t] = IF frame[t].done THEN "applied" ELSE "called"
    BY MacIsSeen DEF MacView, MacPhase
  <1>8. Kept
    BY <1>5, MacKept
  <1>9. orphans' \in {orphans, IF PhaseOf[t] = "called" /\ q.op # "get"
                               THEN orphans (+) SetToBag({q}) ELSE orphans}
    BY <1>7
  <1>10. Implemented
    BY <1>6, <1>7, <1>8, <1>9, Fails
  <1> QED BY <1>5, <1>10

LEMMA MacEndsSound ==
  ASSUME Composed, backend = "keychain", MacInv, NEW t \in Threads, DelegateToKeychain,
         Mac!SecurityEnds(t)
  PROVE  MacInv' /\ Implemented
  <1> DEFINE q == req[t]
             e == frame[t].entry
  <1>1. /\ backend' = backend /\ UNCHANGED <<orphans, store, req>> /\ pc[t] = "run"
        /\ frame[t].done
    BY DEF DelegateToKeychain, Mac!SecurityEnds
  <1>2. /\ q \in Mac!Requests /\ frame[t] \in MacFrames /\ e \in Mac!Entries \cup {None}
        /\ q.op \in {"get", "set", "delete"}
    BY <1>1, MacRequest DEF MacInv, MacStands, MacFrames
  <1>3. /\ PhaseOf[t] = "applied"
        /\ AnswerOf[t] = IF q.op # "set" /\ e = None THEN "notfound"
                         ELSE IF q.op = "get" THEN Mac!Value(e) ELSE "ok"
    BY <1>1, MacIsSeen DEF MacView, MacPhase, MacAnswer
  <1>4. ASSUME NEW res \in Mac!Results \ {"ok", "notfound"}, Mac!Result(t, res)
        PROVE  MacInv' /\ Implemented
    BY <1>1, <1>4, MacErrs
  <1>5. ASSUME NEW f \in MacFrames, Mac!Go(t, "return", f),
               IF f.res = "notfound" THEN q.op # "set" /\ e = None
               ELSE f.res = "ok" /\ ~(q.op # "set" /\ e = None),
               f.entry = e, q.op = "get" /\ e # None => f.val = Mac!Value(e)
        PROVE  MacInv' /\ Implemented
    <2>1. MacStands("return", q, f) /\ req' = [req EXCEPT ![t] = q]
      BY <1>1, <1>2 DEF MacStands, MacInv
    <2>2. /\ store' \in [KeysOf["keychain"] -> Mac!Entries \cup {None}] /\ IsABag(orphans')
          /\ \A p \in BagToSet(orphans') : p \in Mac!Requests /\ p.op # "get" /\ ~Mac!TooLong(p)
      BY <1>1 DEF MacInv
    <2>3. MacInv' /\ Moves(t, MacPhase("return", q, f), MacAnswer("return", q, f))
      BY <1>1, <1>2, <1>5, <2>1, <2>2, MacGoes
    <2>4. MacPhase("return", q, f) = PhaseOf[t] /\ MacAnswer("return", q, f) = AnswerOf[t]
      <3> HIDE DEF e, q
      <3>1. MacPhase("return", q, f) = "applied"
        BY <1>5 DEF MacPhase
      <3> QED BY <1>2, <1>3, <1>5, <3>1 DEF MacAnswer
    <2>5. Rests
      BY <2>3, <2>4 DEF Moves, Rests
    <2>6. Kept
      BY <1>1, <2>3, MacKept
    <2>7. Implemented
      BY <1>1, <2>5, <2>6, Stutters
    <2> QED BY <2>3, <2>7
  <1>6. ASSUME NEW res \in {"ok", "notfound"}, Mac!Result(t, res),
               IF res = "notfound" THEN q.op # "set" /\ e = None
               ELSE ~(q.op # "set" /\ e = None) /\ q.op # "get"
        PROVE  MacInv' /\ Implemented
    <2> DEFINE f == [frame[t] EXCEPT !.res = res]
    <2>1. f \in MacFrames /\ f.res = res /\ f.entry = e /\ Mac!Go(t, "return", f)
      BY <1>2, <1>6 DEF MacFrames, Mac!Results, Mac!Result
    <2> HIDE DEF f
    <2> QED BY <1>5, <1>6, <2>1
  <1>7. CASE q.op # "set" /\ e = None /\ Mac!Result(t, Mac!keychainError(t, "notfound"))
    <2>1. Mac!keychainError(t, "notfound") \in {"ended", "notfound"}
      BY DEF Mac!keychainError
    <2> QED BY <1>4, <1>6, <1>7, <2>1 DEF Mac!Results
  <1>8. CASE q.op # "get" /\ ~(q.op # "set" /\ e = None) /\ Mac!Result(t, "ok")
    BY <1>6, <1>8
  <1>9. CASE Mac!Result(t, "failure")
    BY <1>4, <1>9 DEF Mac!Results
  <1>10. CASE /\ q.op = "get" /\ e # None /\ e.form # "undecodable"
              /\ Mac!Go(t, "return", [frame[t] EXCEPT !.res = "ok", !.val = Mac!decodeValue(e)])
    <2> DEFINE v == Mac!decodeValue(e)
               f == [frame[t] EXCEPT !.res = "ok", !.val = v]
    <2>1. v = Mac!Value(e) /\ v \in Values
      BY <1>2, <1>10, MacValue
    <2>2. f \in MacFrames /\ f.res = "ok" /\ f.entry = e /\ f.val = v
      <3> HIDE DEF v
      <3> QED BY <1>2, <2>1 DEF MacFrames, Mac!Results
    <2>3. Mac!Go(t, "return", f)
      BY <1>10
    <2> HIDE DEF f, v
    <2> QED BY <1>5, <1>10, <2>1, <2>2, <2>3
  <1> QED BY <1>7, <1>8, <1>9, <1>10 DEF Mac!SecurityEnds

LEMMA MacFailsSound ==
  ASSUME Composed, backend = "keychain", MacInv, NEW t \in Threads, DelegateToKeychain,
         Mac!SecurityFails(t) \/ Mac!SecurityKilled(t)
  PROVE  MacInv' /\ Implemented
  <1>1. backend' = backend /\ UNCHANGED <<store, req>> /\ pc[t] = "run"
    BY DEF DelegateToKeychain, Mac!SecurityFails, Mac!SecurityKilled
  <1>2. CASE Mac!SecurityFails(t)
    <2>1. PICK c \in Mac!CommandErrors : Mac!Result(t, Mac!keychainError(t, c))
      BY <1>2 DEF Mac!SecurityFails
    <2>2. Mac!keychainError(t, c) \in Mac!Results \ {"ok", "notfound"}
      BY DEF Mac!keychainError, Mac!CommandErrors, Mac!Results
    <2>3. orphans' = orphans
      BY <1>2 DEF Mac!SecurityFails
    <2> QED BY <1>1, <2>1, <2>2, <2>3, MacErrs
  <1>3. CASE Mac!SecurityKilled(t)
    <2>1. orphans' = IF frame[t].done \/ req[t].op = "get" THEN orphans
                     ELSE orphans (+) SetToBag({req[t]})
      BY <1>3, MacFacts DEF Mac!SecurityKilled
    <2>2. Mac!Result(t, "ended") /\ "ended" \in Mac!Results \ {"ok", "notfound"}
      BY <1>3 DEF Mac!SecurityKilled, Mac!Results
    <2> QED BY <1>1, <2>1, <2>2, MacErrs
  <1> QED BY <1>2, <1>3

LEMMA MacEndContextSound ==
  ASSUME Composed, backend = "keychain", MacInv, NEW t \in Threads, DelegateToKeychain,
         Mac!EndContext(t)
  PROVE  MacInv' /\ Implemented
  <1>1. backend' = backend /\ UNCHANGED <<store, orphans, pc, req, frame>>
    BY DEF DelegateToKeychain, Mac!EndContext
  <1>2. MacInv'
    BY <1>1 DEF MacInv, MacStands, Mac!TooLong
  <1>3. MacView /\ MacView'
    BY <1>1, <1>2, MacViews
  <1>4. Rests
    BY <1>1, <1>3 DEF MacView, Rests, MacPhase, MacAnswer, Mac!Value, Mac!decodeValue
  <1>5. Implemented
    BY <1>1, <1>2, <1>4, MacKept, Stutters
  <1> QED BY <1>2, <1>5

LEMMA MacLateSound ==
  ASSUME Composed, backend = "keychain", MacInv, DelegateToKeychain, Mac!Late
  PROVE  MacInv' /\ Implemented
  <1>1. PICK q \in BagToSet(orphans) :
           /\ orphans' = orphans (-) SetToBag({q})
           /\ store' = Mac!Executed(q) \/ store' = store
           /\ UNCHANGED <<pc, req, frame>>
    BY MacFacts DEF Mac!Late
  <1>2. backend' = backend
    BY DEF DelegateToKeychain
  <1>3. q \in Mac!Requests /\ q.op # "get" /\ ~Mac!TooLong(q)
    BY DEF MacInv
  <1>4. IsABag(orphans') /\ BagToSet(orphans') \subseteq BagToSet(orphans)
    BY <1>1, OneLess DEF Composed
  <1>5. store' \in [KeysOf["keychain"] -> Mac!Entries \cup {None}]
    BY <1>1, <1>3, MacExecuted DEF MacInv
  <1>6. MacInv'
    BY <1>1, <1>4, <1>5 DEF MacInv, MacStands, Mac!TooLong
  <1>7. MacView /\ MacView'
    BY <1>2, <1>6, MacViews
  <1>8. Rests
    BY <1>1, <1>7 DEF MacView, Rests, MacPhase, MacAnswer, Mac!Value, Mac!decodeValue
  <1>9. CASE store' = Mac!Executed(q)
    <2>1. Put(q)
      BY <1>2, <1>3, <1>6, <1>9, MacPut
    <2> QED BY <1>1, <1>2, <1>6, <1>8, <2>1, TakesLate
  <1>10. CASE store' = store
    <2>1. Kept
      BY <1>2, <1>6, <1>10, MacKept
    <2> QED BY <1>1, <1>2, <1>6, <1>8, <2>1, LosesLate
  <1> QED BY <1>1, <1>9, <1>10

LEMMA MacSound ==
  ASSUME Composed, backend = "keychain", MacInv, DelegateToKeychain
  PROVE  MacInv' /\ Implemented
  BY MacCallSound, MacReturnSound, MacExecutesSound, MacEndsSound, MacFailsSound,
     MacEndContextSound, MacLateSound DEF DelegateToKeychain, Mac!Next, Mac!Client
-----------------------------------------------------------------------------
(* The opened Keyringer implements RemoteContract.                           *)

MapInv ==
    /\ Composed /\ backend \in Opened
    /\ backend = "keychain" => MacInv
    /\ backend = "windows-credential-manager" => WindowsProofs!WInv
    /\ backend = "kernel-keyring" => KernelInv
    /\ backend = "custom" => FakeInv
    /\ backend = "unsupported" => RefusedInv

\* Nobody has called, and every key denotes a value or nothing.
Fresh ==
    /\ \A t \in Threads : PhaseOf[t] = "idle" /\ AnswerOf[t] = None
    /\ \A k \in Keys : Denoted(k) \in Values \cup {Unreadable, None}

LEMMA MacInitial ==
  ASSUME backend = "keychain", Mac!Init
  PROVE  MacInv /\ IsABag(orphans) /\ Fresh
  <1> DEFINE f == Mac!NewFrame
  <1>1. f \in MacFrames
    BY DEF Mac!NewFrame, MacFrames, Mac!Results
  <1>2. orphans = EmptyBag
    BY MacFacts DEF Mac!Init
  <1>3. IsABag(orphans) /\ BagToSet(orphans) = {}
    BY <1>2 DEF EmptyBag, SetToBag, IsABag, BagToSet
  <1>4. \A t \in Threads : pc[t] = "idle" /\ req[t] = Mac!NoRequest /\ frame[t] = f
    BY DEF Mac!Init
  <1>5. /\ store \in [KeysOf["keychain"] -> Mac!Entries \cup {None}]
        /\ pc = [t \in Threads |-> "idle"] /\ req = [t \in Threads |-> Mac!NoRequest]
        /\ frame = [t \in Threads |-> f]
    BY DEF Mac!Init
  <1> HIDE DEF f
  <1>6. MacInv
    BY <1>1, <1>3, <1>4, <1>5 DEF MacInv, MacStands
  <1>7. MacView
    BY <1>6, MacIsSeen
  <1>8. ASSUME NEW k \in Keys PROVE Denoted(k) \in Values \cup {Unreadable, None}
    <2>1. CASE k \in KeysOf["keychain"]
      <3>1. store[k] \in Mac!Entries \cup {None} /\ Denoted(k) = Mac!Value(store[k])
        BY <1>5, <1>7, <2>1 DEF MacView
      <3>2. CASE store[k] # None /\ store[k].form # "undecodable"
        BY <3>1, <3>2, MacValue
      <3>3. CASE ~(store[k] # None /\ store[k].form # "undecodable")
        BY <3>1, <3>3 DEF Mac!Value
      <3> QED BY <3>2, <3>3
    <2>2. CASE k \notin KeysOf["keychain"]
      BY <1>7, <2>2 DEF MacView
    <2> QED BY <2>1, <2>2
  <1>9. \A t \in Threads : PhaseOf[t] = "idle" /\ AnswerOf[t] = None
    BY <1>4, <1>7 DEF MacView, MacPhase, MacAnswer
  <1> QED BY <1>3, <1>6, <1>8, <1>9 DEF Fresh

LEMMA WindowsInitial ==
  ASSUME backend = "windows-credential-manager", WindowsProofs!WInv, Windows!Init
  PROVE  Fresh
  <1>1. WindowsView
    BY WindowsIsSeen
  <1>2. \A t \in Threads : PhaseOf[t] = "idle" /\ AnswerOf[t] = None
    BY <1>1 DEF WindowsView, Windows!Init
  <1>3. ASSUME NEW k \in Keys PROVE Denoted(k) \in Values \cup {Unreadable, None}
    <2>1. ASSUME k \in KeysOf["windows-credential-manager"]
          PROVE  Windows!Entry(k) \in Values \cup {None}
      <3>1. Windows!target(k) \in Windows!Targets
        BY <2>1 DEF Windows!Targets
      <3> QED BY <3>1, WindowsTypes, InstanceFacts DEF Windows!Entry, Backends
    <2> QED BY <1>1, <2>1 DEF WindowsView
  <1> QED BY <1>2, <1>3 DEF Fresh

LEMMA KernelInitial ==
  ASSUME backend = "kernel-keyring", Kernel!Init
  PROVE  KernelInv /\ Fresh
  <1> DEFINE f == Kernel!NewFrame
  <1>1. f \in KernelFrames /\ f.key = "none" /\ ~f.done
    BY DEF Kernel!NewFrame, KernelFrames, Kernel!Results
  <1>2. /\ store \in [KeysOf["kernel-keyring"] -> ValuesOf["kernel-keyring"] \cup {None}]
        /\ pc = [t \in Threads |-> "idle"] /\ req = [t \in Threads |-> Kernel!NoRequest]
        /\ frame = [t \in Threads |-> f] /\ session = "live"
    BY DEF Kernel!Init, Kernel!Storable
  <1> HIDE DEF f
  <1>3. KernelInv
    BY <1>1, <1>2 DEF KernelInv, KernelStands, KernelLabels
  <1>4. KernelView
    BY <1>3, KernelIsSeen
  <1>5. \A t \in Threads : PhaseOf[t] = "idle" /\ AnswerOf[t] = None
    BY <1>2, <1>4 DEF KernelView, KernelPhase, KernelAnswer
  <1>6. \A k \in Keys : Denoted(k) \in Values \cup {Unreadable, None}
    BY <1>2, <1>4, InstanceFacts DEF KernelView, Backends
  <1> QED BY <1>3, <1>5, <1>6 DEF Fresh

LEMMA FakeInitial ==
  ASSUME backend = "custom", MutexInv, Fake!Init
  PROVE  FakeInv /\ Fresh
  <1>1. FakeInv
    <2>1. store \in [Fake!Services \X KeysOf["custom"] -> ValuesOf["custom"] \cup {None}]
      BY Zenon DEF Fake!Init
    <2>2. /\ service \in Fake!Services
          /\ frame \in [Threads -> ValuesOf["custom"] \cup {None, "ok", "notfound", "error"}]
          /\ \A t \in Threads : pc[t] = "idle"
      BY DEF Fake!Init, Fake!Services
    <2> QED BY <2>1, <2>2 DEF FakeInv
  <1>2. FakeView
    BY FakeIsSeen
  <1>3. \A t \in Threads : PhaseOf[t] = "idle" /\ AnswerOf[t] = None
    BY <1>2 DEF FakeView, Fake!Init
  <1>4. ASSUME NEW k \in Keys PROVE Denoted(k) \in Values \cup {Unreadable, None}
    <2>1. ASSUME k \in KeysOf["custom"]
          PROVE  store[<<Fake!Named, k>>] \in ValuesOf["custom"] \cup {None}
      <3>1. Fake!Named \in Fake!Services
        BY <1>1 DEF FakeInv, Fake!Named, Fake!Services, Fake!DefaultService
      <3>2. <<Fake!Named, k>> \in Fake!Services \X KeysOf["custom"]
        BY <2>1, <3>1
      <3> QED BY <1>1, <3>2 DEF FakeInv
    <2> QED BY <1>2, <2>1, InstanceFacts DEF FakeView, Backends
  <1> QED BY <1>1, <1>3, <1>4 DEF Fresh

LEMMA RefusedInitial ==
  ASSUME backend = "unsupported", NoNative!Init
  PROVE  RefusedInv /\ Fresh
  <1>1. RefusedInv
    BY DEF RefusedInv, NoNative!Init
  <1>2. RefusedView
    BY RefusedIsSeen
  <1> QED BY <1>1, <1>2 DEF Fresh, RefusedView, NoNative!Init

LEMMA MapInitInv == Init => MapInv /\ Contract!RemoteInit
  <1> SUFFICES ASSUME Init PROVE MapInv /\ Contract!RemoteInit
    OBVIOUS
  <1>1. backend \in Opened /\ backend \in Backends /\ OpenedInv
    BY OpenedInitInv, OpenedKeyringAssumption DEF Init
  <1>2. orphans = EmptyBag
    BY MacFacts DEF Init, MacAtRest, Mac!Init
  <1>3. IsABag(orphans)
    BY <1>2 DEF EmptyBag, SetToBag, IsABag
  <1>4. /\ backend = "keychain" => MacInv
        /\ backend = "windows-credential-manager" => WindowsProofs!WInv
        /\ backend = "kernel-keyring" => KernelInv
        /\ backend = "custom" => FakeInv
        /\ backend = "unsupported" => RefusedInv
        /\ Fresh
    <2>1. CASE backend = "keychain"
      <3>1. Mac!Init
        BY <2>1 DEF Init
      <3> QED BY <2>1, <3>1, MacInitial
    <2>2. CASE backend = "windows-credential-manager"
      <3>1. Windows!Init
        BY <2>2 DEF Init
      <3> QED BY <1>1, <2>2, <3>1, WindowsInitial DEF OpenedInv
    <2>3. CASE backend = "kernel-keyring"
      <3>1. Kernel!Init
        BY <2>3 DEF Init
      <3> QED BY <2>3, <3>1, KernelInitial
    <2>4. CASE backend = "custom"
      <3>1. Fake!Init
        BY <2>4 DEF Init
      <3> QED BY <1>1, <2>4, <3>1, FakeInitial DEF OpenedInv
    <2>5. CASE backend = "unsupported"
      <3>1. NoNative!Init
        BY <2>5 DEF Init
      <3> QED BY <2>5, <3>1, RefusedInitial
    <2> QED BY <1>1, <2>1, <2>2, <2>3, <2>4, <2>5 DEF Backends
  <1>5. MapInv
    BY <1>1, <1>3, <1>4 DEF MapInv, Composed
  <1>6. PhaseOf = [t \in Threads |-> "idle"] /\ AnswerOf = [t \in Threads |-> None]
    BY <1>1, <1>4, MappedFunctions DEF Functional, Fresh
  <1>7. req = [t \in Threads |-> Contract!NoRequest]
    <2>1. req = [t \in Threads |-> [op |-> "none", key |-> None, val |-> None]]
      BY DEF Init, Mac!Init, Windows!Init, Kernel!Init, Fake!Init, NoNative!Init,
         Mac!NoRequest, Windows!NoRequest, Kernel!NoRequest, Fake!NoRequest, NoNative!NoRequest
    <2> QED BY <2>1 DEF Contract!NoRequest
  <1>8. Contract!Init
    BY <1>4, <1>6, <1>7 DEF Contract!Init, Fresh
  <1>9. Contract!RemoteInit
    BY <1>2, <1>8, ContractFacts DEF Contract!RemoteInit
  <1> QED BY <1>5, <1>9

LEMMA MapNextInv ==
  ASSUME "windows-credential-manager" \in Opened => WindowsServicesArePlain
  PROVE  MapInv /\ [Next]_vars => MapInv' /\ Implemented
  <1> SUFFICES ASSUME MapInv, [Next]_vars PROVE MapInv' /\ Implemented
    OBVIOUS
  <1>1. backend' = backend /\ Composed /\ backend \in Opened
    BY BackendSteps DEF MapInv
  <1>2. WindowsProofs!WInv' \/ backend # "windows-credential-manager"
    BY BackendSteps, WindowsConstants, WindowsProofs!WindowsNextInv DEF MapInv
  <1>3. CASE DelegateToKeychain
    <2>1. backend = "keychain" /\ MacInv
      BY <1>3 DEF DelegateToKeychain, MapInv
    <2>2. MacInv' /\ Implemented
      BY <1>1, <1>3, <2>1, MacSound
    <2>3. IsABag(orphans')
      BY <2>2 DEF MacInv
    <2> QED BY <1>1, <2>1, <2>2, <2>3 DEF MapInv, Composed
  <1>4. CASE DelegateToWindows
    <2>1. backend = "windows-credential-manager" /\ WindowsProofs!WInv /\ orphans' = orphans
      BY <1>4 DEF DelegateToWindows, MapInv, macVars
    <2>2. Implemented
      BY <1>1, <1>2, <1>4, <2>1, WindowsSound
    <2> QED BY <1>1, <1>2, <2>1, <2>2 DEF MapInv, Composed
  <1>5. CASE DelegateToKernel
    <2>1. backend = "kernel-keyring" /\ KernelInv /\ orphans' = orphans
      BY <1>5 DEF DelegateToKernel, MapInv, macVars
    <2>2. KernelInv' /\ Implemented
      BY <1>1, <1>5, <2>1, KernelSound
    <2> QED BY <1>1, <2>1, <2>2 DEF MapInv, Composed
  <1>6. CASE DelegateToCustom
    <2>1. backend = "custom" /\ FakeInv /\ orphans' = orphans
      BY <1>6 DEF DelegateToCustom, MapInv, macVars
    <2>2. FakeInv' /\ Implemented
      BY <1>1, <1>6, <2>1, FakeSound
    <2> QED BY <1>1, <2>1, <2>2 DEF MapInv, Composed
  <1>7. CASE Refuse
    <2>1. backend = "unsupported" /\ RefusedInv /\ orphans' = orphans
      BY <1>7 DEF Refuse, MapInv, macVars
    <2>2. RefusedInv' /\ Implemented
      BY <1>1, <1>7, <2>1, RefusedSound
    <2> QED BY <1>1, <2>1, <2>2 DEF MapInv, Composed
  <1>8. CASE UNCHANGED vars
    <2>1. UNCHANGED <<backend, store, pc, req, frame, orphans, session, service, locked>>
      BY <1>8 DEF vars, macVars, fakeVars
    <2>2. MapInv'
      <3>1. backend = "keychain" => MacInv'
        BY <2>1 DEF MapInv, MacInv, MacStands, Mac!TooLong
      <3>2. backend = "kernel-keyring" => KernelInv'
        BY <2>1 DEF MapInv, KernelInv, KernelStands
      <3>3. backend = "custom" => FakeInv'
        BY <2>1 DEF MapInv, FakeInv, MutexInv, Fake!Key
      <3>4. backend = "unsupported" => RefusedInv'
        BY <2>1 DEF MapInv, RefusedInv
      <3> QED BY <1>1, <1>2, <2>1, <3>1, <3>2, <3>3, <3>4 DEF MapInv, Composed
    <2>3. Implemented
      <3>1. CASE backend = "keychain"
        <4>1. MacView /\ MacView'
          BY <1>1, <2>2, <3>1, MacViews DEF MapInv
        <4>2. Rests
          BY <2>1, <4>1 DEF MacView, Rests, MacPhase, MacAnswer, Mac!Value, Mac!decodeValue
        <4>3. Kept
          BY <1>1, <2>1, <2>2, <3>1, MacKept DEF MapInv
        <4> QED BY <1>1, <2>1, <4>2, <4>3, Stutters
      <3>2. CASE backend = "windows-credential-manager"
        <4>1. WindowsView /\ WindowsView' /\ Kept
          BY <1>1, <1>2, <2>1, <3>2, WindowsViews, WindowsKept DEF MapInv
        <4>2. Rests
          BY <2>1, <4>1 DEF WindowsView, Rests
        <4> QED BY <1>1, <2>1, <4>1, <4>2, Stutters
      <3>3. CASE backend = "kernel-keyring"
        <4>1. KernelView /\ KernelView' /\ Kept
          BY <1>1, <2>1, <2>2, <3>3, KernelViews, KernelKept DEF MapInv
        <4>2. Rests
          BY <2>1, <4>1 DEF KernelView, Rests, KernelPhase, KernelAnswer
        <4> QED BY <1>1, <2>1, <4>1, <4>2, Stutters
      <3>4. CASE backend = "custom"
        <4>1. FakeView /\ FakeView'
          BY <1>1, <2>2, <3>4, FakeViews DEF MapInv, FakeInv
        <4>2. Rests /\ Kept
          BY <2>1, <4>1 DEF FakeView, Rests, Kept, Fake!Named
        <4> QED BY <1>1, <2>1, <4>2, Stutters
      <3>5. CASE backend = "unsupported"
        <4>1. RefusedView /\ RefusedView'
          BY <1>1, <3>5, RefusedViews
        <4>2. Rests /\ Kept
          BY <2>1, <4>1 DEF RefusedView, Rests, Kept
        <4> QED BY <1>1, <2>1, <4>2, Stutters
      <3> QED BY <1>1, <3>1, <3>2, <3>3, <3>4, <3>5 DEF Composed, Backends
    <2> QED BY <2>2, <2>3
  <1> QED BY <1>3, <1>4, <1>5, <1>6, <1>7, <1>8 DEF Next

\* Whatever Open has returned is one linearizable map, for any number of
\* goroutines, keys and values: with security commands that are killed and take
\* effect late, with keys that others replace, grow and unlink between two system
\* calls, and on Windows as long as no service has a colon, without which two
\* keys can be one credential (keyring.go: Get, Set, Delete).
THEOREM Implementation ==
  ASSUME "windows-credential-manager" \in Opened => WindowsServicesArePlain
  PROVE  Spec => ImplementsRemoteContract
  <1>1. Init => MapInv /\ Contract!RemoteInit
    BY MapInitInv
  <1>2. MapInv /\ [Next]_vars => MapInv' /\ Implemented
    BY MapNextInv
  <1> QED BY <1>1, <1>2, PTL DEF Spec, ImplementsRemoteContract, Contract!RemoteContractSpec,
                             Implemented
=============================================================================
