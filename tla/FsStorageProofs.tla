-------------------------- MODULE FsStorageProofs --------------------------
(***************************************************************************)
(* Proofs about FsStorage, for every number of processes, goroutines, keys,*)
(* stripes and inodes, with every fault, process crashes and power losses: *)
(* the inductive invariant and what follows from it for the directory and  *)
(* the bytes of credentials; what the mutation lock, the checks before a   *)
(* mutation and writeAtomic's deferred function guarantee; and that the    *)
(* backend is the linearizable map of KeyringContract.                     *)
(***************************************************************************)
EXTENDS FsRefinesContract, TLAPS

-----------------------------------------------------------------------------
(* The inductive invariant.                                                  *)

SetLabels == {"validateExisting", "createTemporary", "fchmod", "writeAll",
              "fsync", "close", "rename", "cleanup"}

\* The label tells which method runs and what its local variables hold.
Control(t) ==
    /\ ~At(t, "idle") => req[t] \in Requests
    /\ pc[t] \in SetLabels => Op(t) = "set"
    /\ At(t, "read") => Op(t) = "get"
    /\ At(t, "openCredential") => Op(t) # "set"
    /\ At(t, "unlink") => Op(t) = "delete"
    /\ At(t, "fsyncDir") => Op(t) # "get"
    /\ pc[t] \in {"idle", "lock", "openDirectory", "openCredential", "unlink",
                  "validateExisting"} => frame[t] = NewFrame
    /\ At(t, "createTemporary") \/ At(t, "fchmod") => frame[t].pos = 0
    /\ At(t, "cleanup") => frame[t].res = "failure"
    /\ pc[t] \notin {"read", "cleanup"} /\ ~Writing(t) => frame[t].fd = None

\* The file a Set is staging, as its temporary name denotes it.
Staged(t) == dir[frame[t].tmp]

\* A staged file has one name and one owner, and nothing refers to it but them.
Owned(t) ==
    Staging(t) =>
        /\ frame[t].tmp \in Temps
        /\ Staged(t) \in Files
        /\ Writing(t) => frame[t].fd = Staged(t)
        /\ At(t, "cleanup") => frame[t].fd \in {None, Staged(t)}
        /\ \A n \in Names : Staged(t) \in maybe[n] => n = frame[t].tmp
        /\ \A u \in Threads : Staged(t) \notin frame[u].before
        /\ \A u \in Threads : u # t => frame[u].fd # Staged(t)
        /\ \A u \in Threads : u # t /\ Staging(u) => frame[u].tmp # frame[t].tmp

\* The first n chunks of v.
Leading(v, n) == [i \in 1 .. MaxLen |-> IF i <= n THEN Bytes(v)[i] ELSE None]

\* How far a Set has come with its file.
Progress(t) ==
    /\ At(t, "fchmod") => inode[Staged(t)].data = Blank
    /\ At(t, "writeAll") =>
          /\ frame[t].pos <= SizeOf[req[t].val]
          /\ inode[Staged(t)].data = Leading(req[t].val, frame[t].pos)
    /\ pc[t] \in {"fsync", "close", "rename"} =>
          inode[Staged(t)].data = Bytes(req[t].val)
    /\ pc[t] \in {"writeAll", "fsync", "close", "rename"} =>
          inode[Staged(t)].kind = "private"
    /\ pc[t] \in {"close", "rename"} => inode[Staged(t)].synced

\* A Get reads a whole value, and has read its beginning.
Reading(t) ==
    /\ At(t, "read") =>
        /\ frame[t].fd \in Files
        /\ \E v \in Values : /\ inode[frame[t].fd].data = Bytes(v)
                             /\ frame[t].buf = Leading(v, frame[t].pos)
    /\ Succeeded(t) /\ Op(t) = "get" => \E v \in Values : frame[t].buf = Bytes(v)

\* A mutation that took effect superseded something else, and once it succeeds
\* what it superseded is gone for good.
Superseding(t) ==
    /\ At(t, "fsyncDir") => dir[Key(t)] \notin frame[t].before
    /\ Succeeded(t) /\ Op(t) # "get" => frame[t].before \cap maybe[Key(t)] = {}

\* Whoever is about to replace or unlink an entry has found a trusted one.
Cautious(t) ==
    Staging(t) \/ pc[t] \in {"createTemporary", "unlink"} =>
        \A f \in maybe[Key(t)] \ {None} : Trusted(f)

ThreadInv(t) ==
    Control(t) /\ Owned(t) /\ Progress(t) /\ Reading(t) /\ Superseding(t) /\ Cautious(t)

\* What the directory says now is one of the things a power loss may leave, and
\* an untrusted object is all its key can denote.
DiskInv ==
    /\ \A n \in Names : dir[n] \in maybe[n]
    /\ \A k \in Keys : \A f \in maybe[k] \ {None} : ~Trusted(f) => maybe[k] = {f}
    /\ PublishedIsWhole
    /\ PublishedHasSecretMode

IInv ==
    /\ TypeOK
    /\ DiskInv
    /\ \A t \in Threads : ThreadInv(t)

-----------------------------------------------------------------------------
(* Type correctness.                                                         *)

LEMMA BlankType == Blank \in Contents /\ \A v \in Values : Bytes(v) \in Contents
  BY DEF Blank, Bytes, Contents

LEMMA FrameWithType ==
  ASSUME NEW buf \in Contents, NEW before \in SUBSET (Files \cup {None}), NEW res \in Results
  PROVE  FrameWith(buf, before, res) \in Frames
  BY FsAssumption DEF FrameWith, Frames

LEMMA NewFrameType == NewFrame \in Frames
  BY BlankType, FrameWithType DEF NewFrame, Results

LEMMA InitType == Init => TypeOK
  <1> SUFFICES ASSUME Init PROVE TypeOK
    OBVIOUS
  <1>1. PICK d \in [Keys -> Files \cup {None}], v \in [Keys -> Values],
             k \in [Keys -> {"private", "insecure"}] :
          /\ dir = [n \in Names |-> IF n \in Keys THEN d[n] ELSE None]
          /\ inode = [f \in Files |->
                IF \E x \in Keys : d[x] = f
                THEN LET x == CHOOSE y \in Keys : d[y] = f
                     IN  FreshInode(Bytes(v[x]), k[x])
                ELSE FreshInode(Blank, "private")]
    BY DEF Init
  <1>2. dir \in [Names -> Files \cup {None}]
    BY <1>1 DEF Names
  <1>3. inode \in [Files -> [data : Contents, synced : BOOLEAN, kind : Kinds]]
    <2>1. ASSUME NEW f \in Files
          PROVE  inode[f] \in [data : Contents, synced : BOOLEAN, kind : Kinds]
      <3>1. CASE \E x \in Keys : d[x] = f
        <4> DEFINE x == CHOOSE y \in Keys : d[y] = f
        <4>1. x \in Keys
          BY <3>1
        <4>2. inode[f] = FreshInode(Bytes(v[x]), k[x])
          BY <1>1, <3>1
        <4> HIDE DEF x
        <4> QED BY <4>1, <4>2, BlankType DEF FreshInode, Kinds
      <3>2. CASE ~ \E x \in Keys : d[x] = f
        BY <1>1, <3>2, BlankType DEF FreshInode, Kinds
      <3> QED BY <3>1, <3>2
    <2> QED BY <2>1, <1>1
  <1> QED
    BY <1>2, <1>3, NewFrameType DEF Init, TypeOK, Labels

LEMMA FinishType ==
  ASSUME TypeOK, NEW t \in Threads, NEW r \in Results, Finish(t, r)
  PROVE  frame' \in [Threads -> Frames] /\ pc' \in [Threads -> Labels]
  <1>1. frame[t].buf \in Contents /\ frame[t].before \in SUBSET (Files \cup {None})
    BY DEF TypeOK, Frames
  <1>2. FrameWith(frame[t].buf, frame[t].before, r) \in Frames
    BY <1>1, FrameWithType
  <1> QED BY <1>2 DEF TypeOK, Finish, Goto, Labels

LEMMA FailType ==
  ASSUME TypeOK, NEW t \in Threads, Fail(t)
  PROVE  frame' \in [Threads -> Frames] /\ pc' \in [Threads -> Labels]
  <1>1. FrameWith(Blank, {}, "failure") \in Frames
    BY FrameWithType, BlankType DEF Results
  <1> QED BY <1>1 DEF TypeOK, Fail, Goto, Labels

LEMMA AbortType ==
  ASSUME TypeOK, NEW t \in Threads, Abort(t)
  PROVE  frame' \in [Threads -> Frames] /\ pc' \in [Threads -> Labels]
  <1>1. [frame[t] EXCEPT !.res = "failure"] \in Frames
    BY ZenonT(60) DEF TypeOK, Frames, Results
  <1> QED BY <1>1 DEF TypeOK, Abort, Goto, Labels

-----------------------------------------------------------------------------
(* Steps that leave the disk alone and change the local state of t only.     *)

\* What t may hold after such a step: no more than it held, or a file that a
\* key denotes.
QuietStep(t) ==
    /\ UNCHANGED disk
    /\ \A u \in Threads \ {t} :
          pc'[u] = pc[u] /\ req'[u] = req[u] /\ frame'[u] = frame[u]
    /\ Staging(t)' => Staging(t) /\ frame'[t].tmp = frame[t].tmp
    /\ frame'[t].before \subseteq frame[t].before
    /\ frame'[t].fd \in {None, frame[t].fd} \cup {dir[k] : k \in Keys}

LEMMA QuietStepInv ==
  ASSUME IInv, NEW t \in Threads, QuietStep(t), TypeOK',
         Control(t)', Progress(t)', Reading(t)', Superseding(t)', Cautious(t)',
         Writing(t)' => frame'[t].fd = frame[t].fd /\ Writing(t),
         At(t, "cleanup")' => frame'[t].fd \in {None, frame[t].fd}
  PROVE  IInv'
  <1>1. DiskInv'
    BY DEF IInv, DiskInv, QuietStep, disk, PublishedIsWhole, PublishedHasSecretMode, Trusted
  <1>2. ASSUME NEW u \in Threads \ {t} PROVE Control(u)' /\ Progress(u)' /\ Reading(u)'
                                             /\ Superseding(u)' /\ Cautious(u)'
    <2>1. ThreadInv(u)
      BY DEF IInv
    <2>2. pc'[u] = pc[u] /\ req'[u] = req[u] /\ frame'[u] = frame[u] /\ UNCHANGED disk
      BY DEF QuietStep
    <2>3. Control(u)'
      BY <2>1, <2>2 DEF ThreadInv, Control, At, Op, Writing
    <2>4. Progress(u)'
      BY <2>1, <2>2 DEF ThreadInv, Progress, At, Staged, disk
    <2>5. Reading(u)'
      BY <2>1, <2>2 DEF ThreadInv, Reading, At, Op, Succeeded, disk
    <2>6. Superseding(u)'
      BY <2>1, <2>2 DEF ThreadInv, Superseding, At, Op, Key, Succeeded, disk
    <2>7. Cautious(u)'
      BY <2>1, <2>2 DEF ThreadInv, Cautious, Staging, Writing, Key, Trusted, disk
    <2> QED BY <2>3, <2>4, <2>5, <2>6, <2>7
  <1>3. ASSUME NEW u \in Threads PROVE Owned(u)'
    <2> SUFFICES ASSUME Staging(u)' PROVE Owned(u)'
      BY DEF Owned
    <2>1. Staging(u) /\ frame'[u].tmp = frame[u].tmp /\ Owned(u)
      BY DEF IInv, ThreadInv, QuietStep, Staging, Writing
    <2>2. \A w \in Threads : Staging(w)' => Staging(w) /\ frame'[w].tmp = frame[w].tmp
      BY DEF QuietStep, Staging, Writing
    <2>3. \A w \in Threads : frame'[w].before \subseteq frame[w].before
      BY DEF QuietStep
    <2>4. \A k \in Keys : dir[k] # Staged(u)
      BY <2>1, NamesAssumption DEF Owned, IInv, DiskInv, Names
    <2>5. \A w \in Threads \ {u} : frame'[w].fd # Staged(u)
      BY <2>1, <2>4, NamesAssumption DEF QuietStep, Owned
    <2>6. Staged(u)' = Staged(u)
      BY <2>1 DEF QuietStep, Staged, disk
    <2>7. Writing(u)' => frame'[u].fd = Staged(u)
      BY <2>1 DEF QuietStep, Owned, Writing
    <2>8. At(u, "cleanup")' => frame'[u].fd \in {None, Staged(u)}
      <3>1. frame[u].fd \in {None, Staged(u)}
        BY <2>1 DEF IInv, ThreadInv, Control, Owned, At, Staging, Writing
      <3> QED BY <3>1 DEF QuietStep, At
    <2> QED
      BY <2>1, <2>2, <2>3, <2>5, <2>6, <2>7, <2>8 DEF Owned, QuietStep, disk
  <1> QED
    BY <1>1, <1>2, <1>3 DEF IInv, ThreadInv

\* An operation that ends without success keeps the invariant.
LEMMA EndInv ==
  ASSUME IInv, NEW t \in Threads, TypeOK', UNCHANGED disk,
         req'[t] \in Requests, \A u \in Threads \ {t} : req'[u] = req[u],
         NEW r \in Results \ {"ok"}, Finish(t, r) \/ Fail(t)
  PROVE  IInv'
  <1>1. /\ pc'[t] = "return"
        /\ frame'[t].fd = None
        /\ frame'[t].before \subseteq frame[t].before
        /\ frame'[t].res # "ok"
        /\ \A u \in Threads \ {t} : pc'[u] = pc[u] /\ frame'[u] = frame[u]
    BY DEF IInv, TypeOK, Finish, Fail, Goto, FrameWith
  <1>2. QuietStep(t)
    BY <1>1 DEF QuietStep, Staging, Writing
  <1>3. Control(t)' /\ Progress(t)' /\ Reading(t)' /\ Superseding(t)' /\ Cautious(t)'
    BY <1>1 DEF Control, Progress, Reading, Superseding, Cautious, At, SetLabels,
                Writing, Staging, Succeeded
  <1> QED
    BY <1>1, <1>2, <1>3, QuietStepInv DEF At, Writing

\* So does a Set that turns to its deferred function.
LEMMA AbortInv ==
  ASSUME IInv, NEW t \in Threads, Staging(t), UNCHANGED <<disk, machine, req>>,
         pc' = [pc EXCEPT ![t] = "cleanup"],
         frame' \in [Threads -> Frames],
         \A u \in Threads \ {t} : frame'[u] = frame[u],
         frame'[t].fd \in {None, frame[t].fd}, frame'[t].tmp = frame[t].tmp,
         frame'[t].before = frame[t].before, frame'[t].res = "failure"
  PROVE  IInv'
  <1>1. pc'[t] = "cleanup" /\ \A u \in Threads \ {t} : pc'[u] = pc[u]
    BY DEF IInv, TypeOK
  <1>2. QuietStep(t)
    BY <1>1 DEF QuietStep, Staging, Writing
  <1>3. TypeOK'
    BY <1>1 DEF IInv, TypeOK, machine, disk, Labels
  <1>4. Control(t)' /\ Progress(t)' /\ Reading(t)' /\ Superseding(t)' /\ Cautious(t)'
    <2>1. Control(t) /\ Cautious(t)
      BY DEF IInv, ThreadInv
    <2>2. Op(t) = "set" /\ req[t] \in Requests
      BY <2>1 DEF Control, Staging, Writing, SetLabels, At
    <2>3. Control(t)'
      BY <1>1, <2>2 DEF Control, At, Op, SetLabels, Writing
    <2>4. Cautious(t)'
      BY <1>1, <2>1 DEF Cautious, Staging, Writing, Trusted, Key, disk
    <2> QED
      BY <1>1, <2>3, <2>4 DEF Progress, Reading, Superseding, At, Succeeded
  <1> QED
    BY <1>1, <1>2, <1>3, <1>4, QuietStepInv DEF At, Writing

LEMMA AbortActionInv ==
  ASSUME IInv, NEW t \in Threads, Staging(t), Abort(t), UNCHANGED <<machine, req>>
  PROVE  IInv'
  <1>1. frame[t] \in Frames
    BY DEF IInv, TypeOK
  <1>2. /\ frame'[t].fd = frame[t].fd /\ frame'[t].tmp = frame[t].tmp
        /\ frame'[t].before = frame[t].before /\ frame'[t].res = "failure"
        /\ \A u \in Threads \ {t} : frame'[u] = frame[u]
    BY <1>1 DEF IInv, TypeOK, Abort, Frames
  <1> QED
    BY <1>2, AbortType, AbortInv DEF IInv, Abort, Goto

-----------------------------------------------------------------------------
(* The steps of get, and those of set and delete that only look.             *)

LEMMA CallInv ==
  ASSUME IInv, NEW t \in Threads, Call(t)
  PROVE  IInv'
  <1>1. PICK q \in Requests :
          /\ req' = [req EXCEPT ![t] = q]
          /\ \/ /\ Goto(t, IF q.op = "get" THEN "openDirectory" ELSE "lock")
                /\ UNCHANGED frame
             \/ Finish(t, "rejected")
    BY DEF Call
  <1>2. UNCHANGED <<disk, machine>> /\ At(t, "idle") /\ frame[t] = NewFrame
    BY DEF Call, IInv, ThreadInv, Control, At
  <1>3. req'[t] = q /\ \A u \in Threads \ {t} : req'[u] = req[u]
    BY <1>1 DEF IInv, TypeOK
  <1>4. CASE Finish(t, "rejected")
    <2>1. TypeOK'
      BY <1>1, <1>2, <1>4, FinishType DEF IInv, TypeOK, machine, disk, Results
    <2> QED BY <1>2, <1>3, <1>4, <2>1, EndInv DEF Results
  <1>5. CASE /\ Goto(t, IF q.op = "get" THEN "openDirectory" ELSE "lock")
             /\ UNCHANGED frame
    <2>1. TypeOK'
      BY <1>1, <1>2, <1>5 DEF IInv, TypeOK, machine, disk, Goto, Labels
    <2>2. /\ pc'[t] \in {"openDirectory", "lock"}
          /\ \A u \in Threads \ {t} : pc'[u] = pc[u]
      BY <1>5 DEF Goto, IInv, TypeOK
    <2>3. QuietStep(t)
      BY <1>2, <1>3, <1>5, <2>2 DEF QuietStep, Staging, Writing
    <2>4. Control(t)' /\ Progress(t)' /\ Reading(t)' /\ Superseding(t)' /\ Cautious(t)'
      BY <1>2, <1>3, <1>5, <2>2 DEF Control, Progress, Reading, Superseding, Cautious, At,
         SetLabels, Writing, Staging, Succeeded, NewFrame, FrameWith
    <2> QED
      BY <1>5, <2>1, <2>2, <2>3, <2>4, QuietStepInv DEF At, Writing
  <1> QED
    BY <1>1, <1>4, <1>5

LEMMA LockInv ==
  ASSUME IInv, NEW t \in Threads, Lock(t)
  PROVE  IInv'
  <1>1. UNCHANGED <<disk, req, frame>> /\ At(t, "lock") /\ frame[t] = NewFrame
    BY DEF Lock, IInv, ThreadInv, Control, At
  <1>2. TypeOK'
    BY DEF IInv, TypeOK, Lock, Goto, Labels, disk
  <1>3. pc'[t] = "openDirectory" /\ \A u \in Threads \ {t} : pc'[u] = pc[u]
    BY DEF Lock, Goto, IInv, TypeOK
  <1>4. QuietStep(t)
    BY <1>1, <1>3 DEF QuietStep, Staging, Writing
  <1>5. Control(t)' /\ Progress(t)' /\ Reading(t)' /\ Superseding(t)' /\ Cautious(t)'
    BY <1>1, <1>3 DEF IInv, ThreadInv, Control, Progress, Reading, Superseding, Cautious,
       At, SetLabels, Writing, Staging, Succeeded, NewFrame, FrameWith
  <1> QED
    BY <1>1, <1>2, <1>3, <1>4, <1>5, QuietStepInv DEF At, Writing

LEMMA OpenServiceDirectoryInv ==
  ASSUME IInv, NEW t \in Threads, OpenServiceDirectory(t)
  PROVE  IInv'
  <1>1. /\ UNCHANGED <<disk, machine, req>> /\ At(t, "openDirectory")
        /\ frame[t] = NewFrame /\ req[t] \in Requests
    BY DEF OpenServiceDirectory, Fail, IInv, ThreadInv, Control, At
  <1>2. CASE Fail(t)
    <2>1. TypeOK'
      BY <1>1, <1>2, FailType DEF IInv, TypeOK, machine, disk
    <2> QED BY <1>1, <1>2, <2>1, EndInv DEF Results
  <1>3. CASE /\ Goto(t, IF Op(t) = "set" THEN "validateExisting" ELSE "openCredential")
             /\ UNCHANGED frame
    <2>1. TypeOK'
      BY <1>1, <1>3 DEF IInv, TypeOK, machine, disk, Goto, Labels
    <2>2. /\ pc'[t] = IF Op(t) = "set" THEN "validateExisting" ELSE "openCredential"
          /\ \A u \in Threads \ {t} : pc'[u] = pc[u]
      BY <1>3 DEF Goto, IInv, TypeOK
    <2>3. QuietStep(t)
      BY <1>1, <1>3, <2>2 DEF QuietStep, Staging, Writing
    <2>4. Control(t)' /\ Progress(t)' /\ Reading(t)' /\ Superseding(t)' /\ Cautious(t)'
      BY <1>1, <1>3, <2>2 DEF Control, Progress, Reading, Superseding, Cautious, At, Op,
         SetLabels, Writing, Staging, Succeeded, NewFrame, FrameWith
    <2> QED
      BY <1>3, <2>1, <2>2, <2>3, <2>4, QuietStepInv DEF At, Writing
  <1> QED
    BY <1>2, <1>3 DEF OpenServiceDirectory

\* The key of a request is a name of the directory.
LEMMA RequestKey ==
  ASSUME NEW t \in Threads, req[t] \in Requests
  PROVE  Key(t) \in Keys /\ Key(t) \in Names
  BY DEF Requests, Key, Names

LEMMA LeadingStep ==
  ASSUME NEW v \in Values, NEW n \in 0 .. MaxLen, n + 1 <= SizeOf[v]
  PROVE  [Leading(v, n) EXCEPT ![n + 1] = v] = Leading(v, n + 1)
  <1>1. n \in Nat /\ MaxLen \in Nat /\ SizeOf[v] \in 0 .. MaxLen
    BY FsAssumption
  <1>2. ASSUME NEW j \in 1 .. MaxLen
        PROVE  [Leading(v, n) EXCEPT ![n + 1] = v][j] = Leading(v, n + 1)[j]
    BY <1>1, <1>2 DEF Leading, Bytes
  <1> QED BY <1>1, <1>2 DEF Leading

LEMMA LeadingFacts ==
  ASSUME NEW v \in Values
  PROVE  /\ Leading(v, 0) = Blank
         /\ Leading(v, SizeOf[v]) = Bytes(v)
         /\ SizeOf[v] \in 0 .. MaxLen
  BY FsAssumption DEF Leading, Blank, Bytes

LEMMA OpenCredentialInv ==
  ASSUME IInv, NEW t \in Threads, OpenCredential(t)
  PROVE  IInv'
  <1> DEFINE f == dir[Key(t)]
  <1>1. /\ UNCHANGED <<disk, machine, req>> /\ At(t, "openCredential")
        /\ frame[t] = NewFrame /\ req[t] \in Requests
    BY DEF OpenCredential, Fail, IInv, ThreadInv, Control, At
  <1>2. Key(t) \in Keys /\ Key(t) \in Names
    BY <1>1, RequestKey
  <1>3. CASE Finish(t, MissingResult(t)) \/ Finish(t, "insecure") \/ Fail(t)
    <2>1. MissingResult(t) \in Results \ {"ok"} /\ "insecure" \in Results \ {"ok"}
      BY DEF MissingResult, Results
    <2>2. TypeOK'
      BY <1>1, <1>3, <2>1, FinishType, FailType DEF IInv, TypeOK, machine, disk
    <2> QED BY <1>1, <1>3, <2>1, <2>2, EndInv
  <1>4. CASE /\ f # None /\ Trusted(f)
             /\ Goto(t, IF Op(t) = "get" THEN "read" ELSE "unlink")
             /\ frame' = [frame EXCEPT ![t].fd = IF Op(t) = "get" THEN f ELSE None]
    <2>1. f \in Files /\ f \in maybe[Key(t)]
      BY <1>2, <1>4 DEF IInv, TypeOK, DiskInv
    <2>2. frame[t] \in Frames /\ frame[t].pos = 0 /\ frame[t].buf = Blank
      <3>1. frame[t] \in Frames
        BY DEF IInv, TypeOK
      <3> QED BY <1>1, <3>1 DEF NewFrame, FrameWith
    <2>3. /\ frame' = [frame EXCEPT ![t] =
                        [frame[t] EXCEPT !.fd = IF Op(t) = "get" THEN f ELSE None]]
          /\ [frame[t] EXCEPT !.fd = IF Op(t) = "get" THEN f ELSE None] \in Frames
      BY <1>4, <2>1, <2>2 DEF Frames, IInv, TypeOK
    <2>4. TypeOK'
      BY <1>1, <1>4, <2>3 DEF IInv, TypeOK, machine, disk, Goto, Labels
    <2>5. /\ pc'[t] = IF Op(t) = "get" THEN "read" ELSE "unlink"
          /\ \A u \in Threads \ {t} : pc'[u] = pc[u] /\ frame'[u] = frame[u]
          /\ frame'[t].fd = IF Op(t) = "get" THEN f ELSE None
          /\ frame'[t].before = frame[t].before
          /\ frame'[t].pos = 0 /\ frame'[t].buf = Blank
          /\ Op(t) # "get" => frame'[t] = NewFrame
      <3>1. /\ pc'[t] = IF Op(t) = "get" THEN "read" ELSE "unlink"
            /\ \A u \in Threads \ {t} : pc'[u] = pc[u] /\ frame'[u] = frame[u]
            /\ frame'[t] = [frame[t] EXCEPT !.fd = IF Op(t) = "get" THEN f ELSE None]
        BY <1>4, <2>3 DEF Goto, IInv, TypeOK
      <3>2. Op(t) # "get" => frame'[t] = NewFrame
        BY <1>1, <3>1 DEF NewFrame, FrameWith
      <3> QED BY <1>1, <3>1, <3>2 DEF NewFrame, FrameWith
    <2>6. QuietStep(t)
      BY <1>1, <1>2, <2>5 DEF QuietStep, Staging, Writing
    <2>7. Control(t)'
      <3>1. Op(t) \in {"get", "delete"}
        BY <1>1, <1>4 DEF IInv, ThreadInv, Control, At, Op, Requests
      <3> QED BY <1>1, <2>5, <3>1 DEF Control, At, Op, SetLabels, Writing
    <2>8. Reading(t)'
      <3>1. PICK v \in Values : inode[f].data = Bytes(v)
        BY <1>2, <1>4, <2>1 DEF IInv, DiskInv, PublishedIsWhole
      <3>2. frame'[t].buf = Leading(v, frame'[t].pos)
        BY <2>5, LeadingFacts
      <3> QED BY <1>1, <2>1, <2>5, <3>1, <3>2 DEF Reading, At, Succeeded, disk
    <2>9. Cautious(t)'
      BY <1>1, <1>2, <1>4, <2>1, <2>5 DEF Cautious, Staging, Writing, IInv, DiskInv, Trusted,
         Key, disk
    <2>10. Progress(t)' /\ Superseding(t)'
      BY <2>5 DEF Progress, Superseding, At, Succeeded
    <2> QED
      BY <2>4, <2>5, <2>6, <2>7, <2>8, <2>9, <2>10, QuietStepInv DEF At, Writing
  <1> QED
    BY <1>3, <1>4 DEF OpenCredential

LEMMA ReadInv ==
  ASSUME IInv, NEW t \in Threads, Read(t)
  PROVE  IInv'
  <1> DEFINE f == frame[t].fd
             i == frame[t].pos + 1
  <1>1. /\ UNCHANGED <<disk, machine, req>> /\ At(t, "read")
        /\ req[t] \in Requests /\ Op(t) = "get" /\ f \in Files
    BY DEF Read, Fail, IInv, ThreadInv, Control, Reading, At
  <1>2. PICK v \in Values : /\ inode[f].data = Bytes(v)
                            /\ frame[t].buf = Leading(v, frame[t].pos)
    BY <1>1 DEF IInv, ThreadInv, Reading
  <1>3. frame[t] \in Frames /\ frame[t].pos \in 0 .. MaxLen /\ frame[t].buf \in Contents
    BY DEF IInv, TypeOK, Frames
  <1>4. CASE Fail(t)
    <2>1. TypeOK'
      BY <1>1, <1>4, FailType DEF IInv, TypeOK, machine, disk
    <2> QED BY <1>1, <1>4, <2>1, EndInv DEF Results
  <1>5. CASE /\ ~EndOfFile(f, frame[t].pos)
             /\ frame' = [frame EXCEPT ![t].buf[i] = inode[f].data[i], ![t].pos = i]
             /\ UNCHANGED pc
    <2>1. i \in 1 .. MaxLen
      BY <1>3, <1>5, FsAssumption DEF EndOfFile
    <2>2. Bytes(v)[i] \in Values \cup {None}
      BY <2>1 DEF Bytes
    <2>3. frame'[t] = [frame[t] EXCEPT !.buf = [frame[t].buf EXCEPT ![i] = Bytes(v)[i]],
                                       !.pos = i]
      BY <1>2, <1>5 DEF IInv, TypeOK
    <2>4. [frame[t].buf EXCEPT ![i] = Bytes(v)[i]] = Leading(v, i)
      <3>1. frame[t].pos \in Nat /\ i \in Nat /\ MaxLen \in Nat
        BY <1>3, FsAssumption
      <3> QED BY <1>2, <2>1, <3>1 DEF Leading
    <2>5. /\ frame'[t].buf = Leading(v, i) /\ frame'[t].pos = i
          /\ frame'[t].fd = f /\ frame'[t].before = frame[t].before
          /\ frame'[t].res = frame[t].res
          /\ \A u \in Threads \ {t} : frame'[u] = frame[u]
      BY <1>3, <1>5, <2>3, <2>4 DEF IInv, TypeOK, Frames
    <2>6. Leading(v, i) \in Contents
      BY <1>3, <2>2, <2>4 DEF Contents
    <2>7. frame'[t] \in Frames
      <3>1. i \in 0 .. MaxLen
        BY <2>1, FsAssumption
      <3>2. frame'[t] = [frame[t] EXCEPT !.buf = Leading(v, i), !.pos = i]
        BY <2>3, <2>4
      <3> HIDE DEF i
      <3> QED BY <1>3, <2>6, <3>1, <3>2 DEF Frames
    <2>8. TypeOK'
      <3>1. frame' \in [Threads -> Frames]
        BY <1>5, <2>5, <2>7 DEF IInv, TypeOK
      <3> QED BY <1>1, <1>5, <3>1 DEF IInv, TypeOK, machine, disk
    <2>9. QuietStep(t)
      BY <1>1, <1>5, <2>5 DEF QuietStep, Staging, Writing, At
    <2>10. Control(t)'
      BY <1>1, <1>5 DEF Control, At, Op, SetLabels, Writing
    <2>11. Reading(t)'
      BY <1>1, <1>2, <1>5, <2>5 DEF Reading, At, Succeeded, disk
    <2>12. Progress(t)' /\ Superseding(t)' /\ Cautious(t)'
      BY <1>1, <1>5 DEF Progress, Superseding, Cautious, At, Succeeded, Staging, Writing
    <2> QED
      BY <1>1, <1>5, <2>8, <2>9, <2>10, <2>11, <2>12, QuietStepInv DEF At, Writing
  <1>6. CASE EndOfFile(f, frame[t].pos) /\ Finish(t, "ok")
    <2>1. TypeOK'
      BY <1>1, <1>6, FinishType DEF IInv, TypeOK, machine, disk, Results
    <2>2. /\ pc'[t] = "return" /\ frame'[t].fd = None
          /\ frame'[t].buf = frame[t].buf /\ frame'[t].before = frame[t].before
          /\ \A u \in Threads \ {t} : pc'[u] = pc[u] /\ frame'[u] = frame[u]
      BY <1>6 DEF IInv, TypeOK, Finish, Goto, FrameWith
    <2>3. frame[t].buf = Bytes(v)
      <3>1. \A j \in 1 .. MaxLen : j > frame[t].pos => Bytes(v)[j] = None
        BY <1>2, <1>3, <1>6, FsAssumption DEF EndOfFile
      <3> QED BY <1>2, <1>3, <3>1 DEF Leading, Bytes
    <2>4. QuietStep(t)
      BY <1>1, <2>2 DEF QuietStep, Staging, Writing
    <2>5. Control(t)' /\ Reading(t)'
      BY <1>1, <2>2, <2>3 DEF Control, Reading, At, Op, SetLabels, Writing
    <2>6. Progress(t)' /\ Superseding(t)' /\ Cautious(t)'
      BY <1>1, <2>2 DEF Progress, Superseding, Cautious, At, Op, Succeeded, Staging, Writing
    <2> QED
      BY <2>1, <2>2, <2>4, <2>5, <2>6, QuietStepInv DEF At, Writing
  <1> QED
    BY <1>4, <1>5, <1>6 DEF Read

LEMMA ValidateExistingInv ==
  ASSUME IInv, NEW t \in Threads, ValidateExisting(t)
  PROVE  IInv'
  <1> DEFINE f == dir[Key(t)]
  <1>1. /\ UNCHANGED <<disk, machine, req>> /\ At(t, "validateExisting")
        /\ frame[t] = NewFrame /\ req[t] \in Requests /\ Op(t) = "set"
    BY DEF ValidateExisting, Fail, IInv, ThreadInv, Control, At, SetLabels
  <1>2. Key(t) \in Keys /\ Key(t) \in Names
    BY <1>1, RequestKey
  <1>3. CASE Finish(t, "insecure") \/ Fail(t)
    <2>1. TypeOK'
      BY <1>1, <1>3, FinishType, FailType DEF IInv, TypeOK, machine, disk, Results
    <2> QED BY <1>1, <1>3, <2>1, EndInv DEF Results
  <1>4. CASE Replaceable(f) /\ Goto(t, "createTemporary") /\ UNCHANGED frame
    <2>1. TypeOK'
      BY <1>1, <1>4 DEF IInv, TypeOK, machine, disk, Goto, Labels
    <2>2. pc'[t] = "createTemporary" /\ \A u \in Threads \ {t} : pc'[u] = pc[u]
      BY <1>4 DEF Goto, IInv, TypeOK
    <2>3. QuietStep(t)
      BY <1>1, <1>4, <2>2 DEF QuietStep, Staging, Writing
    <2>4. \A g \in maybe[Key(t)] \ {None} : Trusted(g)
      <3>1. f \in maybe[Key(t)]
        BY <1>2 DEF IInv, DiskInv
      <3> QED BY <1>2, <1>4, <3>1 DEF IInv, DiskInv, Replaceable
    <2>5. Control(t)' /\ Cautious(t)'
      BY <1>1, <1>4, <2>2, <2>4 DEF Control, Cautious, At, Op, Key, SetLabels, Writing, Staging,
         Trusted, disk, NewFrame, FrameWith
    <2>6. Progress(t)' /\ Reading(t)' /\ Superseding(t)'
      BY <2>2 DEF Progress, Reading, Superseding, At, Succeeded
    <2> QED
      BY <1>4, <2>1, <2>2, <2>3, <2>5, <2>6, QuietStepInv DEF At, Writing
  <1> QED
    BY <1>3, <1>4 DEF ValidateExisting

LEMMA CloseFileInv ==
  ASSUME IInv, NEW t \in Threads, CloseFile(t)
  PROVE  IInv'
  <1>1. /\ UNCHANGED <<disk, machine, req>> /\ At(t, "close") /\ Staging(t)
        /\ ThreadInv(t) /\ frame[t] \in Frames
    BY DEF CloseFile, IInv, TypeOK, At, Staging, Writing
  <1>2. CASE /\ Goto(t, "cleanup")
             /\ frame' = [frame EXCEPT ![t].fd = None, ![t].res = "failure"]
    <2>1. frame'[t] = [frame[t] EXCEPT !.fd = None, !.res = "failure"]
      BY <1>2 DEF IInv, TypeOK
    <2>2. frame'[t] \in Frames
      BY <1>1, <2>1 DEF Frames, Results
    <2>3. /\ frame'[t].fd = None /\ frame'[t].tmp = frame[t].tmp
          /\ frame'[t].before = frame[t].before /\ frame'[t].res = "failure"
      BY <1>1, <2>1 DEF Frames
    <2>4. frame' \in [Threads -> Frames] /\ \A u \in Threads \ {t} : frame'[u] = frame[u]
      BY <1>2, <2>2 DEF IInv, TypeOK
    <2> QED
      BY <1>1, <1>2, <2>3, <2>4, AbortInv DEF Goto
  <1>3. CASE Goto(t, "rename") /\ frame' = [frame EXCEPT ![t].fd = None]
    <2>1. frame'[t] = [frame[t] EXCEPT !.fd = None]
      BY <1>3 DEF IInv, TypeOK
    <2>2. frame'[t] \in Frames
      BY <1>1, <2>1 DEF Frames
    <2>3. /\ frame'[t].fd = None /\ frame'[t].tmp = frame[t].tmp
          /\ frame'[t].before = frame[t].before
          /\ \A u \in Threads \ {t} : frame'[u] = frame[u]
      BY <1>1, <1>3, <2>1 DEF Frames, IInv, TypeOK
    <2>4. pc'[t] = "rename" /\ \A u \in Threads \ {t} : pc'[u] = pc[u]
      BY <1>3 DEF Goto, IInv, TypeOK
    <2>5. TypeOK'
      BY <1>1, <1>3, <2>2 DEF IInv, TypeOK, machine, disk, Goto, Labels
    <2>6. QuietStep(t)
      BY <1>1, <2>3, <2>4 DEF QuietStep, Staging, Writing
    <2>7. Control(t)'
      BY <1>1, <2>3, <2>4 DEF ThreadInv, Control, At, Op, SetLabels, Writing
    <2>8. Progress(t)'
      BY <1>1, <2>3, <2>4 DEF ThreadInv, Progress, At, Staged, disk
    <2>9. Cautious(t)'
      BY <1>1, <2>4 DEF ThreadInv, Cautious, Staging, Writing, Trusted, Key, disk
    <2>10. Reading(t)' /\ Superseding(t)'
      BY <2>4 DEF Reading, Superseding, At, Succeeded
    <2> QED
      BY <2>3, <2>4, <2>5, <2>6, <2>7, <2>8, <2>9, <2>10, QuietStepInv DEF At, Writing
  <1> QED
    BY <1>2, <1>3 DEF CloseFile

-----------------------------------------------------------------------------
(* Steps that change the file t is staging, and no other.                    *)

LEMMA StagedWriteInv ==
  ASSUME IInv, NEW t \in Threads, Writing(t), TypeOK', UNCHANGED <<dir, maybe, req>>,
         \A g \in Files : g # frame[t].fd => inode'[g] = inode[g],
         \A u \in Threads \ {t} : pc'[u] = pc[u] /\ frame'[u] = frame[u],
         frame'[t].fd = frame[t].fd, frame'[t].tmp = frame[t].tmp,
         frame'[t].before = frame[t].before,
         Writing(t)', Control(t)', Progress(t)'
  PROVE  IInv'
  <1> DEFINE s == Staged(t)
  <1>1. /\ Staging(t) /\ Owned(t) /\ Control(t) /\ Cautious(t)
        /\ frame[t].fd = s /\ frame[t].tmp \in Temps /\ s \in Files
    BY DEF IInv, ThreadInv, Owned, Staging
  <1>2. \A k \in Keys : s \notin maybe[k]
    BY <1>1, NamesAssumption DEF Owned, Names
  <1>3. \A u \in Threads \ {t} : Staging(u) => Staged(u) # s /\ Staged(u) \in Files
    <2> SUFFICES ASSUME NEW u \in Threads \ {t}, Staging(u), Staged(u) = s
                 PROVE  FALSE
      BY DEF IInv, ThreadInv, Owned
    <2>1. frame[u].tmp \in Names /\ frame[u].tmp # frame[t].tmp
      BY <1>1 DEF IInv, ThreadInv, Owned, Names
    <2>2. s \in maybe[frame[u].tmp]
      BY <2>1 DEF IInv, DiskInv, Staged
    <2> QED BY <1>1, <2>1, <2>2 DEF Owned
  <1>4. DiskInv'
    <2>1. \A k \in Keys : \A g \in maybe[k] \ {None} : inode'[g] = inode[g] /\ g \in Files
      BY <1>1, <1>2 DEF IInv, TypeOK, Names
    <2> QED BY <2>1 DEF IInv, DiskInv, PublishedIsWhole, PublishedHasSecretMode, Trusted
  <1>5. ASSUME NEW u \in Threads \ {t} PROVE Control(u)' /\ Progress(u)' /\ Reading(u)'
                                             /\ Superseding(u)' /\ Cautious(u)'
    <2>1. ThreadInv(u) /\ pc'[u] = pc[u] /\ frame'[u] = frame[u] /\ UNCHANGED req
      BY DEF IInv
    <2>2. Control(u)'
      BY <2>1 DEF ThreadInv, Control, At, Op, Writing
    <2>3. Progress(u)'
      <3>1. Staging(u) => Staged(u)' = Staged(u) /\ inode'[Staged(u)] = inode[Staged(u)]
        BY <1>1, <1>3, <2>1 DEF Staged
      <3> QED BY <2>1, <3>1 DEF ThreadInv, Progress, At, Staging, Writing
    <2>4. Reading(u)'
      <3>1. At(u, "read") => inode'[frame[u].fd] = inode[frame[u].fd]
        BY <1>1, <2>1 DEF Owned, ThreadInv, Reading
      <3> QED BY <2>1, <3>1 DEF ThreadInv, Reading, At, Op, Succeeded
    <2>5. Superseding(u)'
      BY <2>1 DEF ThreadInv, Superseding, At, Op, Key, Succeeded
    <2>6. Cautious(u)'
      <3>1. CASE Staging(u) \/ pc[u] \in {"createTemporary", "unlink"}
        <4>1. Key(u) \in Keys
          BY <2>1, <3>1, RequestKey DEF ThreadInv, Control, Staging, Writing, At
        <4>2. \A g \in maybe[Key(u)] \ {None} : inode'[g] = inode[g]
          BY <1>1, <1>2, <4>1 DEF IInv, TypeOK, Names
        <4> QED BY <2>1, <3>1, <4>2 DEF ThreadInv, Cautious, Key, Trusted
      <3>2. CASE ~(Staging(u) \/ pc[u] \in {"createTemporary", "unlink"})
        BY <2>1, <3>2 DEF Cautious, Staging, Writing
      <3> QED BY <3>1, <3>2
    <2> QED BY <2>2, <2>3, <2>4, <2>5, <2>6
  <1>6. Reading(t)' /\ Superseding(t)'
    BY DEF Reading, Superseding, At, Succeeded, Writing
  <1>7. Cautious(t)'
    <2>1. Key(t) \in Keys
      BY <1>1, RequestKey DEF Control, Writing, At
    <2>2. \A g \in maybe[Key(t)] \ {None} : inode'[g] = inode[g]
      BY <1>1, <1>2, <2>1 DEF IInv, TypeOK, Names
    <2> QED BY <1>1, <2>2 DEF Cautious, Key, Trusted
  <1>8. ASSUME NEW u \in Threads PROVE Owned(u)'
    <2>1. Staging(u)' = Staging(u)
      BY <1>1 DEF Staging, Writing
    <2>2. \A w \in Threads : frame'[w].fd = frame[w].fd /\ frame'[w].tmp = frame[w].tmp
                             /\ frame'[w].before = frame[w].before
      OBVIOUS
    <2>3. \A w \in Threads : Staging(w)' = Staging(w)
      BY <1>1 DEF Staging, Writing
    <2>4. Owned(u)
      BY DEF IInv, ThreadInv
    <2>5. Writing(u)' = Writing(u) /\ (At(u, "cleanup")' => At(u, "cleanup"))
      BY <1>1 DEF Writing, At
    <2> QED BY <2>2, <2>3, <2>4, <2>5 DEF Owned, Staged
  <1> QED
    BY <1>4, <1>5, <1>6, <1>7, <1>8 DEF IInv, ThreadInv

LEMMA FchmodInv ==
  ASSUME IInv, NEW t \in Threads, Fchmod(t)
  PROVE  IInv'
  <1> DEFINE f == frame[t].fd
  <1>1. /\ UNCHANGED <<machine, req>> /\ At(t, "fchmod") /\ Staging(t) /\ Writing(t)
        /\ ThreadInv(t) /\ f \in Files /\ f = Staged(t)
    BY DEF Fchmod, IInv, ThreadInv, Owned, At, Staging, Writing
  <1>2. CASE Abort(t)
    BY <1>1, <1>2, AbortActionInv
  <1>3. CASE /\ inode' = [inode EXCEPT ![f].kind = SecretMode(@)]
             /\ Goto(t, "writeAll") /\ UNCHANGED <<dir, maybe, frame>>
    <2>1. inode[f] \in [data : Contents, synced : BOOLEAN, kind : Kinds]
      BY <1>1 DEF IInv, TypeOK
    <2>2. /\ inode'[f] = [inode[f] EXCEPT !.kind = "private"]
          /\ \A g \in Files : g # f => inode'[g] = inode[g]
      BY <1>1, <1>3 DEF IInv, TypeOK, SecretMode
    <2>3. inode'[f].kind = "private" /\ inode'[f].data = inode[f].data
      BY <2>1, <2>2
    <2>4. inode' \in [Files -> [data : Contents, synced : BOOLEAN, kind : Kinds]]
      BY <1>3, <2>1, <2>2 DEF IInv, TypeOK, Kinds
    <2>5. TypeOK'
      BY <1>1, <1>3, <2>4 DEF IInv, TypeOK, machine, Goto, Labels
    <2>6. pc'[t] = "writeAll" /\ \A u \in Threads \ {t} : pc'[u] = pc[u]
      BY <1>3 DEF Goto, IInv, TypeOK
    <2>7. Control(t)'
      BY <1>1, <1>3, <2>6 DEF ThreadInv, Control, At, Op, SetLabels, Writing
    <2>8. Progress(t)'
      <3>1. req[t].val \in Values /\ frame[t].pos = 0 /\ inode[f].data = Blank
        BY <1>1 DEF ThreadInv, Control, Progress, At, Op, SetLabels, Requests
      <3>2. /\ frame[t].pos <= SizeOf[req[t].val]
            /\ inode'[f].data = Leading(req[t].val, frame[t].pos)
        BY <2>3, <3>1, LeadingFacts, FsAssumption
      <3>3. Staged(t)' = f
        BY <1>1, <1>3 DEF Staged
      <3> QED BY <1>1, <1>3, <2>3, <2>6, <3>2, <3>3 DEF Progress, At
    <2>9. Writing(t)'
      BY <2>6 DEF Writing
    <2> QED
      BY <1>1, <1>3, <2>2, <2>5, <2>6, <2>7, <2>8, <2>9, StagedWriteInv
  <1> QED
    BY <1>2, <1>3 DEF Fchmod

LEMMA WriteAllInv ==
  ASSUME IInv, NEW t \in Threads, WriteAll(t)
  PROVE  IInv'
  <1> DEFINE f == frame[t].fd
             i == frame[t].pos + 1
             v == req[t].val
  <1>1. /\ UNCHANGED <<machine, req>> /\ At(t, "writeAll") /\ Staging(t) /\ Writing(t)
        /\ ThreadInv(t) /\ f \in Files /\ f = Staged(t) /\ frame[t] \in Frames
    BY DEF WriteAll, IInv, TypeOK, ThreadInv, Owned, At, Staging, Writing
  <1>2. /\ v \in Values /\ SizeOf[v] \in 0 .. MaxLen /\ frame[t].pos \in 0 .. MaxLen
        /\ frame[t].pos <= SizeOf[v] /\ inode[f].data = Leading(v, frame[t].pos)
        /\ inode[f].kind = "private"
    BY <1>1, FsAssumption DEF ThreadInv, Control, Progress, At, Op, SetLabels, Requests, Frames
  <1>3. CASE Abort(t)
    BY <1>1, <1>3, AbortActionInv
  <1>4. CASE /\ i <= SizeOf[v]
             /\ inode' = [inode EXCEPT ![f].data[i] = v, ![f].synced = FALSE]
             /\ frame' = [frame EXCEPT ![t].pos = i]
             /\ UNCHANGED <<dir, maybe, pc>>
    <2>1. inode[f] \in [data : Contents, synced : BOOLEAN, kind : Kinds]
      BY <1>1 DEF IInv, TypeOK
    <2>2. i \in 1 .. MaxLen /\ i \in 0 .. MaxLen
      BY <1>2, <1>4, FsAssumption
    <2>3. /\ inode'[f] = [inode[f] EXCEPT !.data = [inode[f].data EXCEPT ![i] = v],
                                          !.synced = FALSE]
          /\ \A g \in Files : g # f => inode'[g] = inode[g]
      BY <1>1, <1>4 DEF IInv, TypeOK
    <2>4. [inode[f].data EXCEPT ![i] = v] = Leading(v, i)
      BY <1>2, <1>4, LeadingStep
    <2>5. [inode[f].data EXCEPT ![i] = v] \in Contents
      BY <1>2, <2>1, <2>2 DEF Contents
    <2>6. /\ inode'[f].kind = "private" /\ inode'[f].data = Leading(v, i)
          /\ inode'[f] \in [data : Contents, synced : BOOLEAN, kind : Kinds]
      <3> HIDE DEF i
      <3> QED BY <1>2, <2>1, <2>3, <2>4, <2>5
    <2>7. inode' \in [Files -> [data : Contents, synced : BOOLEAN, kind : Kinds]]
      BY <1>4, <2>3, <2>6 DEF IInv, TypeOK
    <2>8. frame'[t] = [frame[t] EXCEPT !.pos = i]
      BY <1>4 DEF IInv, TypeOK
    <2>9. /\ frame'[t].pos = i /\ frame'[t].fd = f /\ frame'[t].tmp = frame[t].tmp
          /\ frame'[t].before = frame[t].before /\ frame'[t] \in Frames
      <3> HIDE DEF i
      <3> QED BY <1>1, <2>2, <2>8 DEF Frames
    <2>10. /\ \A u \in Threads \ {t} : frame'[u] = frame[u]
           /\ frame' \in [Threads -> Frames]
      BY <1>4, <2>9 DEF IInv, TypeOK
    <2>11. TypeOK'
      BY <1>1, <1>4, <2>7, <2>10 DEF IInv, TypeOK, machine
    <2>12. Control(t)'
      BY <1>1, <1>4 DEF ThreadInv, Control, At, Op, SetLabels, Writing
    <2>13. Progress(t)'
      <3>1. Staged(t)' = f
        BY <1>1, <1>4, <2>9 DEF Staged
      <3> QED BY <1>1, <1>4, <2>6, <2>9, <3>1 DEF Progress, At
    <2>14. Writing(t)'
      BY <1>1, <1>4 DEF Writing
    <2> QED
      BY <1>1, <1>4, <2>3, <2>9, <2>10, <2>11, <2>12, <2>13, <2>14, StagedWriteInv
  <1>5. CASE i > SizeOf[v] /\ Goto(t, "fsync") /\ UNCHANGED <<disk, frame>>
    <2>1. TypeOK'
      BY <1>1, <1>5 DEF IInv, TypeOK, machine, disk, Goto, Labels
    <2>2. pc'[t] = "fsync" /\ \A u \in Threads \ {t} : pc'[u] = pc[u]
      BY <1>5 DEF Goto, IInv, TypeOK
    <2>3. Control(t)' /\ Writing(t)'
      BY <1>1, <1>5, <2>2 DEF ThreadInv, Control, At, Op, SetLabels, Writing
    <2>4. Progress(t)'
      <3>1. frame[t].pos = SizeOf[v]
        BY <1>2, <1>5, FsAssumption
      <3>2. inode[f].data = Bytes(v)
        BY <1>2, <3>1, LeadingFacts
      <3>3. Staged(t)' = f /\ inode' = inode
        BY <1>1, <1>5 DEF Staged, disk
      <3> QED BY <1>1, <1>2, <2>2, <3>2, <3>3 DEF Progress, At
    <2> QED
      BY <1>1, <1>5, <2>1, <2>2, <2>3, <2>4, StagedWriteInv DEF disk
  <1> QED
    BY <1>3, <1>4, <1>5 DEF WriteAll

LEMMA FsyncFileInv ==
  ASSUME IInv, NEW t \in Threads, FsyncFile(t)
  PROVE  IInv'
  <1> DEFINE f == frame[t].fd
  <1>1. /\ UNCHANGED <<machine, req>> /\ At(t, "fsync") /\ Staging(t) /\ Writing(t)
        /\ ThreadInv(t) /\ f \in Files /\ f = Staged(t)
    BY DEF FsyncFile, IInv, ThreadInv, Owned, At, Staging, Writing
  <1>2. CASE Abort(t)
    BY <1>1, <1>2, AbortActionInv
  <1>3. CASE /\ inode' = [inode EXCEPT ![f].synced = AfterFsync(@)]
             /\ Goto(t, "close") /\ UNCHANGED <<dir, maybe, frame>>
    <2>1. inode[f] \in [data : Contents, synced : BOOLEAN, kind : Kinds]
      BY <1>1 DEF IInv, TypeOK
    <2>2. /\ inode'[f] = [inode[f] EXCEPT !.synced = TRUE]
          /\ \A g \in Files : g # f => inode'[g] = inode[g]
      BY <1>1, <1>3 DEF IInv, TypeOK, AfterFsync
    <2>3. inode'[f].synced /\ inode'[f].data = inode[f].data /\ inode'[f].kind = inode[f].kind
      BY <2>1, <2>2
    <2>4. inode' \in [Files -> [data : Contents, synced : BOOLEAN, kind : Kinds]]
      BY <1>3, <2>1, <2>2 DEF IInv, TypeOK
    <2>5. TypeOK'
      BY <1>1, <1>3, <2>4 DEF IInv, TypeOK, machine, Goto, Labels
    <2>6. pc'[t] = "close" /\ \A u \in Threads \ {t} : pc'[u] = pc[u]
      BY <1>3 DEF Goto, IInv, TypeOK
    <2>7. Control(t)' /\ Writing(t)'
      BY <1>1, <1>3, <2>6 DEF ThreadInv, Control, At, Op, SetLabels, Writing
    <2>8. Progress(t)'
      <3>1. Staged(t)' = f
        BY <1>1, <1>3 DEF Staged
      <3> QED BY <1>1, <1>3, <2>3, <2>6, <3>1 DEF ThreadInv, Progress, At
    <2> QED
      BY <1>1, <1>3, <2>2, <2>5, <2>6, <2>7, <2>8, StagedWriteInv
  <1> QED
    BY <1>2, <1>3 DEF FsyncFile

-----------------------------------------------------------------------------
(* Steps that change the directory.                                          *)

\* Staged files of different goroutines differ, in name and in inode, and no
\* key denotes one.
LEMMA StagedApart ==
  ASSUME IInv, NEW t \in Threads, Staging(t)
  PROVE  /\ frame[t].tmp \in Temps /\ frame[t].tmp \in Names /\ frame[t].tmp \notin Keys
         /\ Staged(t) \in Files /\ Staged(t) \in maybe[frame[t].tmp]
         /\ \A k \in Keys : Staged(t) \notin maybe[k]
         /\ \A u \in Threads \ {t} : Staging(u) =>
               frame[u].tmp # frame[t].tmp /\ Staged(u) # Staged(t)
  <1>1. Owned(t)
    BY DEF IInv, ThreadInv
  <1>2. /\ frame[t].tmp \in Temps /\ frame[t].tmp \in Names /\ frame[t].tmp \notin Keys
        /\ Staged(t) \in Files /\ Staged(t) \in maybe[frame[t].tmp]
        /\ \A k \in Keys : Staged(t) \notin maybe[k]
    BY <1>1, NamesAssumption DEF Owned, Names, IInv, DiskInv, Staged
  <1>3. ASSUME NEW u \in Threads \ {t}, Staging(u)
        PROVE  frame[u].tmp # frame[t].tmp /\ Staged(u) # Staged(t)
    <2>1. Owned(u) /\ frame[u].tmp \in Names /\ Staged(u) \in maybe[frame[u].tmp]
      BY <1>3 DEF IInv, ThreadInv, Owned, Names, DiskInv, Staged
    <2> QED BY <1>1, <1>3, <2>1 DEF Owned
  <1> QED BY <1>2, <1>3

\* createTemporary made a file f nobody used, under a name n that was free.
LEMMA CreatedInv ==
  ASSUME IInv, NEW t \in Threads, At(t, "createTemporary"), UNCHANGED <<machine, req>>,
         NEW n \in Temps, dir[n] = None, NEW f \in Files, Unused(f, Threads),
         NEW kind \in {"private", "masked"}, Bind(n, f),
         inode' = [inode EXCEPT ![f] = [data |-> Blank, synced |-> FALSE, kind |-> kind]],
         frame' = [frame EXCEPT ![t].tmp = n, ![t].fd = f, ![t].tries = 0],
         Goto(t, "fchmod")
  PROVE  IInv'
  <1>1. /\ n \in Names /\ n \notin Keys /\ n # None /\ f # None /\ frame[t] \in Frames
        /\ ThreadInv(t) /\ Key(t) \in Keys
    BY NamesAssumption, RequestKey DEF Names, IInv, TypeOK, ThreadInv, Control, At
  <1>2. /\ \A m \in Names : f \notin maybe[m]
        /\ \A u \in Threads : f # frame[u].fd /\ f \notin frame[u].before
    BY DEF Unused
  <1>3. /\ dir'[n] = f /\ \A m \in Names \ {n} : dir'[m] = dir[m] /\ maybe'[m] = maybe[m]
        /\ f \in maybe'[n] /\ maybe'[n] \subseteq maybe[n] \cup {f}
    BY <1>1 DEF Bind, Pending, IInv, TypeOK
  <1>4. /\ inode'[f] = [data |-> Blank, synced |-> FALSE, kind |-> kind]
        /\ \A g \in Files : g # f => inode'[g] = inode[g]
    BY DEF IInv, TypeOK
  <1>5. frame'[t] = [frame[t] EXCEPT !.tmp = n, !.fd = f, !.tries = 0]
    BY DEF IInv, TypeOK
  <1>6. frame'[t] \in Frames
    <2>1. [frame[t] EXCEPT !.tries = 0] \in Frames
      <3>1. 0 \in 0 .. MaxAttempts - 1
        BY FsAssumption
      <3> QED BY <1>1, <3>1 DEF Frames
    <2>2. [[frame[t] EXCEPT !.tries = 0] EXCEPT !.tmp = n, !.fd = f] \in Frames
      BY <2>1 DEF Frames
    <2>3. frame'[t] = [[frame[t] EXCEPT !.tries = 0] EXCEPT !.tmp = n, !.fd = f]
      BY <1>1, <1>5, ZenonT(60) DEF Frames
    <2> QED BY <2>2, <2>3
  <1>7. /\ frame'[t].tmp = n /\ frame'[t].fd = f /\ frame'[t].before = frame[t].before
        /\ frame'[t].pos = frame[t].pos
        /\ \A u \in Threads \ {t} : frame'[u] = frame[u]
    BY <1>1, <1>5 DEF Frames, IInv, TypeOK
  <1>8. pc'[t] = "fchmod" /\ \A u \in Threads \ {t} : pc'[u] = pc[u]
    BY DEF Goto, IInv, TypeOK
  <1>9. TypeOK'
    <2>1. inode' \in [Files -> [data : Contents, synced : BOOLEAN, kind : Kinds]]
      BY <1>4, BlankType DEF IInv, TypeOK, Kinds
    <2>2. frame' \in [Threads -> Frames]
      BY <1>6, <1>7 DEF IInv, TypeOK
    <2>3. dir' \in [Names -> Files \cup {None}] /\ maybe' \in [Names -> SUBSET (Files \cup {None})]
      BY <1>1 DEF IInv, TypeOK, Bind, Pending
    <2> QED BY <2>1, <2>2, <2>3 DEF IInv, TypeOK, machine, Goto, Labels
  <1>10. \A k \in Keys : /\ dir'[k] = dir[k] /\ maybe'[k] = maybe[k]
                         /\ \A g \in maybe[k] \ {None} : g \in Files /\ inode'[g] = inode[g]
    BY <1>1, <1>2, <1>3, <1>4 DEF Names, IInv, TypeOK
  <1>11. DiskInv'
    <2>1. \A m \in Names : dir'[m] \in maybe'[m]
      BY <1>3 DEF IInv, DiskInv
    <2> QED
      BY <1>10, <2>1 DEF IInv, DiskInv, PublishedIsWhole, PublishedHasSecretMode, Trusted
  <1>12. \A u \in Threads \ {t} : Staging(u) =>
           /\ Staged(u)' = Staged(u) /\ Staged(u) # f /\ frame[u].tmp # n
           /\ inode'[Staged(u)] = inode[Staged(u)]
    <2> SUFFICES ASSUME NEW u \in Threads \ {t}, Staging(u)
                 PROVE  /\ Staged(u)' = Staged(u) /\ Staged(u) # f /\ frame[u].tmp # n
                        /\ inode'[Staged(u)] = inode[Staged(u)]
      OBVIOUS
    <2>1. frame[u].tmp \in Names /\ Staged(u) \in Files /\ Staged(u) \in maybe[frame[u].tmp]
      BY StagedApart
    <2>2. frame[u].tmp # n
      BY <2>1, NamesAssumption DEF Staged
    <2>3. Staged(u)' = Staged(u)
      BY <1>3, <1>7, <2>1, <2>2 DEF Staged
    <2>4. Staged(u) # f
      BY <1>2, <2>1
    <2> QED BY <1>4, <2>1, <2>2, <2>3, <2>4
  <1>13. ASSUME NEW u \in Threads \ {t} PROVE Control(u)' /\ Progress(u)' /\ Reading(u)'
                                              /\ Superseding(u)' /\ Cautious(u)'
    <2>1. ThreadInv(u) /\ pc'[u] = pc[u] /\ frame'[u] = frame[u] /\ req'[u] = req[u]
      BY <1>7, <1>8 DEF IInv
    <2>2. Control(u)'
      BY <2>1 DEF ThreadInv, Control, At, Op, Writing
    <2>3. Progress(u)'
      BY <1>12, <2>1 DEF ThreadInv, Progress, At, Staging, Writing
    <2>4. Reading(u)'
      <3>1. At(u, "read") => inode'[frame[u].fd] = inode[frame[u].fd]
        BY <1>2, <1>4, <2>1 DEF ThreadInv, Reading
      <3> QED BY <2>1, <3>1 DEF ThreadInv, Reading, At, Op, Succeeded
    <2>5. ~At(u, "idle") => Key(u) \in Keys /\ Key(u)' = Key(u)
      BY <2>1, RequestKey DEF ThreadInv, Control, Key
    <2>6. Superseding(u)'
      BY <1>10, <2>1, <2>5 DEF ThreadInv, Superseding, At, Op, Succeeded
    <2>7. Cautious(u)'
      BY <1>10, <2>1, <2>5 DEF ThreadInv, Cautious, Staging, Writing, At, Trusted
    <2> QED BY <2>2, <2>3, <2>4, <2>6, <2>7
  <1>14. Control(t)' /\ Progress(t)' /\ Reading(t)' /\ Superseding(t)' /\ Cautious(t)'
    <2>1. Control(t)'
      BY <1>1, <1>7, <1>8 DEF ThreadInv, Control, At, Op, SetLabels, Writing
    <2>2. Progress(t)'
      BY <1>3, <1>4, <1>7, <1>8 DEF Progress, At, Staged
    <2>3. Cautious(t)'
      BY <1>1, <1>10 DEF ThreadInv, Cautious, At, Key, Trusted
    <2> QED BY <1>8, <2>1, <2>2, <2>3 DEF Reading, Superseding, At, Succeeded
  <1>15. Owned(t)'
    <2>1. Staged(t)' = f
      BY <1>3, <1>7 DEF Staged
    <2>2. \A u \in Threads : u # t /\ Staging(u)' => frame'[u].tmp # n
      BY <1>7, <1>8, <1>12 DEF Staging, Writing
    <2>3. \A m \in Names : f \in maybe'[m] => m = n
      BY <1>2, <1>3
    <2> QED BY <1>2, <1>7, <1>8, <2>1, <2>2, <2>3, ZenonT(60) DEF Owned, Writing, At
  <1>16. ASSUME NEW u \in Threads \ {t} PROVE Owned(u)'
    <2> SUFFICES ASSUME Staging(u)' PROVE Owned(u)'
      BY DEF Owned
    <2>1. Staging(u) /\ Owned(u) /\ pc'[u] = pc[u] /\ frame'[u] = frame[u]
      BY <1>7, <1>8 DEF IInv, ThreadInv, Staging, Writing
    <2>2. Staged(u)' = Staged(u) /\ Staged(u) # f /\ frame[u].tmp # n
      BY <1>12, <2>1
    <2>3. \A m \in Names : Staged(u) \in maybe'[m] => m = frame[u].tmp
      BY <1>3, <2>1, <2>2 DEF Owned
    <2>4. \A w \in Threads : /\ Staged(u) \notin frame'[w].before
                             /\ w # u => frame'[w].fd # Staged(u)
      BY <1>7, <2>1, <2>2 DEF Owned
    <2>5. \A w \in Threads : w # u /\ Staging(w)' => frame'[w].tmp # frame[u].tmp
      BY <1>7, <1>8, <2>1, <2>2 DEF Owned, Staging, Writing
    <2> QED BY <2>1, <2>2, <2>3, <2>4, <2>5 DEF Owned, Writing, At
  <1> QED
    BY <1>9, <1>11, <1>13, <1>14, <1>15, <1>16 DEF IInv, ThreadInv

LEMMA CreateTemporaryInv ==
  ASSUME IInv, NEW t \in Threads, CreateTemporary(t)
  PROVE  IInv'
  <1>1. UNCHANGED <<machine, req>> /\ At(t, "createTemporary") /\ ThreadInv(t)
        /\ req[t] \in Requests /\ frame[t] \in Frames
    BY DEF CreateTemporary, IInv, TypeOK, ThreadInv, Control, At
  <1>2. CASE Fail(t)
    <2>1. TypeOK' /\ UNCHANGED disk
      BY <1>1, <1>2, FailType DEF IInv, TypeOK, machine, disk, Fail
    <2> QED BY <1>1, <1>2, <2>1, EndInv DEF Results
  <1>3. CASE ~LastAttempt(t) /\ frame' = [frame EXCEPT ![t].tries = @ + 1] /\ UNCHANGED <<disk, pc>>
    <2>1. frame'[t] = [frame[t] EXCEPT !.tries = @ + 1]
      BY <1>3 DEF IInv, TypeOK
    <2>2. frame[t].tries + 1 \in 0 .. MaxAttempts - 1
      BY <1>1, <1>3, FsAssumption DEF LastAttempt, Frames
    <2>3. frame'[t] \in Frames
      BY <1>1, <2>1, <2>2 DEF Frames
    <2>4. /\ frame'[t].tmp = frame[t].tmp /\ frame'[t].fd = frame[t].fd
          /\ frame'[t].before = frame[t].before /\ frame'[t].pos = frame[t].pos
          /\ \A u \in Threads \ {t} : frame'[u] = frame[u]
      BY <1>1, <1>3, <2>1 DEF Frames, IInv, TypeOK
    <2>5. TypeOK'
      BY <1>1, <1>3, <2>3, <2>4 DEF IInv, TypeOK, machine, disk
    <2>6. QuietStep(t)
      BY <1>1, <1>3, <2>4 DEF QuietStep, Staging, Writing
    <2>7. Control(t)' /\ Cautious(t)'
      BY <1>1, <1>3, <2>4 DEF ThreadInv, Control, Cautious, At, Op, Key, SetLabels, Writing,
         Staging, Trusted, disk
    <2>8. Progress(t)' /\ Reading(t)' /\ Superseding(t)'
      BY <1>1, <1>3 DEF Progress, Reading, Superseding, At, Succeeded
    <2> QED
      BY <1>1, <1>3, <2>4, <2>5, <2>6, <2>7, <2>8, QuietStepInv DEF At, Writing
  <1>4. CASE \E n \in Temps :
               /\ ~Exists(n)
               /\ \E f \in Files, kind \in {"private", "masked"} :
                     /\ IF dir[n] = None THEN Unused(f, Threads) ELSE f = dir[n]
                     /\ Bind(n, f)
                     /\ inode' = IF dir[n] = None
                                 THEN [inode EXCEPT ![f] =
                                         [data |-> Blank, synced |-> FALSE, kind |-> kind]]
                                 ELSE inode
                     /\ frame' = [frame EXCEPT ![t].tmp = n, ![t].fd = f, ![t].tries = 0]
                     /\ Goto(t, "fchmod")
    BY <1>1, <1>4, CreatedInv DEF Exists
  <1> QED
    BY <1>2, <1>3, <1>4 DEF CreateTemporary

LEMMA RenameInv ==
  ASSUME IInv, NEW t \in Threads, Rename(t)
  PROVE  IInv'
  <1> DEFINE k == Key(t)
             n == frame[t].tmp
             f == Staged(t)
  <1>1. /\ UNCHANGED <<machine, req>> /\ At(t, "rename") /\ Staging(t) /\ ThreadInv(t)
        /\ req[t] \in Requests /\ Op(t) = "set" /\ k \in Keys /\ k \in Names
    BY RequestKey DEF Rename, IInv, ThreadInv, Control, At, Staging, Writing, SetLabels
  <1>2. /\ n \in Temps /\ n \in Names /\ n \notin Keys /\ f \in Files /\ f # None
        /\ \A x \in Keys : f \notin maybe[x]
        /\ \A m \in Names : f \in maybe[m] => m = n
        /\ \A u \in Threads : f \notin frame[u].before
        /\ inode[f].synced /\ inode[f].data = Bytes(req[t].val) /\ inode[f].kind = "private"
        /\ req[t].val \in Values
    BY <1>1, StagedApart, NamesAssumption DEF ThreadInv, Owned, Progress, At, Requests, Op
  <1>3. CASE Abort(t)
    BY <1>1, <1>3, AbortActionInv
  <1>4. CASE /\ dir' = [dir EXCEPT ![k] = f, ![n] = None]
             /\ maybe' = [maybe EXCEPT ![k] = Pending(k, f), ![n] = Pending(n, None)]
             /\ frame' = [frame EXCEPT ![t] = FrameWith(Blank, maybe[k] \ {f}, "none")]
             /\ Goto(t, "fsyncDir")
             /\ UNCHANGED inode
    <2>1. /\ dir'[k] = f /\ f \in maybe'[k] /\ maybe'[k] \subseteq maybe[k] \cup {f}
          /\ dir'[n] = None /\ None \in maybe'[n] /\ maybe'[n] \subseteq maybe[n] \cup {None}
          /\ \A m \in Names \ {k, n} : dir'[m] = dir[m] /\ maybe'[m] = maybe[m]
      BY <1>1, <1>2, <1>4 DEF Pending, IInv, TypeOK
    <2>2. FrameWith(Blank, maybe[k] \ {f}, "none") \in Frames
      BY <1>1, BlankType, FrameWithType DEF IInv, TypeOK, Results
    <2>3. /\ frame'[t].fd = None /\ frame'[t].before = maybe[k] \ {f}
          /\ \A u \in Threads \ {t} : frame'[u] = frame[u]
      BY <1>4 DEF IInv, TypeOK, FrameWith
    <2>4. pc'[t] = "fsyncDir" /\ \A u \in Threads \ {t} : pc'[u] = pc[u]
      BY <1>4 DEF Goto, IInv, TypeOK
    <2>5. TypeOK'
      <3>1. dir' \in [Names -> Files \cup {None}] /\ maybe' \in [Names -> SUBSET (Files \cup {None})]
        BY <1>1, <1>2, <1>4, ZenonT(60) DEF IInv, TypeOK, Pending
      <3> QED BY <1>1, <1>4, <2>2, <3>1 DEF IInv, TypeOK, machine, Goto, Labels
    <2>6. DiskInv'
      <3>1. \A m \in Names : dir'[m] \in maybe'[m]
        BY <2>1 DEF IInv, DiskInv
      <3>2. \A g \in maybe[k] \ {None} : Trusted(g)
        BY <1>1 DEF ThreadInv, Cautious
      <3>3. \A x \in Keys : x # k => maybe'[x] = maybe[x]
        BY <1>2, <2>1 DEF Names
      <3>4. Trusted(f)
        BY <1>2 DEF Trusted
      <3>5. ASSUME NEW x \in Keys, NEW g \in maybe'[x] \ {None}
            PROVE  /\ inode[g].synced /\ \E v \in Values : inode[g].data = Bytes(v)
                   /\ inode[g].kind # "masked"
                   /\ ~Trusted(g) => maybe'[x] = {g}
        <4>1. CASE g \in maybe[x]
          BY <2>1, <3>2, <3>3, <3>4, <3>5, <4>1 DEF IInv, DiskInv, PublishedIsWhole, PublishedHasSecretMode
        <4>2. CASE g = f
          BY <1>2, <3>4, <4>2
        <4> QED BY <2>1, <3>3, <3>5, <4>1, <4>2
      <3> QED BY <1>4, <3>1, <3>5 DEF DiskInv, PublishedIsWhole, PublishedHasSecretMode, Trusted
    <2>7. \A u \in Threads \ {t} : Staging(u) =>
             Staged(u)' = Staged(u) /\ Staged(u) # f /\ frame[u].tmp \notin {n, k}
                                    /\ Staged(u) \notin maybe[k]
      <3> SUFFICES ASSUME NEW u \in Threads \ {t}, Staging(u)
                   PROVE  Staged(u)' = Staged(u) /\ Staged(u) # f /\ frame[u].tmp \notin {n, k}
                                                 /\ Staged(u) \notin maybe[k]
        OBVIOUS
      <3>1. frame[u].tmp \in Names /\ frame[u].tmp \notin Keys /\ Staged(u) \notin maybe[k]
        BY <1>1, StagedApart
      <3>2. Staged(u) # f /\ frame[u].tmp # n
        BY <1>1, StagedApart
      <3> QED BY <1>1, <2>1, <2>3, <3>1, <3>2 DEF Staged
    <2>8. ASSUME NEW u \in Threads \ {t} PROVE Control(u)' /\ Progress(u)' /\ Reading(u)'
                                               /\ Superseding(u)' /\ Cautious(u)'
      <3>1. ThreadInv(u) /\ pc'[u] = pc[u] /\ frame'[u] = frame[u] /\ req'[u] = req[u]
        BY <1>1, <2>3, <2>4 DEF IInv
      <3>2. Control(u)'
        BY <3>1 DEF ThreadInv, Control, At, Op, Writing
      <3>3. Progress(u)'
        BY <1>4, <2>7, <3>1 DEF ThreadInv, Progress, At, Staging, Writing
      <3>4. Reading(u)'
        BY <1>4, <3>1 DEF ThreadInv, Reading, At, Op, Succeeded
      <3>5. ~At(u, "idle") => Key(u) \in Keys /\ Key(u)' = Key(u)
        BY <3>1, RequestKey DEF ThreadInv, Control, Key
      <3>6. Key(u) \in Keys => /\ dir'[Key(u)] \in {dir[Key(u)], f}
                               /\ maybe'[Key(u)] \subseteq maybe[Key(u)] \cup {f}
        BY <1>2, <2>1 DEF Names
      <3>7. Superseding(u)'
        BY <1>2, <3>1, <3>5, <3>6 DEF ThreadInv, Superseding, At, Op, Succeeded
      <3>8. Cautious(u)'
        BY <1>2, <1>4, <3>1, <3>5, <3>6 DEF ThreadInv, Cautious, Staging, Writing, At, Trusted
      <3> QED BY <3>2, <3>3, <3>4, <3>7, <3>8
    <2>9. Control(t)' /\ Progress(t)' /\ Reading(t)' /\ Superseding(t)' /\ Cautious(t)'
      <3>1. Control(t)'
        BY <1>1, <2>3, <2>4 DEF Control, At, Op, SetLabels, Writing
      <3>2. Superseding(t)'
        BY <1>1, <2>1, <2>3, <2>4 DEF Superseding, At, Key, Succeeded
      <3> QED BY <2>4, <3>1, <3>2 DEF Progress, Reading, Cautious, At, Succeeded, Staging, Writing
    <2>10. ASSUME NEW u \in Threads PROVE Owned(u)'
      <3> SUFFICES ASSUME Staging(u)' PROVE Owned(u)'
        BY DEF Owned
      <3>1. u # t /\ Staging(u) /\ Owned(u) /\ pc'[u] = pc[u] /\ frame'[u] = frame[u]
        BY <2>3, <2>4 DEF IInv, ThreadInv, Staging, Writing
      <3>2. Staged(u)' = Staged(u) /\ Staged(u) # f /\ frame[u].tmp \notin {n, k}
                                   /\ Staged(u) \notin maybe[k]
        BY <2>7, <3>1
      <3>3. \A m \in Names : Staged(u) \in maybe'[m] => m = frame[u].tmp
        BY <2>1, <3>1, <3>2, NamesAssumption DEF Owned
      <3>4. \A w \in Threads : Staged(u) \notin frame'[w].before
        BY <2>3, <3>1, <3>2 DEF Owned
      <3>5. \A w \in Threads : w # u => frame'[w].fd # Staged(u)
        BY <2>3, <3>1, NamesAssumption DEF Owned
      <3>6. \A w \in Threads : w # u /\ Staging(w)' => frame'[w].tmp # frame[u].tmp
        BY <2>3, <2>4, <3>1 DEF Owned, Staging, Writing
      <3> QED BY <3>1, <3>2, <3>3, <3>4, <3>5, <3>6 DEF Owned, Writing, At
    <2> QED BY <2>5, <2>6, <2>8, <2>9, <2>10 DEF IInv, ThreadInv
  <1>5. \/ Abort(t)
        \/ /\ dir' = [dir EXCEPT ![k] = f, ![n] = None]
           /\ maybe' = [maybe EXCEPT ![k] = Pending(k, f), ![n] = Pending(n, None)]
           /\ frame' = [frame EXCEPT ![t] = FrameWith(Blank, maybe[k] \ {f}, "none")]
           /\ Goto(t, "fsyncDir")
           /\ UNCHANGED inode
    BY DEF Rename, Staged
  <1> QED
    BY <1>3, <1>4, <1>5

LEMMA UnlinkInv ==
  ASSUME IInv, NEW t \in Threads, Unlink(t)
  PROVE  IInv'
  <1> DEFINE k == Key(t)
  <1>1. /\ UNCHANGED <<machine, req>> /\ At(t, "unlink") /\ ThreadInv(t)
        /\ req[t] \in Requests /\ Op(t) = "delete" /\ k \in Keys /\ k \in Names
    BY RequestKey DEF Unlink, IInv, ThreadInv, Control, At
  <1>2. CASE (Finish(t, MissingResult(t)) /\ UNCHANGED disk) \/ Fail(t)
    <2>1. MissingResult(t) \in Results \ {"ok"}
      BY DEF MissingResult, Results
    <2>2. TypeOK' /\ UNCHANGED disk
      BY <1>1, <1>2, <2>1, FinishType, FailType DEF IInv, TypeOK, machine, disk, Fail
    <2> QED BY <1>1, <1>2, <2>1, <2>2, EndInv
  <1>3. CASE /\ Bind(k, None)
             /\ Goto(t, "fsyncDir")
             /\ frame' = [u \in Threads |->
                             [frame[u] EXCEPT !.before =
                                IF u = t THEN maybe[k] \ {None}
                                ELSE IF Key(u) = k THEN @ \ {None} ELSE @]]
             /\ UNCHANGED inode
    <2>1. /\ dir'[k] = None /\ None \in maybe'[k] /\ maybe'[k] \subseteq maybe[k] \cup {None}
          /\ \A m \in Names \ {k} : dir'[m] = dir[m] /\ maybe'[m] = maybe[m]
      BY <1>1, <1>3 DEF Bind, Pending, IInv, TypeOK
    <2>2. \A u \in Threads : frame[u] \in Frames
      BY DEF IInv, TypeOK
    <2>3. \A u \in Threads :
            /\ frame'[u].fd = frame[u].fd /\ frame'[u].tmp = frame[u].tmp
            /\ frame'[u].pos = frame[u].pos /\ frame'[u].buf = frame[u].buf
            /\ frame'[u].res = frame[u].res
            /\ frame'[u].before = IF u = t THEN maybe[k] \ {None}
                                  ELSE IF Key(u) = k THEN frame[u].before \ {None}
                                  ELSE frame[u].before
      BY <1>3, <2>2 DEF Frames
    <2>4. \A u \in Threads : u # t /\ frame[u] = NewFrame => frame'[u] = NewFrame
      <3> SUFFICES ASSUME NEW u \in Threads, u # t, frame[u] = NewFrame
                   PROVE  frame'[u] = NewFrame
        OBVIOUS
      <3>1. frame[u].before = {}
        BY DEF NewFrame, FrameWith
      <3>2. frame'[u] = [frame[u] EXCEPT !.before = {}]
        BY <1>3, <3>1
      <3> QED BY <3>2 DEF NewFrame, FrameWith
    <2>5. pc'[t] = "fsyncDir" /\ \A u \in Threads \ {t} : pc'[u] = pc[u]
      BY <1>3 DEF Goto, IInv, TypeOK
    <2>6. TypeOK'
      <3>1. dir' \in [Names -> Files \cup {None}] /\ maybe' \in [Names -> SUBSET (Files \cup {None})]
        BY <1>1, <1>3 DEF IInv, TypeOK, Bind, Pending
      <3>2. ASSUME NEW u \in Threads PROVE frame'[u] \in Frames
        <4>1. frame'[u].before \in SUBSET (Files \cup {None})
          BY <1>1, <2>2, <2>3, ZenonT(60) DEF IInv, TypeOK, Frames
        <4>2. frame'[u] = [frame[u] EXCEPT !.before = frame'[u].before]
          BY <1>3, <2>2, <2>3 DEF Frames
        <4> QED BY <2>2, <4>1, <4>2 DEF Frames
      <3>3. frame' \in [Threads -> Frames]
        BY <1>3, <3>2
      <3> QED BY <1>1, <1>3, <3>1, <3>3 DEF IInv, TypeOK, machine, Goto, Labels
    <2>7. DiskInv'
      <3>1. \A m \in Names : dir'[m] \in maybe'[m]
        BY <2>1 DEF IInv, DiskInv
      <3>2. \A g \in maybe[k] \ {None} : Trusted(g)
        BY <1>1 DEF ThreadInv, Cautious, At
      <3>3. \A x \in Keys : x # k => maybe'[x] = maybe[x]
        BY <2>1 DEF Names
      <3> QED
        BY <1>3, <2>1, <3>1, <3>2, <3>3 DEF IInv, DiskInv, PublishedIsWhole, PublishedHasSecretMode, Trusted
    <2>8. \A u \in Threads : Staging(u) => Staged(u)' = Staged(u) /\ Staged(u) \notin maybe[k]
      <3> SUFFICES ASSUME NEW u \in Threads, Staging(u)
                   PROVE  Staged(u)' = Staged(u) /\ Staged(u) \notin maybe[k]
        OBVIOUS
      <3>1. frame[u].tmp \in Names /\ frame[u].tmp \notin Keys /\ Staged(u) \notin maybe[k]
        BY <1>1, StagedApart
      <3> QED BY <1>1, <2>1, <2>3, <3>1 DEF Staged
    <2>9. ASSUME NEW u \in Threads \ {t} PROVE Control(u)' /\ Progress(u)' /\ Reading(u)'
                                               /\ Superseding(u)' /\ Cautious(u)'
      <3>1. ThreadInv(u) /\ pc'[u] = pc[u] /\ req'[u] = req[u]
        BY <1>1, <2>5 DEF IInv
      <3>2. Control(u)'
        BY <2>3, <2>4, <3>1 DEF ThreadInv, Control, At, Op, Writing
      <3>3. Progress(u)'
        BY <1>3, <2>3, <2>8, <3>1, ZenonT(60) DEF ThreadInv, Progress, At, Staging, Writing
      <3>4. Reading(u)'
        BY <1>3, <2>3, <3>1 DEF ThreadInv, Reading, At, Op, Succeeded
      <3>5. ~At(u, "idle") => Key(u) \in Names /\ Key(u)' = Key(u)
        BY <3>1, RequestKey DEF ThreadInv, Control, Key
      <3>6. Superseding(u)'
        <4>1. CASE Key(u) = k
          <5>1. frame'[u].before = frame[u].before \ {None}
            BY <2>3, <4>1
          <5>2. frame[u].before \cap maybe[k] = {} => frame'[u].before \cap maybe'[k] = {}
            BY <2>1, <5>1
          <5>3. ~At(u, "idle") => Key(u)' = k
            BY <3>5, <4>1
          <5>4. At(u, "fsyncDir")' => dir'[Key(u)'] \notin frame'[u].before
            BY <2>1, <3>1, <5>1, <5>3 DEF At
          <5>5. Succeeded(u)' = Succeeded(u) /\ Op(u)' = Op(u)
            BY <2>3, <3>1 DEF Succeeded, At, Op
          <5>6. Succeeded(u) /\ Op(u) # "get" => frame[u].before \cap maybe[k] = {} /\ Key(u)' = k
            BY <3>1, <4>1, <5>3 DEF ThreadInv, Superseding, Succeeded, At
          <5> QED BY <5>2, <5>4, <5>5, <5>6 DEF Superseding
        <4>2. CASE Key(u) # k
          <5>1. frame'[u].before = frame[u].before
            BY <2>3, <4>2
          <5>2. ~At(u, "idle") => dir'[Key(u)] = dir[Key(u)] /\ maybe'[Key(u)] = maybe[Key(u)]
            BY <2>1, <3>5, <4>2
          <5> QED BY <2>3, <3>1, <3>5, <5>1, <5>2 DEF ThreadInv, Superseding, At, Op, Succeeded
        <4> QED BY <4>1, <4>2
      <3>7. Cautious(u)'
        BY <1>3, <2>1, <3>1, <3>5 DEF ThreadInv, Cautious, Staging, Writing, At, Trusted
      <3> QED BY <3>2, <3>3, <3>4, <3>6, <3>7
    <2>10. Control(t)' /\ Progress(t)' /\ Reading(t)' /\ Superseding(t)' /\ Cautious(t)'
      <3>1. frame[t].fd = None
        BY <1>1 DEF ThreadInv, Control, At, Writing
      <3>2. Control(t)'
        BY <1>1, <2>3, <2>5, <3>1 DEF Control, At, Op, SetLabels, Writing
      <3>3. Superseding(t)'
        BY <1>1, <2>1, <2>3, <2>5 DEF Superseding, At, Key, Succeeded
      <3> QED BY <2>5, <3>2, <3>3 DEF Progress, Reading, Cautious, At, Succeeded, Staging, Writing
    <2>11. ASSUME NEW u \in Threads PROVE Owned(u)'
      <3> SUFFICES ASSUME Staging(u)' PROVE Owned(u)'
        BY DEF Owned
      <3>1. u # t /\ Staging(u) /\ Owned(u) /\ pc'[u] = pc[u]
        BY <2>5 DEF IInv, ThreadInv, Staging, Writing
      <3>2. Staged(u)' = Staged(u) /\ Staged(u) \notin maybe[k] /\ Staged(u) # None
        BY <2>8, <3>1, NamesAssumption DEF Owned
      <3>3. \A m \in Names : Staged(u) \in maybe'[m] => m = frame[u].tmp
        BY <2>1, <3>1, <3>2 DEF Owned
      <3>4. \A w \in Threads : Staged(u) \notin frame'[w].before
        BY <2>3, <3>1, <3>2 DEF Owned
      <3>5. \A w \in Threads : w # u /\ Staging(w)' => frame'[w].tmp # frame[u].tmp
        BY <2>3, <2>5, <3>1 DEF Owned, Staging, Writing
      <3> QED BY <2>3, <3>1, <3>2, <3>3, <3>4, <3>5 DEF Owned, Writing, At
    <2> QED BY <2>6, <2>7, <2>9, <2>10, <2>11 DEF IInv, ThreadInv
  <1> QED
    BY <1>2, <1>3 DEF Unlink

LEMMA FsyncDirInv ==
  ASSUME IInv, NEW t \in Threads, FsyncDir(t)
  PROVE  IInv'
  <1> DEFINE k == Key(t)
  <1>1. /\ UNCHANGED <<machine, req>> /\ At(t, "fsyncDir") /\ ThreadInv(t)
        /\ req[t] \in Requests /\ Op(t) # "get" /\ k \in Keys /\ k \in Names
    BY RequestKey DEF FsyncDir, IInv, ThreadInv, Control, At
  <1>2. CASE Fail(t)
    <2>1. TypeOK' /\ UNCHANGED disk
      BY <1>1, <1>2, FailType DEF IInv, TypeOK, machine, disk, Fail
    <2> QED BY <1>1, <1>2, <2>1, EndInv DEF Results
  <1>3. CASE maybe' = Settled /\ Finish(t, "ok") /\ UNCHANGED <<dir, inode>>
    <2>1. \A m \in Names : maybe'[m] = {dir[m]} /\ maybe'[m] \subseteq maybe[m]
      BY <1>3 DEF Settled, IInv, DiskInv
    <2>2. /\ pc'[t] = "return" /\ frame'[t].fd = None
          /\ frame'[t].before = frame[t].before
          /\ \A u \in Threads \ {t} : pc'[u] = pc[u] /\ frame'[u] = frame[u]
      BY <1>3 DEF IInv, TypeOK, Finish, Goto, FrameWith
    <2>3. TypeOK'
      <3>1. maybe' \in [Names -> SUBSET (Files \cup {None})]
        BY <1>3 DEF Settled, IInv, TypeOK
      <3> QED BY <1>1, <1>3, <3>1, FinishType DEF IInv, TypeOK, machine, Results
    <2>4. DiskInv'
      BY <1>3, <2>1 DEF IInv, DiskInv, PublishedIsWhole, PublishedHasSecretMode, Trusted, Names
    <2>5. ASSUME NEW u \in Threads \ {t} PROVE Control(u)' /\ Progress(u)' /\ Reading(u)'
                                               /\ Superseding(u)' /\ Cautious(u)'
      <3>1. ThreadInv(u) /\ pc'[u] = pc[u] /\ frame'[u] = frame[u] /\ req'[u] = req[u]
        BY <1>1, <2>2 DEF IInv
      <3>2. Control(u)'
        BY <3>1 DEF ThreadInv, Control, At, Op, Writing
      <3>3. Progress(u)'
        BY <1>3, <3>1 DEF ThreadInv, Progress, At, Staged
      <3>4. Reading(u)'
        BY <1>3, <3>1 DEF ThreadInv, Reading, At, Op, Succeeded
      <3>5. ~At(u, "idle") => Key(u) \in Names /\ Key(u)' = Key(u)
        BY <3>1, RequestKey DEF ThreadInv, Control, Key
      <3>6. Superseding(u)'
        BY <1>3, <2>1, <3>1, <3>5 DEF ThreadInv, Superseding, At, Op, Succeeded
      <3>7. Cautious(u)'
        BY <1>3, <2>1, <3>1, <3>5 DEF ThreadInv, Cautious, Staging, Writing, At, Trusted
      <3> QED BY <3>2, <3>3, <3>4, <3>6, <3>7
    <2>6. Control(t)' /\ Progress(t)' /\ Reading(t)' /\ Superseding(t)' /\ Cautious(t)'
      <3>1. Control(t)'
        BY <1>1, <2>2 DEF Control, At, Op, SetLabels, Writing
      <3>2. Superseding(t)'
        <4>1. frame[t].before \cap maybe'[k] = {}
          BY <1>1, <2>1 DEF ThreadInv, Superseding
        <4> QED BY <1>1, <2>2, <4>1 DEF Superseding, At, Key
      <3> QED BY <1>1, <2>2, <3>1, <3>2 DEF Progress, Reading, Cautious, At, Op, Staging, Writing
    <2>7. ASSUME NEW u \in Threads PROVE Owned(u)'
      <3> SUFFICES ASSUME Staging(u)' PROVE Owned(u)'
        BY DEF Owned
      <3>1. u # t /\ Staging(u) /\ Owned(u) /\ pc'[u] = pc[u] /\ frame'[u] = frame[u]
        BY <2>2 DEF IInv, ThreadInv, Staging, Writing
      <3>2. Staged(u)' = Staged(u) /\ Staged(u) # None
        BY <1>3, <3>1, NamesAssumption DEF Staged, Owned
      <3>3. \A w \in Threads : /\ frame'[w].before = frame[w].before
                               /\ w # u => frame'[w].fd # Staged(u)
        BY <2>2, <3>1, <3>2 DEF Owned
      <3>4. \A w \in Threads : w # u /\ Staging(w)' => frame'[w].tmp # frame[u].tmp
        BY <2>2, <3>1 DEF Owned, Staging, Writing
      <3> QED BY <2>1, <3>1, <3>2, <3>3, <3>4 DEF Owned, Writing, At
    <2> QED BY <2>3, <2>4, <2>5, <2>6, <2>7 DEF IInv, ThreadInv
  <1> QED
    BY <1>2, <1>3 DEF FsyncDir

LEMMA CleanupInv ==
  ASSUME IInv, NEW t \in Threads, Cleanup(t)
  PROVE  IInv'
  <1> DEFINE n == frame[t].tmp
  <1>1. /\ UNCHANGED <<machine, req, inode>> /\ At(t, "cleanup") /\ Staging(t) /\ ThreadInv(t)
        /\ req[t] \in Requests /\ frame[t].res = "failure" /\ Finish(t, "failure")
    BY DEF Cleanup, IInv, ThreadInv, Control, At, Staging
  <1>2. n \in Temps /\ n \in Names /\ n \notin Keys
    BY <1>1, StagedApart
  <1>3. CASE UNCHANGED <<dir, maybe>>
    <2>1. TypeOK'
      BY <1>1, <1>3, FinishType DEF IInv, TypeOK, machine, Results
    <2> QED BY <1>1, <1>3, <2>1, EndInv DEF Results, disk
  <1>4. CASE RemoveTemporary(t)
    <2>1. /\ dir'[n] = None /\ None \in maybe'[n] /\ maybe'[n] \subseteq maybe[n] \cup {None}
          /\ \A m \in Names \ {n} : dir'[m] = dir[m] /\ maybe'[m] = maybe[m]
      BY <1>2, <1>4 DEF RemoveTemporary, Bind, Pending, IInv, TypeOK
    <2>2. /\ pc'[t] = "return" /\ frame'[t].fd = None /\ frame'[t].res = "failure"
          /\ frame'[t].before = frame[t].before
          /\ \A u \in Threads \ {t} : pc'[u] = pc[u] /\ frame'[u] = frame[u]
      BY <1>1 DEF IInv, TypeOK, Finish, Goto, FrameWith
    <2>3. TypeOK'
      <3>1. dir' \in [Names -> Files \cup {None}] /\ maybe' \in [Names -> SUBSET (Files \cup {None})]
        BY <1>2, <1>4 DEF IInv, TypeOK, RemoveTemporary, Bind, Pending
      <3> QED BY <1>1, <3>1, FinishType DEF IInv, TypeOK, machine, Results
    <2>4. \A k \in Keys : dir'[k] = dir[k] /\ maybe'[k] = maybe[k]
      BY <1>2, <2>1 DEF Names
    <2>5. DiskInv'
      <3>1. \A m \in Names : dir'[m] \in maybe'[m]
        BY <2>1 DEF IInv, DiskInv
      <3> QED
        BY <1>1, <2>4, <3>1 DEF IInv, DiskInv, PublishedIsWhole, PublishedHasSecretMode, Trusted
    <2>6. \A u \in Threads \ {t} : Staging(u) => Staged(u)' = Staged(u) /\ Staged(u) # None
      <3> SUFFICES ASSUME NEW u \in Threads \ {t}, Staging(u)
                   PROVE  Staged(u)' = Staged(u) /\ Staged(u) # None
        OBVIOUS
      <3>1. frame[u].tmp \in Names /\ frame[u].tmp # n /\ Staged(u) \in Files
        BY <1>1, StagedApart
      <3> QED BY <2>1, <2>2, <3>1, NamesAssumption DEF Staged
    <2>7. ASSUME NEW u \in Threads \ {t} PROVE Control(u)' /\ Progress(u)' /\ Reading(u)'
                                               /\ Superseding(u)' /\ Cautious(u)'
      <3>1. ThreadInv(u) /\ pc'[u] = pc[u] /\ frame'[u] = frame[u] /\ req'[u] = req[u]
        BY <1>1, <2>2 DEF IInv
      <3>2. Control(u)'
        BY <3>1 DEF ThreadInv, Control, At, Op, Writing
      <3>3. Progress(u)'
        BY <1>1, <2>6, <3>1 DEF ThreadInv, Progress, At, Staging, Writing
      <3>4. Reading(u)'
        BY <1>1, <3>1 DEF ThreadInv, Reading, At, Op, Succeeded
      <3>5. ~At(u, "idle") => Key(u) \in Keys /\ Key(u)' = Key(u)
        BY <3>1, RequestKey DEF ThreadInv, Control, Key
      <3>6. Superseding(u)'
        BY <2>4, <3>1, <3>5 DEF ThreadInv, Superseding, At, Op, Succeeded
      <3>7. Cautious(u)'
        BY <1>1, <2>4, <3>1, <3>5 DEF ThreadInv, Cautious, Staging, Writing, At, Trusted
      <3> QED BY <3>2, <3>3, <3>4, <3>6, <3>7
    <2>8. Control(t)' /\ Progress(t)' /\ Reading(t)' /\ Superseding(t)' /\ Cautious(t)'
      BY <1>1, <2>2 DEF Control, Progress, Reading, Superseding, Cautious, At, SetLabels,
         Succeeded, Staging, Writing
    <2>9. ASSUME NEW u \in Threads PROVE Owned(u)'
      <3> SUFFICES ASSUME Staging(u)' PROVE Owned(u)'
        BY DEF Owned
      <3>1. u # t /\ Staging(u) /\ Owned(u) /\ pc'[u] = pc[u] /\ frame'[u] = frame[u]
        BY <2>2 DEF IInv, ThreadInv, Staging, Writing
      <3>2. Staged(u)' = Staged(u) /\ Staged(u) # None
        BY <2>6, <3>1
      <3>3. \A m \in Names : Staged(u) \in maybe'[m] => m = frame[u].tmp
        BY <2>1, <3>1, <3>2 DEF Owned
      <3>4. \A w \in Threads : /\ frame'[w].before = frame[w].before
                               /\ w # u => frame'[w].fd # Staged(u)
        BY <2>2, <3>1, <3>2 DEF Owned
      <3>5. \A w \in Threads : w # u /\ Staging(w)' => frame'[w].tmp # frame[u].tmp
        BY <2>2, <3>1 DEF Owned, Staging, Writing
      <3> QED BY <3>1, <3>2, <3>3, <3>4, <3>5 DEF Owned, Writing, At
    <2> QED BY <2>3, <2>5, <2>7, <2>8, <2>9 DEF IInv, ThreadInv
  <1> QED
    BY <1>3, <1>4 DEF Cleanup

-----------------------------------------------------------------------------
(* Steps that end operations.                                                *)

LEMMA IdleThreadInv ==
  ASSUME NEW u \in Threads, pc'[u] = "idle", frame'[u] = NewFrame
  PROVE  ThreadInv(u)'
  <1>1. frame'[u].fd = None
    BY DEF NewFrame, FrameWith
  <1>2. Control(u)'
    BY <1>1 DEF Control, At, SetLabels, Writing
  <1>3. Owned(u)' /\ Cautious(u)'
    BY DEF Owned, Cautious, Staging, Writing
  <1>4. Progress(u)' /\ Reading(u)' /\ Superseding(u)'
    BY DEF Progress, Reading, Superseding, At, Succeeded
  <1> QED BY <1>2, <1>3, <1>4 DEF ThreadInv

\* Goroutines outside `live' become idle, the directory stays, and every inode
\* that a name or a live goroutine refers to stays.
LEMMA EndedInv ==
  ASSUME IInv, NEW live \in SUBSET Threads, TypeOK', UNCHANGED <<dir, maybe>>,
         \A u \in live : pc'[u] = pc[u] /\ req'[u] = req[u] /\ frame'[u] = frame[u],
         \A u \in Threads \ live : pc'[u] = "idle" /\ frame'[u] = NewFrame,
         \A f \in Files : ~Unused(f, live) => inode'[f] = inode[f]
  PROVE  IInv'
  <1>1. \A m \in Names : \A f \in maybe[m] \ {None} : f \in Files /\ inode'[f] = inode[f]
    BY DEF IInv, TypeOK, Unused
  <1>2. DiskInv'
    BY <1>1 DEF IInv, DiskInv, PublishedIsWhole, PublishedHasSecretMode, Trusted, Names
  <1>3. ASSUME NEW u \in Threads \ live PROVE ThreadInv(u)'
    BY IdleThreadInv
  <1>4. ASSUME NEW u \in live PROVE ThreadInv(u)'
    <2>1. ThreadInv(u) /\ pc'[u] = pc[u] /\ frame'[u] = frame[u] /\ req'[u] = req[u]
          /\ u \in Threads
      BY DEF IInv
    <2>2. Control(u)'
      BY <2>1 DEF ThreadInv, Control, At, Op, Writing
    <2>3. Progress(u)'
      <3>1. Staging(u) => Staged(u)' = Staged(u) /\ inode'[Staged(u)] = inode[Staged(u)]
        BY <1>1, <2>1, StagedApart, NamesAssumption DEF Staged
      <3> QED BY <2>1, <3>1 DEF ThreadInv, Progress, At, Staging, Writing
    <2>4. Reading(u)'
      <3>1. At(u, "read") => inode'[frame[u].fd] = inode[frame[u].fd]
        BY <2>1 DEF ThreadInv, Reading, Unused
      <3> QED BY <2>1, <3>1 DEF ThreadInv, Reading, At, Op, Succeeded
    <2>5. ~At(u, "idle") => Key(u) \in Names /\ Key(u)' = Key(u)
      BY <2>1, RequestKey DEF ThreadInv, Control, Key
    <2>6. Superseding(u)'
      BY <2>1, <2>5 DEF ThreadInv, Superseding, At, Op, Succeeded
    <2>7. Cautious(u)'
      BY <1>1, <2>1, <2>5 DEF ThreadInv, Cautious, Staging, Writing, At, Trusted
    <2>8. Owned(u)'
      <3> SUFFICES ASSUME Staging(u)' PROVE Owned(u)'
        BY DEF Owned
      <3>1. Staging(u) /\ Owned(u) /\ Staged(u)' = Staged(u) /\ Staged(u) # None
        BY <2>1, NamesAssumption DEF ThreadInv, Owned, Staged, Staging, Writing
      <3>2. \A w \in Threads : /\ Staged(u) \notin frame'[w].before
                               /\ w # u => frame'[w].fd # Staged(u)
        BY <3>1 DEF Owned, NewFrame, FrameWith
      <3>3. \A w \in Threads : w # u /\ Staging(w)' => frame'[w].tmp # frame[u].tmp
        BY <3>1 DEF Owned, Staging, Writing
      <3> QED BY <2>1, <3>1, <3>2, <3>3 DEF Owned, Writing, At
    <2> QED BY <2>2, <2>3, <2>4, <2>6, <2>7, <2>8 DEF ThreadInv
  <1> QED BY <1>2, <1>3, <1>4 DEF IInv

LEMMA ReturnInv ==
  ASSUME IInv, NEW t \in Threads, Return(t)
  PROVE  IInv'
  <1> DEFINE live == Threads \ {t}
  <1>1. inode' \in [Files -> [data : Contents, synced : BOOLEAN, kind : Kinds]]
    BY BlankType DEF IInv, TypeOK, Return, Reclaimed, FreshInode, Kinds
  <1>2. TypeOK'
    BY <1>1, NewFrameType DEF IInv, TypeOK, Return, Unlocked, Goto, Labels
  <1>3. /\ \A u \in live : pc'[u] = pc[u] /\ req'[u] = req[u] /\ frame'[u] = frame[u]
        /\ \A u \in Threads \ live : pc'[u] = "idle" /\ frame'[u] = NewFrame
    BY DEF IInv, TypeOK, Return, Goto
  <1>4. \A f \in Files : ~Unused(f, live) => inode'[f] = inode[f]
    BY DEF Return, Reclaimed
  <1> HIDE DEF live
  <1>5. live \in SUBSET Threads
    BY DEF live
  <1> QED
    BY <1>2, <1>3, <1>4, <1>5, EndedInv DEF Return

LEMMA CrashInv ==
  ASSUME IInv, NEW p \in Procs, Crash(p)
  PROVE  IInv'
  <1> DEFINE live == {u \in Threads : Proc(u) # p}
  <1>1. /\ \A u \in live : pc'[u] = pc[u] /\ req'[u] = req[u] /\ frame'[u] = frame[u]
        /\ \A u \in Threads \ live : pc'[u] = "idle" /\ frame'[u] = NewFrame
    BY DEF Crash, Ended
  <1>2. TypeOK'
    <2>1. /\ pc' \in [Threads -> Labels] /\ req' \in [Threads -> Requests \cup {NoRequest}]
          /\ frame' \in [Threads -> Frames]
      BY NewFrameType DEF IInv, TypeOK, Crash, Ended, Labels
    <2> QED BY <2>1 DEF IInv, TypeOK, Crash, disk
  <1>3. UNCHANGED <<dir, maybe, inode>>
    BY DEF Crash, disk
  <1> HIDE DEF live
  <1>4. live \in SUBSET Threads
    BY DEF live
  <1> QED
    BY <1>1, <1>2, <1>3, <1>4, EndedInv

LEMMA PowerLossInv ==
  ASSUME IInv, PowerLoss
  PROVE  IInv'
  <1>1. PICK gone \in BOOLEAN, d \in [Names -> Files \cup {None}], cut \in 0 .. MaxLen :
          /\ \A n \in Names : d[n] \in IF gone THEN {None} ELSE maybe[n]
          /\ service' = IF gone THEN "missing" ELSE service
          /\ dir' = d
          /\ maybe' = [n \in Names |-> {d[n]}]
          /\ inode' = [f \in Files |-> IF \E n \in Names : d[n] = f
                                       THEN Survives(inode[f], cut)
                                       ELSE FreshInode(Blank, "private")]
    BY DEF PowerLoss
  <1>2. \A u \in Threads : pc'[u] = "idle" /\ frame'[u] = NewFrame /\ req'[u] = NoRequest
    BY DEF PowerLoss, Ended
  <1>3. TypeOK'
    <2>1. ASSUME NEW f \in Files
          PROVE  inode'[f] \in [data : Contents, synced : BOOLEAN, kind : Kinds]
      <3>1. inode[f] \in [data : Contents, synced : BOOLEAN, kind : Kinds]
        BY DEF IInv, TypeOK
      <3>2. [j \in 1 .. MaxLen |-> IF j <= cut THEN inode[f].data[j] ELSE None] \in Contents
        BY <3>1 DEF Contents
      <3>3. Survives(inode[f], cut) \in [data : Contents, synced : BOOLEAN, kind : Kinds]
        BY <3>1, <3>2 DEF Survives, Kinds
      <3>4. FreshInode(Blank, "private") \in [data : Contents, synced : BOOLEAN, kind : Kinds]
        BY BlankType DEF FreshInode, Kinds
      <3> QED BY <1>1, <3>3, <3>4
    <2>2. inode' \in [Files -> [data : Contents, synced : BOOLEAN, kind : Kinds]]
      BY <1>1, <2>1
    <2>3. /\ pc' \in [Threads -> Labels] /\ req' \in [Threads -> Requests \cup {NoRequest}]
          /\ frame' \in [Threads -> Frames]
      BY NewFrameType DEF PowerLoss, Ended, Labels
    <2> QED BY <1>1, <2>2, <2>3 DEF IInv, TypeOK, PowerLoss
  <1>4. \A k \in Keys : \A f \in maybe'[k] \ {None} :
          /\ f \in maybe[k] \ {None} /\ inode'[f] = inode[f] /\ maybe'[k] = {f}
    <2> SUFFICES ASSUME NEW k \in Keys, NEW f \in maybe'[k] \ {None}
                 PROVE  f \in maybe[k] \ {None} /\ inode'[f] = inode[f] /\ maybe'[k] = {f}
      OBVIOUS
    <2>1. k \in Names /\ f = d[k] /\ maybe'[k] = {f}
      BY <1>1 DEF Names
    <2>2. f \in maybe[k] \ {None} /\ f \in Files
      BY <1>1, <2>1
    <2>3. inode[f].synced
      BY <2>2 DEF IInv, DiskInv, PublishedIsWhole
    <2> QED BY <1>1, <2>1, <2>2, <2>3 DEF Survives
  <1>5. DiskInv'
    <2>1. \A n \in Names : dir'[n] \in maybe'[n]
      BY <1>1
    <2> QED
      BY <1>4, <2>1 DEF IInv, DiskInv, PublishedIsWhole, PublishedHasSecretMode
  <1>6. ASSUME NEW u \in Threads PROVE ThreadInv(u)'
    BY <1>2, IdleThreadInv
  <1> QED BY <1>3, <1>5, <1>6 DEF IInv

LEMMA OutsideInv ==
  ASSUME IInv, UNCHANGED <<dir, maybe, inode, pc, req, frame>>, TypeOK'
  PROVE  IInv'
  <1>1. \A u \in Threads : pc'[u] = pc[u] /\ req'[u] = req[u] /\ frame'[u] = frame[u]
    OBVIOUS
  <1> QED BY <1>1, EndedInv

LEMMA InitInv == Init => IInv
  <1> SUFFICES ASSUME Init PROVE IInv
    OBVIOUS
  <1>1. TypeOK
    BY InitType
  <1>2. ASSUME NEW u \in Threads PROVE ThreadInv(u)
    <2>1. pc[u] = "idle" /\ frame[u] = NewFrame /\ frame[u].fd = None
      BY DEF Init, NewFrame, FrameWith
    <2>2. Control(u)
      BY <2>1 DEF Control, At, SetLabels, Writing
    <2>3. Owned(u) /\ Cautious(u)
      BY <2>1 DEF Owned, Cautious, Staging, Writing
    <2>4. Progress(u) /\ Reading(u) /\ Superseding(u)
      BY <2>1 DEF Progress, Reading, Superseding, At, Succeeded
    <2> QED BY <2>2, <2>3, <2>4 DEF ThreadInv
  <1>3. PICK d \in [Keys -> Files \cup {None}], v \in [Keys -> Values],
             k \in [Keys -> {"private", "insecure"}] :
          /\ dir = [n \in Names |-> IF n \in Keys THEN d[n] ELSE None]
          /\ inode = [f \in Files |->
                IF \E x \in Keys : d[x] = f
                THEN LET x == CHOOSE y \in Keys : d[y] = f
                     IN  FreshInode(Bytes(v[x]), k[x])
                ELSE FreshInode(Blank, "private")]
    BY DEF Init
  <1>4. \A n \in Names : maybe[n] = {dir[n]}
    BY DEF Init
  <1>5. ASSUME NEW x \in Keys, NEW f \in maybe[x] \ {None}
        PROVE  \E w \in Values, kind \in {"private", "insecure"} :
                  inode[f] = FreshInode(Bytes(w), kind)
    <2>1. f = d[x] /\ f \in Files
      BY <1>3, <1>4 DEF Names
    <2> DEFINE y == CHOOSE z \in Keys : d[z] = f
    <2>2. y \in Keys /\ d[y] = f
      BY <2>1
    <2>3. inode[f] = FreshInode(Bytes(v[y]), k[y])
      BY <1>3, <2>1
    <2> HIDE DEF y
    <2> QED BY <2>2, <2>3
  <1>6. DiskInv
    <2>1. \A n \in Names : dir[n] \in maybe[n]
      BY <1>4
    <2>2. \A x \in Keys : \A f \in maybe[x] \ {None} : maybe[x] = {f}
      BY <1>4 DEF Names
    <2>3. PublishedIsWhole /\ PublishedHasSecretMode
      <3>1. ASSUME NEW x \in Keys, NEW f \in maybe[x] \ {None}
            PROVE  /\ inode[f].synced /\ inode[f].kind # "masked"
                   /\ \E w \in Values : inode[f].data = Bytes(w)
        <4>1. PICK w \in Values, kind \in {"private", "insecure"} :
                inode[f] = FreshInode(Bytes(w), kind)
          BY <1>5
        <4> QED BY <4>1 DEF FreshInode
      <3> QED BY <3>1 DEF PublishedIsWhole, PublishedHasSecretMode
    <2> QED BY <2>1, <2>2, <2>3 DEF DiskInv
  <1> QED BY <1>1, <1>2, <1>6 DEF IInv

LEMMA NextInv == IInv /\ [Next]_vars => IInv'
  <1> SUFFICES ASSUME IInv, [Next]_vars PROVE IInv'
    OBVIOUS
  <1>1. ASSUME NEW t \in Threads, Call(t) \/ Lock(t) PROVE IInv'
    BY <1>1, CallInv, LockInv
  <1>2. ASSUME NEW t \in Threads, Step(t) PROVE IInv'
    BY <1>2, ReturnInv, OpenServiceDirectoryInv, OpenCredentialInv, ReadInv, UnlinkInv,
       FsyncDirInv, ValidateExistingInv, CreateTemporaryInv, FchmodInv, WriteAllInv,
       FsyncFileInv, CloseFileInv, RenameInv, CleanupInv DEF Step
  <1>3. ASSUME NEW p \in Procs, Open(p) \/ MakeDirectory(p) PROVE IInv'
    <2>1. TypeOK'
      BY <1>3 DEF IInv, TypeOK, Open, MakeDirectory, disk
    <2> QED BY <1>3, <2>1, OutsideInv DEF Open, MakeDirectory, disk
  <1>4. ASSUME NEW p \in Procs, Crash(p) PROVE IInv'
    BY <1>4, CrashInv
  <1>5. CASE PowerLoss
    BY <1>5, PowerLossInv
  <1>6. CASE FlushParents
    <2>1. TypeOK'
      BY <1>6 DEF IInv, TypeOK, FlushParents, disk
    <2> QED BY <1>6, <2>1, OutsideInv DEF FlushParents, disk
  <1>7. CASE UNCHANGED vars
    <2>1. TypeOK'
      BY <1>7 DEF IInv, TypeOK, vars
    <2> QED BY <1>7, <2>1, OutsideInv DEF vars
  <1> QED BY <1>1, <1>2, <1>3, <1>4, <1>5, <1>6, <1>7 DEF Next

-----------------------------------------------------------------------------
(* The theorems.                                                             *)

\* The inductive invariant holds in every reachable state of the backend.
THEOREM Invariance == Spec => []IInv
  BY InitInv, NextInv, PTL DEF Spec

\* The variables keep their types whatever the goroutines, the processes and
\* the power supply do.
THEOREM TypeCorrectness == Spec => []TypeOK
  <1>1. IInv => TypeOK
    BY DEF IInv
  <1> QED BY <1>1, Invariance, PTL

\* No two Sets ever write one temporary file, in one process or in several, and
\* nobody reads it before it is renamed: createTemporary's O_EXCL.
THEOREM Privacy == Spec => []TemporaryIsPrivate
  <1>1. IInv => TemporaryIsPrivate
    <2> SUFFICES ASSUME IInv, NEW t \in Threads, Writing(t)
                 PROVE  /\ dir[frame[t].tmp] = frame[t].fd
                        /\ \A k \in Keys : frame[t].fd \notin maybe[k]
                        /\ \A u \in Threads \ {t} : frame[u].fd # frame[t].fd
      BY DEF TemporaryIsPrivate
    <2>1. Owned(t)
      BY DEF IInv, ThreadInv
    <2> QED BY <2>1, NamesAssumption DEF Owned, Staging, Staged, Names
  <1> QED BY <1>1, Invariance, PTL

\* What a key denotes, now or after a power loss, is always one whole value on
\* disk: the order of write, fsync and rename in writeAtomic.
THEOREM Atomicity == Spec => []PublishedIsWhole
  <1>1. IInv => PublishedIsWhole
    BY DEF IInv, DiskInv
  <1> QED BY <1>1, Invariance, PTL

\* A file that a key denotes has had its mode set: fchmod before rename.
THEOREM SecretModes == Spec => []PublishedHasSecretMode
  <1>1. IInv => PublishedHasSecretMode
    BY DEF IInv, DiskInv
  <1> QED BY <1>1, Invariance, PTL

\* A Get that succeeds returns one value that was Set, whatever happens to the
\* directory while it reads.
THEOREM WholeReads == Spec => []NoTornRead
  <1>1. IInv => NoTornRead
    BY DEF IInv, ThreadInv, Reading, NoTornRead
  <1> QED BY <1>1, Invariance, PTL

\* Once Set or Delete reports success, no power loss brings back what the key
\* denoted before: fsync(directory) before the return.
THEOREM Durability == Spec => []AckedIsDurable
  <1>1. IInv => AckedIsDurable
    BY DEF IInv, ThreadInv, Superseding, AckedIsDurable
  <1> QED BY <1>1, Invariance, PTL

-----------------------------------------------------------------------------
(* The mutation lock.                                                        *)

LockedLabels == SetLabels \cup {"openDirectory", "openCredential", "unlink", "fsyncDir"}

\* A mutation holds the mutex of its key until it returns.
Holding(t) ==
    pc[t] \in LockedLabels /\ Op(t) # "get" => lock[Proc(t)][Stripe(t)] = t

LockInvariant == \A t \in Threads : Holding(t)

\* A step that leaves the mutexes alone and starts no mutation.
LEMMA HoldingStep ==
  ASSUME IInv, LockInvariant, UNCHANGED <<lock, req>>, NEW t \in Threads, NEW label \in Labels,
         pc' = [pc EXCEPT ![t] = label], pc[t] \in LockedLabels
  PROVE  LockInvariant'
  <1> SUFFICES ASSUME NEW u \in Threads PROVE Holding(u)'
    BY DEF LockInvariant
  <1>1. pc'[u] \in LockedLabels => pc[u] \in LockedLabels
    BY DEF IInv, TypeOK
  <1> QED BY <1>1 DEF LockInvariant, Holding, Op, Proc, Stripe, Key

LEMMA LockInvariantStep ==
  ASSUME IInv, LockInvariant, NEW t \in Threads, Step(t)
  PROVE  LockInvariant'
  <1>1. CASE Return(t)
    <2> SUFFICES ASSUME NEW u \in Threads PROVE Holding(u)'
      BY DEF LockInvariant
    <2>1. CASE u = t
      BY <1>1, <2>1 DEF Return, Goto, Holding, LockedLabels, SetLabels, IInv, TypeOK
    <2>2. CASE u # t
      <3>1. pc'[u] = pc[u] /\ req'[u] = req[u]
        BY <1>1, <2>2 DEF Return, Goto, IInv, TypeOK
      <3>2. CASE pc[u] \in LockedLabels /\ Op(u) # "get"
        <4>1. req[u] \in Requests
          BY <3>2 DEF IInv, ThreadInv, Control, At, LockedLabels, SetLabels
        <4>2. Proc(u) \in Procs /\ Stripe(u) \in Stripes
          BY <4>1, FsAssumption, RequestKey DEF Proc, Stripe, Key
        <4>3. lock[Proc(u)][Stripe(u)] = u
          BY <3>2 DEF LockInvariant, Holding
        <4>4. lock'[Proc(u)][Stripe(u)] = u
          BY <1>1, <2>2, <4>2, <4>3 DEF Return, Unlocked
        <4> QED BY <3>1, <4>4 DEF Holding, Proc, Stripe, Key
      <3>3. CASE ~(pc[u] \in LockedLabels /\ Op(u) # "get")
        BY <3>1, <3>3 DEF Holding, Op
      <3> QED BY <3>2, <3>3
    <2> QED BY <2>1, <2>2
  <1>2. CASE ~Return(t)
    <2>1. CASE pc' = pc
      <3>1. UNCHANGED <<lock, req>>
        BY <1>2 DEF Step, machine, OpenServiceDirectory, OpenCredential, Read, Unlink, FsyncDir,
           ValidateExisting, CreateTemporary, Fchmod, WriteAll, FsyncFile, CloseFile, Rename, Cleanup
      <3> QED BY <2>1, <3>1 DEF LockInvariant, Holding, Op, Proc, Stripe, Key
    <2>2. CASE pc' # pc
      <3>1. UNCHANGED <<lock, req>>
        BY <1>2 DEF Step, machine, OpenServiceDirectory, OpenCredential, Read, Unlink, FsyncDir,
           ValidateExisting, CreateTemporary, Fchmod, WriteAll, FsyncFile, CloseFile, Rename, Cleanup
      <3>2. CASE Read(t)
        <4>1. PICK label \in Labels : pc' = [pc EXCEPT ![t] = label]
          BY <2>2, <3>2 DEF Read, Finish, Fail, Goto, Labels
        <4>2. label \notin LockedLabels /\ pc[t] = "read"
          BY <2>2, <3>2, <4>1 DEF Read, At, Finish, Fail, Goto, LockedLabels, SetLabels, IInv, TypeOK
        <4> SUFFICES ASSUME NEW u \in Threads PROVE Holding(u)'
          BY DEF LockInvariant
        <4>3. pc'[u] \in LockedLabels => pc[u] \in LockedLabels
          BY <4>1, <4>2 DEF IInv, TypeOK
        <4> QED BY <3>1, <4>3 DEF LockInvariant, Holding, Op, Proc, Stripe, Key
      <3>3. CASE ~Read(t)
        <4>1. pc[t] \in LockedLabels
          BY <1>2, <3>3 DEF Step, At, LockedLabels, SetLabels, OpenServiceDirectory, OpenCredential,
             Unlink, FsyncDir, ValidateExisting, CreateTemporary, Fchmod, WriteAll, FsyncFile,
             CloseFile, Rename, Cleanup
        <4>2. \E label \in Labels : pc' = [pc EXCEPT ![t] = label]
          BY <1>2, <2>2, <3>3 DEF Step, OpenServiceDirectory, OpenCredential, Unlink, FsyncDir,
             ValidateExisting, CreateTemporary, Fchmod, WriteAll, FsyncFile, CloseFile, Rename,
             Cleanup, Finish, Fail, Abort, Goto, Labels
        <4> QED BY <3>1, <4>1, <4>2, HoldingStep
      <3> QED BY <3>2, <3>3
    <2> QED BY <2>1, <2>2
  <1> QED BY <1>1, <1>2

LEMMA LockInvariantNext == IInv /\ LockInvariant /\ [Next]_vars => LockInvariant'
  <1> SUFFICES ASSUME IInv, LockInvariant, [Next]_vars PROVE LockInvariant'
    OBVIOUS
  <1>1. ASSUME NEW t \in Threads, Call(t) PROVE LockInvariant'
    <2> SUFFICES ASSUME NEW u \in Threads PROVE Holding(u)'
      BY DEF LockInvariant
    <2>1. CASE u = t
      <3>1. pc'[t] \in LockedLabels => req'[t].op = "get"
        BY <1>1 DEF Call, Goto, Finish, LockedLabels, SetLabels, IInv, TypeOK
      <3> QED BY <2>1, <3>1 DEF Holding, Op
    <2>2. CASE u # t
      <3>1. pc'[u] = pc[u] /\ req'[u] = req[u] /\ lock' = lock
        BY <1>1, <2>2 DEF Call, Goto, Finish, machine, IInv, TypeOK
      <3> QED BY <3>1 DEF LockInvariant, Holding, Op, Proc, Stripe, Key
    <2> QED BY <2>1, <2>2
  <1>2. ASSUME NEW t \in Threads, Lock(t) PROVE LockInvariant'
    <2> SUFFICES ASSUME NEW u \in Threads PROVE Holding(u)'
      BY DEF LockInvariant
    <2>1. req[t] \in Requests
      BY <1>2 DEF Lock, At, IInv, ThreadInv, Control
    <2>2. Proc(t) \in Procs /\ Stripe(t) \in Stripes
      BY <2>1, FsAssumption, RequestKey DEF Proc, Stripe, Key
    <2>3. req' = req
      BY <1>2 DEF Lock
    <2>4. CASE u = t
      <3>1. lock'[Proc(t)][Stripe(t)] = t
        BY <1>2, <2>2 DEF Lock, IInv, TypeOK
      <3> QED BY <2>3, <2>4, <3>1 DEF Holding, Op, Proc, Stripe, Key
    <2>5. CASE u # t
      <3>1. pc'[u] = pc[u]
        BY <1>2, <2>5 DEF Lock, Goto, IInv, TypeOK
      <3>2. CASE pc[u] \in LockedLabels /\ Op(u) # "get"
        <4>1. req[u] \in Requests
          BY <3>2 DEF IInv, ThreadInv, Control, At, LockedLabels, SetLabels
        <4>2. Proc(u) \in Procs /\ Stripe(u) \in Stripes
          BY <4>1, FsAssumption, RequestKey DEF Proc, Stripe, Key
        <4>3. lock[Proc(u)][Stripe(u)] = u /\ u # None
          BY <3>2, KeyringerAssumption DEF LockInvariant, Holding
        <4>4. lock'[Proc(u)][Stripe(u)] = u
          BY <1>2, <2>2, <4>2, <4>3 DEF Lock, LockFree, IInv, TypeOK
        <4> QED BY <2>3, <4>4 DEF Holding, Proc, Stripe, Key
      <3>3. CASE ~(pc[u] \in LockedLabels /\ Op(u) # "get")
        BY <2>3, <3>1, <3>3 DEF Holding, Op
      <3> QED BY <3>2, <3>3
    <2> QED BY <2>4, <2>5
  <1>3. ASSUME NEW t \in Threads, Step(t) PROVE LockInvariant'
    BY <1>3, LockInvariantStep
  <1>4. ASSUME NEW p \in Procs, Open(p) \/ MakeDirectory(p) PROVE LockInvariant'
    <2>1. UNCHANGED <<lock, pc, req>>
      BY <1>4 DEF Open, MakeDirectory
    <2> QED BY <2>1 DEF LockInvariant, Holding, Op, Proc, Stripe, Key
  <1>5. ASSUME NEW p \in Procs, Crash(p) PROVE LockInvariant'
    <2> SUFFICES ASSUME NEW u \in Threads PROVE Holding(u)'
      BY DEF LockInvariant
    <2>1. CASE Proc(u) = p
      BY <1>5, <2>1 DEF Crash, Ended, Holding, LockedLabels, SetLabels
    <2>2. CASE Proc(u) # p
      <3>1. pc'[u] = pc[u] /\ req'[u] = req[u] /\ lock'[Proc(u)] = lock[Proc(u)]
        BY <1>5, <2>2, FsAssumption DEF Crash, Ended, Proc, IInv, TypeOK
      <3> QED BY <3>1 DEF LockInvariant, Holding, Op, Proc, Stripe, Key
    <2> QED BY <2>1, <2>2
  <1>6. CASE PowerLoss
    BY <1>6 DEF PowerLoss, Ended, LockInvariant, Holding, LockedLabels, SetLabels
  <1>7. CASE FlushParents \/ UNCHANGED vars
    <2>1. UNCHANGED <<lock, pc, req>>
      BY <1>7 DEF FlushParents, vars
    <2> QED BY <2>1 DEF LockInvariant, Holding, Op, Proc, Stripe, Key
  <1> QED BY <1>1, <1>2, <1>3, <1>4, <1>5, <1>6, <1>7 DEF Next

-----------------------------------------------------------------------------
(* What a step does to a name.                                               *)

\* Only the owner of a temporary file, a rename, an unlink and a power loss
\* change what a name denotes.
LEMMA WhoRebinds ==
  ASSUME IInv, [Next]_vars, NEW n \in Names, dir'[n] # dir[n]
  PROVE  \/ PowerLoss
         \/ \E t \in Threads :
              \/ CreateTemporary(t) /\ n \in Temps
              \/ Cleanup(t) /\ n = frame[t].tmp /\ n \in Temps
              \/ Rename(t) /\ (n = frame[t].tmp \/ n = Key(t))
              \/ Unlink(t) /\ n = Key(t)
  <1>1. dir' # dir
    OBVIOUS
  <1>2. ~FlushParents /\ ~UNCHANGED vars /\ \A p \in Procs : ~Open(p) /\ ~MakeDirectory(p) /\ ~Crash(p)
    BY <1>1 DEF FlushParents, vars, disk, Open, MakeDirectory, Crash
  <1>3. \A t \in Threads : ~Call(t) /\ ~Lock(t) /\ ~Return(t) /\ ~OpenServiceDirectory(t)
                           /\ ~OpenCredential(t) /\ ~Read(t) /\ ~FsyncDir(t)
                           /\ ~ValidateExisting(t) /\ ~Fchmod(t)
    BY <1>1 DEF disk, Call, Lock, Return, OpenServiceDirectory, OpenCredential, Read, FsyncDir,
       ValidateExisting, Fchmod, Fail, Abort
  <1>4. \A t \in Threads : ~WriteAll(t) /\ ~FsyncFile(t) /\ ~CloseFile(t)
    BY <1>1 DEF disk, WriteAll, FsyncFile, CloseFile, Abort
  <1>5. ASSUME NEW t \in Threads, CreateTemporary(t) PROVE n \in Temps
    BY <1>5 DEF CreateTemporary, Bind, Fail, disk, IInv, TypeOK
  <1>6. ASSUME NEW t \in Threads, Cleanup(t) PROVE n = frame[t].tmp /\ n \in Temps
    <2>1. frame[t].tmp \in Temps
      BY <1>6 DEF Cleanup, At, IInv, ThreadInv, Owned, Staging
    <2> QED BY <1>6, <2>1 DEF Cleanup, RemoveTemporary, Bind, IInv, TypeOK
  <1>7. ASSUME NEW t \in Threads, Rename(t) PROVE n = frame[t].tmp \/ n = Key(t)
    BY <1>7 DEF Rename, Abort, disk, IInv, TypeOK
  <1>8. ASSUME NEW t \in Threads, Unlink(t) PROVE n = Key(t)
    BY <1>8 DEF Unlink, Bind, Fail, disk, IInv, TypeOK
  <1> QED BY <1>2, <1>3, <1>4, <1>5, <1>6, <1>7, <1>8 DEF Next, Step

\* Who renames or unlinks holds the lock of its key and found it trusted.
LEMMA WhoMutates ==
  ASSUME IInv, LockInvariant, NEW t \in Threads, Rename(t) \/ Unlink(t)
  PROVE  /\ lock[Proc(t)][Stripe(t)] = t
         /\ Key(t) \in Keys
         /\ \A f \in maybe[Key(t)] \ {None} : Trusted(f)
         /\ Rename(t) => frame[t].tmp \in Temps
  <1>1. pc[t] \in {"rename", "unlink"} /\ (Rename(t) => pc[t] = "rename")
    BY DEF Rename, Unlink, At
  <1>2. req[t] \in Requests /\ Op(t) # "get" /\ pc[t] \in LockedLabels
    BY <1>1 DEF IInv, ThreadInv, Control, At, LockedLabels, SetLabels
  <1>3. Key(t) \in Keys
    BY <1>2, RequestKey DEF Key
  <1>4. Cautious(t) /\ Owned(t)
    BY DEF IInv, ThreadInv
  <1> QED BY <1>1, <1>2, <1>3, <1>4 DEF LockInvariant, Holding, Cautious, Owned, Staging, At

\* A step moves one goroutine.
LEMMA ControlOfStep ==
  ASSUME IInv, NEW t \in Threads, Call(t) \/ Lock(t) \/ Step(t)
  PROVE  \E label : pc' = [pc EXCEPT ![t] = label]
  <1>0. CASE pc' = pc
    <2>1. pc' = [pc EXCEPT ![t] = pc[t]]
      BY <1>0 DEF IInv, TypeOK
    <2> QED BY <2>1
  <1>1. CASE Call(t) \/ Lock(t) \/ Return(t) \/ OpenServiceDirectory(t) \/ OpenCredential(t)
    BY <1>1 DEF Call, Lock, Return, OpenServiceDirectory, OpenCredential, Goto, Finish, Fail
  <1>2. CASE Unlink(t) \/ FsyncDir(t) \/ ValidateExisting(t) \/ Fchmod(t) \/ FsyncFile(t)
    BY <1>2 DEF Unlink, FsyncDir, ValidateExisting, Fchmod, FsyncFile, Goto, Finish, Fail, Abort
  <1>3. CASE CloseFile(t) \/ Rename(t) \/ Cleanup(t)
    BY <1>3 DEF CloseFile, Rename, Cleanup, Goto, Finish, Abort
  <1>4. CASE Read(t) \/ CreateTemporary(t) \/ WriteAll(t)
    BY <1>0, <1>4 DEF Read, CreateTemporary, WriteAll, Goto, Finish, Fail, Abort
  <1> QED BY <1>1, <1>2, <1>3, <1>4 DEF Step

\* Nothing takes a temporary name from the goroutine that uses it.
LEMMA FrameOfOthers ==
  ASSUME IInv, NEW t \in Threads, Call(t) \/ Lock(t) \/ Step(t), NEW u \in Threads, u # t
  PROVE  frame'[u].tmp = frame[u].tmp
  <1>1. CASE Call(t) \/ Lock(t) \/ Return(t) \/ OpenServiceDirectory(t) \/ OpenCredential(t)
    BY <1>1 DEF Call, Lock, Return, OpenServiceDirectory, OpenCredential, Finish, Fail, IInv, TypeOK
  <1>2. CASE FsyncDir(t) \/ ValidateExisting(t) \/ Fchmod(t) \/ FsyncFile(t) \/ CloseFile(t)
    BY <1>2 DEF FsyncDir, ValidateExisting, Fchmod, FsyncFile, CloseFile, Finish, Fail, Abort,
       IInv, TypeOK
  <1>3. CASE Rename(t) \/ Cleanup(t) \/ Read(t) \/ WriteAll(t) \/ CreateTemporary(t)
    BY <1>3 DEF Rename, Cleanup, Read, WriteAll, CreateTemporary, Finish, Fail, Abort, IInv, TypeOK
  <1>4. CASE Unlink(t)
    BY <1>4 DEF Unlink, Finish, Fail, IInv, TypeOK, Frames
  <1> QED BY <1>1, <1>2, <1>3, <1>4 DEF Step

\* A Set keeps its temporary name while it writes.
LEMMA StagingStep ==
  ASSUME IInv, NEW t \in Threads, Fchmod(t) \/ WriteAll(t) \/ FsyncFile(t) \/ CloseFile(t)
  PROVE  Staging(t)' /\ frame'[t].tmp = frame[t].tmp
  <1>1. CASE Fchmod(t)
    BY <1>1 DEF Fchmod, Goto, Abort, Staging, Writing, At, IInv, TypeOK, Frames
  <1>2. CASE WriteAll(t)
    BY <1>2 DEF WriteAll, Goto, Abort, Staging, Writing, At, IInv, TypeOK, Frames
  <1>3. CASE FsyncFile(t)
    BY <1>3 DEF FsyncFile, Goto, Abort, Staging, Writing, At, IInv, TypeOK, Frames
  <1>4. CASE CloseFile(t)
    BY <1>4 DEF CloseFile, Goto, Staging, Writing, At, IInv, TypeOK, Frames
  <1> QED BY <1>1, <1>2, <1>3, <1>4

-----------------------------------------------------------------------------
(* The theorems about mutations.                                             *)

LEMMA LockInvariantHolds == Spec => []LockInvariant
  <1>1. Init => LockInvariant
    BY DEF Init, LockInvariant, Holding, LockedLabels, SetLabels
  <1> QED BY <1>1, LockInvariantNext, Invariance, PTL DEF Spec

\* In one process nothing changes what a key denotes between the check of a Set
\* or Delete and its rename or unlink, whatever keys share a stripe: the mutex
\* is held from before the check until the return (keyring.go: Set, Delete).
THEOREM Locking ==
  ASSUME \A t, u \in Threads : ProcOf[t] = ProcOf[u]
  PROVE  Spec => ValidatedIsReplaced
  <1> DEFINE Validated == \A t \in Threads :
               /\ Staging(t) \/ pc[t] \in {"createTemporary", "unlink"}
               /\ pc'[t] = pc[t]
               => dir'[Key(t)] = dir[Key(t)]
  <1>1. ASSUME IInv, LockInvariant, [Next]_vars, NEW t \in Threads, pc'[t] = pc[t],
               Staging(t) \/ pc[t] \in {"createTemporary", "unlink"}
        PROVE  dir'[Key(t)] = dir[Key(t)]
    <2> SUFFICES ASSUME dir'[Key(t)] # dir[Key(t)] PROVE FALSE
      OBVIOUS
    <2>1. req[t] \in Requests /\ Op(t) # "get" /\ pc[t] \in LockedLabels /\ pc[t] # "idle"
      BY <1>1 DEF IInv, ThreadInv, Control, At, Staging, Writing, LockedLabels, SetLabels
    <2>2. Key(t) \in Keys /\ lock[Proc(t)][Stripe(t)] = t
      BY <1>1, <2>1, RequestKey DEF Key, LockInvariant, Holding
    <2>3. ~PowerLoss
      BY <1>1, <2>1 DEF PowerLoss, Ended
    <2>4. PICK u \in Threads : (Rename(u) \/ Unlink(u)) /\ Key(u) = Key(t)
      BY <1>1, <2>2, <2>3, WhoRebinds, WhoMutates, NamesAssumption DEF Names
    <2>5. u = t
      BY <1>1, <2>2, <2>4, WhoMutates DEF Proc, Stripe
    <2>6. pc'[t] # pc[t]
      BY <1>1, <2>4, <2>5 DEF Rename, Unlink, At, Goto, Finish, Fail, Abort, IInv, TypeOK
    <2> QED BY <1>1, <2>6
  <1>2. IInv /\ LockInvariant /\ [Next]_vars => [Validated]_vars
    BY <1>1
  <1> QED BY <1>2, Invariance, LockInvariantHolds, PTL DEF Spec, ValidatedIsReplaced

\* As long as no process dies and unlink works, no path of writeAtomic leaves a
\* temporary file that nobody is about to rename or remove.
THEOREM NothingLeftBehind ==
  ASSUME ~Crashes, ~PowerFails, "cleanup" \notin Faults
  PROVE  Spec => []NoTemporaryLeft
  <1>1. Init => NoTemporaryLeft
    BY NamesAssumption DEF Init, NoTemporaryLeft, Names
  <1>2. IInv /\ NoTemporaryLeft /\ [Next]_vars => NoTemporaryLeft'
    <2> SUFFICES ASSUME IInv, NoTemporaryLeft, [Next]_vars, NEW n \in Temps, dir'[n] # None
                 PROVE  \E t \in Threads : Staging(t)' /\ frame'[t].tmp = n
      BY DEF NoTemporaryLeft
    <2>1. n \in Names /\ n \notin Keys
      BY NamesAssumption DEF Names
    <2>2. CASE dir'[n] # dir[n]
      <3>1. PICK t \in Threads : CreateTemporary(t)
        <4>1. ASSUME NEW t \in Threads, Cleanup(t), n = frame[t].tmp PROVE FALSE
          BY <2>1, <4>1 DEF Cleanup, RemoveTemporary, Bind, CanFail, IInv, TypeOK
        <4>2. ASSUME NEW t \in Threads, Rename(t), n = frame[t].tmp PROVE FALSE
          BY <2>1, <2>2, <4>2 DEF Rename, Abort, disk, IInv, TypeOK
        <4>3. ASSUME NEW t \in Threads, Rename(t) \/ Unlink(t), n = Key(t) PROVE FALSE
          <5>1. req[t] \in Requests
            BY <4>3 DEF Rename, Unlink, At, IInv, ThreadInv, Control
          <5> QED BY <2>1, <4>3, <5>1, RequestKey DEF Key
        <4> QED BY <2>1, <2>2, <4>1, <4>2, <4>3, WhoRebinds DEF PowerLoss
      <3>2. pc'[t] = "fchmod" /\ frame'[t].tmp = n
        <4>1. ~UNCHANGED disk
          BY <2>2 DEF disk
        <4>2. PICK m \in Temps, f \in Files :
                 /\ dir' = [dir EXCEPT ![m] = f]
                 /\ frame' = [frame EXCEPT ![t].tmp = m, ![t].fd = f, ![t].tries = 0]
                 /\ pc' = [pc EXCEPT ![t] = "fchmod"]
          BY <3>1, <4>1 DEF CreateTemporary, Bind, Fail, disk, Goto
        <4>3. m = n
          BY <2>1, <2>2, <4>2 DEF IInv, TypeOK
        <4> QED BY <4>2, <4>3 DEF IInv, TypeOK, Frames
      <3> QED BY <3>2 DEF Staging, Writing
    <2>3. CASE dir'[n] = dir[n]
      <3>1. PICK t \in Threads : Staging(t) /\ frame[t].tmp = n
        BY <2>3 DEF NoTemporaryLeft
      <3>2. CASE pc'[t] = pc[t] /\ frame'[t].tmp = frame[t].tmp
        BY <3>1, <3>2 DEF Staging, Writing, At
      <3>3. CASE ~(pc'[t] = pc[t] /\ frame'[t].tmp = frame[t].tmp)
        <4>1. Step(t)
          <5>1. \A p \in Procs : ~Open(p) /\ ~MakeDirectory(p) /\ ~Crash(p)
            BY <3>3 DEF Open, MakeDirectory, Crash
          <5>2. ~PowerLoss /\ ~FlushParents /\ ~UNCHANGED vars
            BY <3>3 DEF PowerLoss, FlushParents, vars
          <5>3. PICK u \in Threads : Call(u) \/ Lock(u) \/ Step(u)
            BY <5>1, <5>2 DEF Next
          <5>4. CASE u = t
            <6>1. ~Call(t) /\ ~Lock(t)
              BY <3>1 DEF Call, Lock, At, Staging, Writing
            <6> QED BY <5>3, <5>4, <6>1
          <5>5. CASE u # t
            <6>1. pc'[t] = pc[t]
              <7>1. \E label : pc' = [pc EXCEPT ![u] = label]
                BY <5>3, ControlOfStep
              <7> QED BY <5>5, <7>1 DEF IInv, TypeOK
            <6>2. frame'[t].tmp = frame[t].tmp
              BY <5>3, <5>5, FrameOfOthers
            <6> QED BY <3>3, <6>1, <6>2
          <5> QED BY <5>4, <5>5
        <4>2. Staging(t)' /\ frame'[t].tmp = n
          <5>1. CASE Rename(t)
            <6>1. Abort(t)
              BY <2>1, <2>3, <3>1, <5>1 DEF Rename, IInv, TypeOK
            <6> QED BY <3>1, <6>1 DEF Abort, Goto, Staging, At, IInv, TypeOK, Frames
          <5>2. CASE Cleanup(t)
            BY <2>1, <2>3, <3>1, <5>2 DEF Cleanup, RemoveTemporary, Bind, CanFail, IInv, TypeOK
          <5>3. CASE Fchmod(t) \/ WriteAll(t) \/ FsyncFile(t) \/ CloseFile(t)
            BY <3>1, <5>3, StagingStep
          <5> QED BY <3>1, <4>1, <5>1, <5>2, <5>3 DEF Step, At, Staging, Writing, Return,
               OpenServiceDirectory, OpenCredential, Read, Unlink, FsyncDir, ValidateExisting,
               CreateTemporary
        <4> QED BY <4>2
      <3> QED BY <3>2, <3>3
    <2> QED BY <2>2, <2>3
  <1> QED BY <1>1, <1>2, Invariance, PTL DEF Spec

-----------------------------------------------------------------------------
(* Objects that fail validation.                                             *)

\* A service directory that a power loss may remove has been created by Open,
\* and holds nothing but credentials.
OwnCreation ==
    service # "durable" => \A k \in Keys : \A f \in maybe[k] \ {None} : Trusted(f)

\* No step changes the kind of an inode to one that fails validation.
LEMMA KindsStayTrusted ==
  ASSUME IInv, [Next]_vars, NEW f \in Files, Trusted(f)
  PROVE  Trusted(f)'
  <1>1. CASE inode' = inode
    BY <1>1 DEF Trusted
  <1>2. ASSUME NEW t \in Threads, Return(t) PROVE Trusted(f)'
    BY <1>2 DEF Return, Reclaimed, FreshInode, Trusted
  <1>3. ASSUME NEW t \in Threads, CreateTemporary(t), inode' # inode PROVE Trusted(f)'
    <2>1. PICK g \in Files, kind \in {"private", "masked"} :
             inode' = [inode EXCEPT ![g] = [data |-> Blank, synced |-> FALSE, kind |-> kind]]
      BY <1>3 DEF CreateTemporary, Fail, disk
    <2> QED BY <2>1 DEF Trusted, IInv, TypeOK
  <1>4. ASSUME NEW t \in Threads, Fchmod(t) PROVE Trusted(f)'
    BY <1>4 DEF Fchmod, SecretMode, Abort, disk, Trusted, IInv, TypeOK
  <1>5. ASSUME NEW t \in Threads, WriteAll(t) PROVE Trusted(f)'
    BY <1>5 DEF WriteAll, Abort, disk, Trusted, IInv, TypeOK
  <1>6. ASSUME NEW t \in Threads, FsyncFile(t) PROVE Trusted(f)'
    BY <1>6 DEF FsyncFile, Abort, disk, Trusted, IInv, TypeOK
  <1>7. CASE PowerLoss
    <2>1. PICK d \in [Names -> Files \cup {None}], cut \in 0 .. MaxLen :
             inode' = [g \in Files |-> IF \E n \in Names : d[n] = g
                                       THEN Survives(inode[g], cut)
                                       ELSE FreshInode(Blank, "private")]
      BY <1>7 DEF PowerLoss
    <2> QED BY <2>1 DEF Survives, FreshInode, Trusted
  <1>8. \A t \in Threads : Call(t) \/ Lock(t) \/ OpenServiceDirectory(t) \/ OpenCredential(t)
                           \/ Read(t) \/ Unlink(t) \/ FsyncDir(t) => inode' = inode
    BY DEF Call, Lock, OpenServiceDirectory, OpenCredential, Read, Unlink, FsyncDir, Fail, disk
  <1>9. \A t \in Threads : ValidateExisting(t) \/ CloseFile(t) \/ Rename(t) \/ Cleanup(t)
                           => inode' = inode
    BY DEF ValidateExisting, CloseFile, Rename, Cleanup, Fail, Abort, disk
  <1>10. /\ \A p \in Procs : Open(p) \/ MakeDirectory(p) \/ Crash(p) => inode' = inode
         /\ FlushParents \/ UNCHANGED vars => inode' = inode
    BY DEF Open, MakeDirectory, Crash, FlushParents, vars, disk
  <1> QED BY <1>1, <1>2, <1>3, <1>4, <1>5, <1>6, <1>7, <1>8, <1>9, <1>10 DEF Next, Step

\* A key only comes to denote files that are trusted.
LEMMA KeysGainTrusted ==
  ASSUME IInv, [Next]_vars, NEW k \in Keys, NEW f \in maybe'[k] \ {None}, f \notin maybe[k]
  PROVE  f \in Files /\ Trusted(f)
  <1>0. k \in Names /\ k \notin Temps /\ maybe'[k] # maybe[k]
    BY NamesAssumption DEF Names
  <1>1. ASSUME NEW t \in Threads, Rename(t) PROVE f \in Files /\ Trusted(f)
    <2>1. /\ frame[t].tmp \in Temps /\ Staged(t) \in Files
          /\ inode[Staged(t)].kind = "private"
      BY <1>1 DEF Rename, At, IInv, ThreadInv, Owned, Staging, Progress
    <2>2. f = Staged(t)
      BY <1>0, <1>1, <2>1 DEF Rename, Abort, disk, Pending, Staged, IInv, TypeOK
    <2> QED BY <2>1, <2>2 DEF Trusted
  <1>2. ASSUME NEW t \in Threads, Unlink(t) PROVE FALSE
    BY <1>0, <1>2 DEF Unlink, Bind, Pending, Fail, disk, IInv, TypeOK
  <1>3. ASSUME NEW t \in Threads, FsyncDir(t) PROVE FALSE
    BY <1>0, <1>3 DEF FsyncDir, Settled, Fail, disk, IInv, DiskInv
  <1>4. ASSUME NEW t \in Threads, CreateTemporary(t) PROVE FALSE
    BY <1>0, <1>4 DEF CreateTemporary, Bind, Fail, disk, IInv, TypeOK
  <1>5. ASSUME NEW t \in Threads, Cleanup(t) PROVE FALSE
    <2>1. frame[t].tmp \in Temps
      BY <1>5 DEF Cleanup, At, IInv, ThreadInv, Owned, Staging
    <2> QED BY <1>0, <1>5, <2>1 DEF Cleanup, RemoveTemporary, Bind, IInv, TypeOK
  <1>6. CASE PowerLoss
    BY <1>0, <1>6 DEF PowerLoss
  <1>7. \A t \in Threads : Call(t) \/ Lock(t) \/ Return(t) \/ OpenServiceDirectory(t)
                           \/ OpenCredential(t) \/ Read(t) => maybe' = maybe
    BY DEF Call, Lock, Return, OpenServiceDirectory, OpenCredential, Read, Fail, disk
  <1>8. \A t \in Threads : ValidateExisting(t) \/ Fchmod(t) \/ WriteAll(t) \/ FsyncFile(t)
                           \/ CloseFile(t) => maybe' = maybe
    BY DEF ValidateExisting, Fchmod, WriteAll, FsyncFile, CloseFile, Fail, Abort, disk
  <1>9. /\ \A p \in Procs : Open(p) \/ MakeDirectory(p) \/ Crash(p) => maybe' = maybe
        /\ FlushParents \/ UNCHANGED vars => maybe' = maybe
    BY DEF Open, MakeDirectory, Crash, FlushParents, vars, disk
  <1> QED BY <1>0, <1>1, <1>2, <1>3, <1>4, <1>5, <1>6, <1>7, <1>8, <1>9 DEF Next, Step

\* No step makes an object that a key may denote fail validation.
LEMMA NoNewInsecure ==
  ASSUME IInv, [Next]_vars, NEW k \in Keys, NEW f \in maybe'[k] \ {None}, ~Trusted(f)'
  PROVE  f \in maybe[k] /\ ~Trusted(f)
  <1>1. f \in maybe[k]
    BY KeysGainTrusted, KindsStayTrusted
  <1>2. f \in Files
    BY <1>1 DEF IInv, TypeOK, Names
  <1> QED BY <1>1, <1>2, KindsStayTrusted

LEMMA OwnCreationNext == IInv /\ OwnCreation /\ [Next]_vars => OwnCreation'
  <1> SUFFICES ASSUME IInv, OwnCreation, [Next]_vars, service' # "durable",
                      NEW k \in Keys, NEW f \in maybe'[k] \ {None}
               PROVE  Trusted(f)'
    BY DEF OwnCreation
  <1>1. service = "durable" => service' = "durable"
    BY DEF Next, vars, Step, machine, Call, Lock, Return, OpenServiceDirectory, OpenCredential,
       Read, Unlink, FsyncDir, ValidateExisting, CreateTemporary, Fchmod, WriteAll, FsyncFile,
       CloseFile, Rename, Cleanup, Open, MakeDirectory, Crash, PowerLoss, FlushParents
  <1> QED BY <1>1, NoNewInsecure DEF OwnCreation

\* An object that fails validation is never replaced or removed: Set and Delete
\* have looked at what they replace, nothing untrusted can take its place after
\* that, and a power loss removes only directories that Open has created
\* (keyring.go: Set, Delete; storage_linux.go: validateExistingCredential).
THEOREM InsecureObjectsStay == Spec => InsecureIsKept
  <1> DEFINE Kept == \A k \in Keys : dir[k] # None /\ ~Trusted(dir[k]) => dir'[k] = dir[k]
  <1>1. Init => OwnCreation
    BY DEF Init, OwnCreation, Names
  <1>2. IInv /\ LockInvariant /\ OwnCreation /\ [Next]_vars => [Kept]_vars
    <2> SUFFICES ASSUME IInv, LockInvariant, OwnCreation, [Next]_vars, NEW k \in Keys,
                        dir[k] # None, ~Trusted(dir[k]), dir'[k] # dir[k]
                 PROVE  FALSE
      OBVIOUS
    <2>1. k \in Names /\ k \notin Temps
      BY NamesAssumption DEF Names
    <2>2. dir[k] \in maybe[k] /\ maybe[k] = {dir[k]}
      BY <2>1 DEF IInv, DiskInv
    <2>3. ~PowerLoss
      <3> SUFFICES ASSUME PowerLoss PROVE FALSE
        OBVIOUS
      <3>1. PICK gone \in BOOLEAN : /\ gone => service = "volatile"
                                    /\ dir'[k] \in IF gone THEN {None} ELSE maybe[k]
        BY <2>1 DEF PowerLoss
      <3> QED BY <2>2, <3>1 DEF OwnCreation
    <2>4. PICK t \in Threads : (Rename(t) \/ Unlink(t)) /\ k = Key(t)
      BY <2>1, <2>3, WhoRebinds, WhoMutates
    <2> QED BY <2>2, <2>4, WhoMutates
  <1> QED BY <1>1, <1>2, OwnCreationNext, Invariance, LockInvariantHolds, PTL DEF Spec, InsecureIsKept

-----------------------------------------------------------------------------
(* The contract: what the map, the phases and the answers are.               *)

LEMMA BytesTellValues ==
  ASSUME NEW v \in Values, NEW w \in Values, Bytes(v) = Bytes(w)
  PROVE  v = w
  <1>1. /\ MaxLen \in Nat /\ SizeOf[v] \in 0 .. MaxLen /\ SizeOf[w] \in 0 .. MaxLen
        /\ v # None /\ w # None
    BY FsAssumption, KeyringerAssumption
  <1>2. CASE SizeOf[v] = 0 /\ SizeOf[w] = 0
    BY <1>2, FsAssumption
  <1>3. CASE SizeOf[v] > 0 \/ SizeOf[w] > 0
    <2>1. 1 \in 1 .. MaxLen
      BY <1>1, <1>3
    <2>2. /\ Bytes(v)[1] = IF 1 <= SizeOf[v] THEN v ELSE None
          /\ Bytes(w)[1] = IF 1 <= SizeOf[w] THEN w ELSE None
      BY <2>1 DEF Bytes
    <2> QED BY <1>1, <1>3, <2>2
  <1> QED BY <1>1, <1>2, <1>3

LEMMA ValueOfBytes ==
  ASSUME NEW v \in Values
  PROVE  ValueIn(Bytes(v)) = v
  <1>1. \E w \in Values : Bytes(v) = Bytes(w)
    OBVIOUS
  <1>2. ValueIn(Bytes(v)) = CHOOSE w \in Values : Bytes(v) = Bytes(w)
    BY <1>1 DEF ValueIn
  <1> QED BY <1>1, <1>2, BytesTellValues

\* A key denotes nothing, what validation refuses, or a whole value.
LEMMA MapFacts ==
  ASSUME IInv, NEW k \in Keys
  PROVE  /\ StoreOf[k] = IF dir[k] = None THEN None
                         ELSE IF ~Trusted(dir[k]) THEN Blocked
                         ELSE ValueIn(inode[dir[k]].data)
         /\ dir[k] # None => /\ dir[k] \in Files /\ dir[k] \in maybe[k]
                             /\ ValueIn(inode[dir[k]].data) \in Values
  <1>1. StoreOf[k] = IF dir[k] = None THEN None
                     ELSE IF ~Trusted(dir[k]) THEN Blocked
                     ELSE ValueIn(inode[dir[k]].data)
    BY DEF StoreOf
  <1>2. ASSUME dir[k] # None
        PROVE  /\ dir[k] \in Files /\ dir[k] \in maybe[k]
               /\ ValueIn(inode[dir[k]].data) \in Values
    <2>1. dir[k] \in Files /\ dir[k] \in maybe[k]
      BY <1>2 DEF IInv, TypeOK, DiskInv, Names
    <2>2. PICK v \in Values : inode[dir[k]].data = Bytes(v)
      BY <1>2, <2>1 DEF IInv, DiskInv, PublishedIsWhole
    <2> QED BY <2>1, <2>2, ValueOfBytes
  <1> QED BY <1>1, <1>2

PhaseAt(p, f) ==
    IF p = "idle" THEN "idle"
    ELSE IF p \in {"read", "fsyncDir"} THEN "applied"
    ELSE IF p = "cleanup" THEN "failed"
    ELSE IF p # "return" THEN "called"
    ELSE IF f.res \in Errors THEN "failed" ELSE "applied"

AnswerAt(p, f, op, data) ==
    IF p = "read" THEN ValueIn(data)
    ELSE IF p = "fsyncDir" THEN "ok"
    ELSE IF p = "return" /\ f.res = "notfound" THEN "notfound"
    ELSE IF p = "return" /\ f.res = "ok" THEN IF op = "get" THEN ValueIn(f.buf) ELSE "ok"
    ELSE None

Phase(t) == PhaseAt(pc[t], frame[t])
Answer(t) == AnswerAt(pc[t], frame[t], Op(t), inode[frame[t].fd].data)

LEMMA MappedPhase ==
  /\ PhaseOf = [t \in Threads |-> Phase(t)]
  /\ AnswerOf = [t \in Threads |-> Answer(t)]
  <1>1. ASSUME NEW t \in Threads PROVE PhaseOf[t] = Phase(t) /\ AnswerOf[t] = Answer(t)
    BY DEF PhaseOf, AnswerOf, Phase, Answer, PhaseAt, AnswerAt, At
  <1>2. /\ PhaseOf = [t \in Threads |-> PhaseOf[t]]
        /\ AnswerOf = [t \in Threads |-> AnswerOf[t]]
    BY DEF PhaseOf, AnswerOf
  <1> QED BY <1>1, <1>2

LEMMA MappedNext ==
  /\ PhaseOf' = [t \in Threads |-> Phase(t)']
  /\ AnswerOf' = [t \in Threads |-> Answer(t)']
  <1>1. ASSUME NEW t \in Threads PROVE PhaseOf'[t] = Phase(t)' /\ AnswerOf'[t] = Answer(t)'
    BY DEF PhaseOf, AnswerOf, Phase, Answer, PhaseAt, AnswerAt, At
  <1>2. /\ PhaseOf' = [t \in Threads |-> PhaseOf'[t]]
        /\ AnswerOf' = [t \in Threads |-> AnswerOf'[t]]
    BY DEF PhaseOf, AnswerOf
  <1> QED BY <1>1, <1>2

-----------------------------------------------------------------------------
(* What a step of one goroutine leaves alone.                                *)

Moves(t) == Call(t) \/ Lock(t) \/ Step(t)

\* The others keep what the contract sees of them.
LEMMA OthersStay ==
  ASSUME IInv, NEW t \in Threads, Moves(t), NEW u \in Threads, u # t
  PROVE  /\ pc'[u] = pc[u] /\ req'[u] = req[u]
         /\ frame'[u].fd = frame[u].fd /\ frame'[u].buf = frame[u].buf
         /\ frame'[u].res = frame[u].res
  <1>1. pc'[u] = pc[u]
    BY ControlOfStep DEF Moves, IInv, TypeOK
  <1>2. req'[u] = req[u]
    BY DEF Moves, Step, Call, Lock, Return, OpenServiceDirectory, OpenCredential, Read, Unlink,
       FsyncDir, ValidateExisting, CreateTemporary, Fchmod, WriteAll, FsyncFile, CloseFile,
       Rename, Cleanup, IInv, TypeOK
  <1>3. frame'[u].fd = frame[u].fd /\ frame'[u].buf = frame[u].buf /\ frame'[u].res = frame[u].res
    <2>1. CASE Call(t) \/ Lock(t) \/ Return(t) \/ OpenServiceDirectory(t) \/ OpenCredential(t)
      BY <2>1 DEF Call, Lock, Return, OpenServiceDirectory, OpenCredential, Finish, Fail, IInv,
         TypeOK
    <2>2. CASE FsyncDir(t) \/ ValidateExisting(t) \/ Fchmod(t) \/ FsyncFile(t) \/ CloseFile(t)
      BY <2>2 DEF FsyncDir, ValidateExisting, Fchmod, FsyncFile, CloseFile, Finish, Fail, Abort,
         IInv, TypeOK
    <2>3. CASE Rename(t) \/ Cleanup(t) \/ Read(t) \/ WriteAll(t) \/ CreateTemporary(t)
      BY <2>3 DEF Rename, Cleanup, Read, WriteAll, CreateTemporary, Finish, Fail, Abort, IInv,
         TypeOK
    <2>4. CASE Unlink(t)
      BY <2>4 DEF Unlink, Finish, Fail, IInv, TypeOK, Frames
    <2> QED BY <2>1, <2>2, <2>3, <2>4 DEF Moves, Step
  <1> QED BY <1>1, <1>2, <1>3

\* So do the files that a key denotes or that another goroutine reads.
LEMMA SeenFilesStay ==
  ASSUME IInv, NEW t \in Threads, Moves(t), NEW f \in Files,
         \/ \E k \in Keys : dir[k] = f
         \/ \E u \in Threads \ {t} : frame[u].fd = f
  PROVE  inode'[f].data = inode[f].data /\ inode'[f].kind = inode[f].kind
  <1>1. ~Unused(f, Threads) /\ ~Unused(f, Threads \ {t})
    BY DEF Unused, IInv, DiskInv, Names
  <1>2. Writing(t) => f # frame[t].fd
    BY NamesAssumption DEF IInv, ThreadInv, Owned, Staging, DiskInv, Names
  <1>3. CASE Return(t)
    BY <1>1, <1>3 DEF Return, Reclaimed
  <1>4. CASE CreateTemporary(t)
    BY <1>1, <1>4 DEF CreateTemporary, Fail, disk, IInv, TypeOK
  <1>5. CASE Fchmod(t)
    BY <1>2, <1>5 DEF Fchmod, Abort, disk, Writing, At, IInv, TypeOK
  <1>6. CASE WriteAll(t)
    BY <1>2, <1>6 DEF WriteAll, Abort, disk, Writing, At, IInv, TypeOK
  <1>7. CASE FsyncFile(t)
    BY <1>2, <1>7 DEF FsyncFile, Abort, disk, Writing, At, IInv, TypeOK
  <1>8. CASE Call(t) \/ Lock(t) \/ OpenServiceDirectory(t) \/ OpenCredential(t) \/ Read(t)
             \/ Unlink(t) \/ FsyncDir(t)
    BY <1>8 DEF Call, Lock, OpenServiceDirectory, OpenCredential, Read, Unlink, FsyncDir, Fail, disk
  <1>9. CASE ValidateExisting(t) \/ CloseFile(t) \/ Rename(t) \/ Cleanup(t)
    BY <1>9 DEF ValidateExisting, CloseFile, Rename, Cleanup, Fail, Abort, disk
  <1> QED BY <1>3, <1>4, <1>5, <1>6, <1>7, <1>8, <1>9 DEF Moves, Step

\* The contract sees the step of t at t, and the map where a key is rebound.
LEMMA SeenOfStep ==
  ASSUME IInv, NEW t \in Threads, Moves(t)
  PROVE  /\ PhaseOf[t] = Phase(t) /\ AnswerOf[t] = Answer(t)
         /\ PhaseOf' = [PhaseOf EXCEPT ![t] = Phase(t)']
         /\ AnswerOf' = [AnswerOf EXCEPT ![t] = Answer(t)']
         /\ \A k \in Keys : dir'[k] = dir[k] => StoreOf'[k] = StoreOf[k]
  <1>1. ASSUME NEW u \in Threads, u # t PROVE Phase(u)' = Phase(u) /\ Answer(u)' = Answer(u)
    <2>1. /\ pc'[u] = pc[u] /\ req'[u] = req[u]
          /\ frame'[u].fd = frame[u].fd /\ frame'[u].buf = frame[u].buf
          /\ frame'[u].res = frame[u].res
      BY <1>1, OthersStay
    <2>2. pc[u] = "read" => inode'[frame[u].fd].data = inode[frame[u].fd].data
      <3>1. pc[u] = "read" => frame[u].fd \in Files
        BY DEF IInv, ThreadInv, Reading, At
      <3> QED BY <1>1, <3>1, SeenFilesStay
    <2>3. Phase(u)' = Phase(u)
      BY <2>1 DEF Phase, PhaseAt
    <2>4. Answer(u)' = Answer(u)
      BY <2>1, <2>2 DEF Answer, AnswerAt, Op
    <2> QED BY <2>3, <2>4
  <1>2. ASSUME NEW k \in Keys, dir'[k] = dir[k] PROVE StoreOf'[k] = StoreOf[k]
    <2>1. CASE dir[k] = None
      BY <1>2, <2>1 DEF StoreOf
    <2>2. CASE dir[k] # None
      <3>1. dir[k] \in Files
        BY <2>2, MapFacts
      <3>2. inode'[dir[k]].data = inode[dir[k]].data /\ inode'[dir[k]].kind = inode[dir[k]].kind
        BY <3>1, SeenFilesStay
      <3> QED BY <1>2, <2>2, <3>2 DEF StoreOf, Trusted
    <2> QED BY <2>1, <2>2
  <1> QED BY <1>1, <1>2, MappedPhase, MappedNext

-----------------------------------------------------------------------------
(* The steps of one goroutine.                                               *)

\* A step of the contract, or none.
Implemented == [Contract!Next]_(Contract!contractVars)

LEMMA ContractFacts == Contract!Requests = Requests /\ Contract!NoRequest = NoRequest
  BY DEF Contract!Requests, Requests, Contract!NoRequest, NoRequest

\* Only a rename and an unlink change the map.
LEMMA MapStays ==
  ASSUME IInv, NEW t \in Threads, Moves(t), ~Rename(t), ~Unlink(t)
  PROVE  StoreOf' = StoreOf
  <1>1. ASSUME NEW k \in Keys PROVE dir'[k] = dir[k]
    <2>1. k \in Names /\ k \notin Temps
      BY NamesAssumption DEF Names
    <2>2. CASE CreateTemporary(t)
      BY <2>1, <2>2 DEF CreateTemporary, Bind, Fail, disk, IInv, TypeOK
    <2>3. CASE Cleanup(t)
      <3>1. frame[t].tmp \in Temps
        BY <2>3 DEF Cleanup, At, IInv, ThreadInv, Owned, Staging
      <3> QED BY <2>1, <2>3, <3>1 DEF Cleanup, RemoveTemporary, Bind, IInv, TypeOK
    <2>4. CASE Call(t) \/ Lock(t) \/ Return(t) \/ OpenServiceDirectory(t) \/ OpenCredential(t)
               \/ Read(t) \/ FsyncDir(t)
      BY <2>4 DEF Call, Lock, Return, OpenServiceDirectory, OpenCredential, Read, FsyncDir, Fail,
         disk
    <2>5. CASE ValidateExisting(t) \/ Fchmod(t) \/ WriteAll(t) \/ FsyncFile(t) \/ CloseFile(t)
      BY <2>5 DEF ValidateExisting, Fchmod, WriteAll, FsyncFile, CloseFile, Fail, Abort, disk
    <2> QED BY <2>2, <2>3, <2>4, <2>5 DEF Moves, Step
  <1>2. StoreOf = [k \in Keys |-> StoreOf[k]] /\ StoreOf' = [k \in Keys |-> StoreOf'[k]]
    BY DEF StoreOf
  <1> QED BY <1>1, <1>2, SeenOfStep

\* A step that the contract does not see.
LEMMA Unseen ==
  ASSUME IInv, NEW t \in Threads, Moves(t), StoreOf' = StoreOf, req' = req,
         Phase(t)' = Phase(t), Answer(t)' = Answer(t)
  PROVE  Implemented
  <1>1. PhaseOf' = PhaseOf /\ AnswerOf' = AnswerOf
    BY SeenOfStep, MappedPhase
  <1> QED BY <1>1 DEF Implemented, Contract!contractVars

\* A step that reports an error.
LEMMA Reported ==
  ASSUME IInv, NEW t \in Threads, Moves(t), StoreOf' = StoreOf, req' = req,
         Phase(t) \in {"called", "applied"}, Phase(t)' = "failed"
  PROVE  Implemented
  <1>1. Answer(t)' = None
    BY DEF Phase, PhaseAt, Answer, AnswerAt, Errors
  <1>2. Contract!Fail(t)
    BY <1>1, SeenOfStep DEF Contract!Fail
  <1> QED BY <1>2 DEF Implemented, Contract!Next

\* The label and the result that a step ends with.
LEMMA FinishSeen ==
  ASSUME IInv, NEW t \in Threads, NEW r, Finish(t, r)
  PROVE  /\ pc'[t] = "return" /\ frame'[t].res = r /\ frame'[t].buf = frame[t].buf
         /\ r \in Errors => Phase(t)' = "failed"
         /\ r \notin Errors => Phase(t)' = "applied"
  <1>1. pc'[t] = "return" /\ frame'[t].res = r /\ frame'[t].buf = frame[t].buf
    BY DEF Finish, Goto, FrameWith, IInv, TypeOK
  <1> QED BY <1>1 DEF Phase, PhaseAt

LEMMA FailSeen ==
  ASSUME IInv, NEW t \in Threads, Fail(t) \/ (Abort(t) /\ Staging(t))
  PROVE  Phase(t)' = "failed"
  <1>1. CASE Fail(t)
    <2>1. pc'[t] = "return" /\ frame'[t].res = "failure"
      BY <1>1 DEF Fail, Goto, FrameWith, IInv, TypeOK
    <2> QED BY <2>1 DEF Phase, PhaseAt, Errors
  <1>2. CASE Abort(t)
    <2>1. pc'[t] = "cleanup"
      BY <1>2 DEF Abort, Goto, IInv, TypeOK
    <2> QED BY <2>1 DEF Phase, PhaseAt
  <1> QED BY <1>1, <1>2

\* Where an operation has been called and has not taken effect.
Undecided == Labels \ {"idle", "read", "fsyncDir", "cleanup", "return"}

LEMMA UndecidedSeen ==
  ASSUME NEW t \in Threads
  PROVE  /\ pc[t] \in Undecided => Phase(t) = "called" /\ Answer(t) = None
         /\ pc'[t] \in Undecided => Phase(t)' = "called" /\ Answer(t)' = None
  BY DEF Undecided, Phase, PhaseAt, Answer, AnswerAt

\* Up to the instant at which it takes effect, an operation goes on or fails.
LEMMA UndecidedSound ==
  ASSUME IInv, NEW t \in Threads,
         \/ Lock(t) \/ OpenServiceDirectory(t) \/ ValidateExisting(t) \/ CreateTemporary(t)
         \/ Fchmod(t) \/ WriteAll(t) \/ FsyncFile(t) \/ CloseFile(t)
  PROVE  Implemented
  <1>1. Moves(t) /\ ~Rename(t) /\ ~Unlink(t) /\ req' = req /\ pc[t] \in Undecided
    BY DEF Moves, Step, Lock, OpenServiceDirectory, ValidateExisting, CreateTemporary, Fchmod,
       WriteAll, FsyncFile, CloseFile, Rename, Unlink, At, Undecided, Labels
  <1>2. StoreOf' = StoreOf
    BY <1>1, MapStays
  <1>3. pc'[t] \in Undecided \/ Phase(t)' = "failed"
    <2>1. CASE Lock(t) \/ OpenServiceDirectory(t) \/ ValidateExisting(t)
      <3>1. ASSUME Finish(t, "insecure") PROVE Phase(t)' = "failed"
        BY <3>1, FinishSeen DEF Errors
      <3> QED BY <2>1, <3>1, FailSeen DEF Lock, OpenServiceDirectory, ValidateExisting, Goto,
                                          Undecided, Labels, IInv, TypeOK
    <2>2. CASE CreateTemporary(t)
      BY <1>1, <2>2, FailSeen DEF CreateTemporary, Goto, Undecided, Labels, IInv, TypeOK
    <2>3. CASE Fchmod(t) \/ WriteAll(t) \/ FsyncFile(t)
      <3>1. Staging(t)
        BY <2>3 DEF Fchmod, WriteAll, FsyncFile, At, Staging, Writing
      <3> QED BY <1>1, <2>3, <3>1, FailSeen DEF Fchmod, WriteAll, FsyncFile, Goto, Undecided, Labels,
                                                IInv, TypeOK
    <2>4. CASE CloseFile(t)
      <3>1. pc'[t] \in {"rename", "cleanup"}
        BY <2>4 DEF CloseFile, Goto, IInv, TypeOK
      <3> QED BY <3>1 DEF Undecided, Labels, Phase, PhaseAt
    <2> QED BY <2>1, <2>2, <2>3, <2>4
  <1> QED BY <1>1, <1>2, <1>3, UndecidedSeen, Unseen, Reported

LEMMA CallSound ==
  ASSUME IInv, NEW t \in Threads, Call(t)
  PROVE  Implemented
  <1>1. Moves(t) /\ pc[t] = "idle" /\ ~Rename(t) /\ ~Unlink(t)
    BY DEF Moves, Call, Rename, Unlink, At
  <1>2. PICK q \in Requests :
          /\ req' = [req EXCEPT ![t] = q]
          /\ \/ /\ Goto(t, IF q.op = "get" THEN "openDirectory" ELSE "lock")
                /\ UNCHANGED frame
             \/ Finish(t, "rejected")
    BY DEF Call
  <1>3. Phase(t) = "idle" /\ Answer(t) = None
    BY <1>1 DEF Phase, PhaseAt, Answer, AnswerAt
  <1>4. Phase(t)' \in {"called", "failed"} /\ Answer(t)' = None
    <2>1. CASE Finish(t, "rejected")
      <3>1. pc'[t] = "return" /\ frame'[t].res = "rejected"
        BY <2>1, FinishSeen
      <3> QED BY <3>1 DEF Phase, PhaseAt, Answer, AnswerAt, Errors
    <2>2. CASE Goto(t, IF q.op = "get" THEN "openDirectory" ELSE "lock")
      <3>1. pc'[t] \in {"openDirectory", "lock"}
        BY <2>2 DEF Goto, IInv, TypeOK
      <3> QED BY <3>1 DEF Phase, PhaseAt, Answer, AnswerAt
    <2> QED BY <1>2, <2>1, <2>2
  <1>5. AnswerOf' = AnswerOf
    BY <1>1, <1>3, <1>4, SeenOfStep, MappedPhase
  <1>6. StoreOf' = StoreOf
    BY <1>1, MapStays
  <1>7. Contract!Call(t)
    BY <1>1, <1>2, <1>3, <1>4, <1>5, <1>6, SeenOfStep, ContractFacts DEF Contract!Call
  <1> QED BY <1>7 DEF Implemented, Contract!Next

\* An operation finds its key missing.
LEMMA MissingSound ==
  ASSUME IInv, NEW t \in Threads, Moves(t), StoreOf' = StoreOf, req' = req,
         req[t] \in Requests, Op(t) # "set", dir[Key(t)] = None, Phase(t) = "called",
         Finish(t, "notfound")
  PROVE  Implemented
  <1>1. /\ Key(t) \in Keys /\ StoreOf[Key(t)] = None
        /\ Op(t) # "get" => Op(t) = "delete" /\ req[t].val = None
    BY RequestKey, MapFacts DEF Requests, Op
  <1>2. Phase(t)' = "applied" /\ Answer(t)' = "notfound"
    BY FinishSeen DEF Phase, PhaseAt, Answer, AnswerAt, Errors
  <1>3. StoreOf' = IF Op(t) = "get" THEN StoreOf ELSE [StoreOf EXCEPT ![Key(t)] = req[t].val]
    <2>1. StoreOf = [k \in Keys |-> StoreOf[k]]
      BY DEF StoreOf
    <2> QED BY <1>1, <2>1
  <1>4. StoreOf[Key(t)] # Blocked
    BY <1>1, BlockedAssumption
  <1>5. Contract!Take(t)
    BY <1>1, <1>2, <1>3, <1>4, SeenOfStep DEF Contract!Take, Op, Key
  <1> QED BY <1>5 DEF Implemented, Contract!Next

\* Get takes effect when it opens the credential.
LEMMA OpenCredentialSound ==
  ASSUME IInv, NEW t \in Threads, OpenCredential(t)
  PROVE  Implemented
  <1> DEFINE f == dir[Key(t)]
  <1>1. Moves(t) /\ ~Rename(t) /\ ~Unlink(t) /\ req' = req /\ pc[t] = "openCredential"
        /\ UNCHANGED disk
    BY DEF Moves, Step, OpenCredential, Fail, Rename, Unlink, At
  <1>2. StoreOf' = StoreOf
    BY <1>1, MapStays
  <1>3. req[t] \in Requests /\ Op(t) \in {"get", "delete"} /\ Key(t) \in Keys
    <2>1. req[t] \in Requests /\ Op(t) # "set"
      BY <1>1 DEF IInv, ThreadInv, Control, At
    <2> QED BY <2>1, RequestKey DEF Requests, Op
  <1>4. Phase(t) = "called" /\ Answer(t) = None
    BY <1>1, UndecidedSeen DEF Undecided, Labels
  <1>5. CASE f = None /\ Finish(t, MissingResult(t))
    <2>1. MissingResult(t) = "notfound"
      BY <1>3 DEF MissingResult
    <2> QED BY <1>1, <1>2, <1>3, <1>4, <1>5, <2>1, MissingSound
  <1>6. CASE Finish(t, "insecure") \/ Fail(t)
    <2>1. Phase(t)' = "failed"
      BY <1>6, FinishSeen, FailSeen DEF Errors
    <2> QED BY <1>1, <1>2, <1>4, <2>1, Reported
  <1>7. CASE /\ f # None /\ Trusted(f)
             /\ Goto(t, IF Op(t) = "get" THEN "read" ELSE "unlink")
             /\ frame' = [frame EXCEPT ![t].fd = IF Op(t) = "get" THEN f ELSE None]
    <2>1. CASE Op(t) = "get"
      <3>1. pc'[t] = "read" /\ frame'[t].fd = f
        BY <1>7, <2>1 DEF Goto, IInv, TypeOK, Frames
      <3>2. Phase(t)' = "applied" /\ Answer(t)' = ValueIn(inode[f].data)
        BY <1>1, <3>1 DEF Phase, PhaseAt, Answer, AnswerAt, disk
      <3>3. /\ StoreOf[Key(t)] = ValueIn(inode[f].data)
            /\ StoreOf[Key(t)] # None /\ StoreOf[Key(t)] # Blocked
        BY <1>3, <1>7, MapFacts, BlockedAssumption, KeyringerAssumption
      <3>4. Contract!Take(t)
        BY <1>1, <1>2, <1>4, <2>1, <3>2, <3>3, SeenOfStep DEF Contract!Take, Op, Key
      <3> QED BY <3>4 DEF Implemented, Contract!Next
    <2>2. CASE Op(t) # "get"
      <3>1. pc'[t] = "unlink"
        BY <1>7, <2>2 DEF Goto, IInv, TypeOK
      <3> QED BY <1>1, <1>2, <1>4, <3>1, UndecidedSeen, Unseen DEF Undecided, Labels
    <2> QED BY <2>1, <2>2
  <1> QED BY <1>5, <1>6, <1>7 DEF OpenCredential

\* What Get has read at the end of the file is what the file held when it was opened.
LEMMA ReadSound ==
  ASSUME IInv, NEW t \in Threads, Read(t)
  PROVE  Implemented
  <1> DEFINE f == frame[t].fd
             i == frame[t].pos + 1
  <1>1. Moves(t) /\ ~Rename(t) /\ ~Unlink(t) /\ req' = req /\ pc[t] = "read"
        /\ UNCHANGED disk /\ Op(t) = "get"
    BY DEF Moves, Step, Read, Fail, Rename, Unlink, At, IInv, ThreadInv, Control
  <1>2. StoreOf' = StoreOf
    BY <1>1, MapStays
  <1>3. PICK v \in Values : /\ inode[f].data = Bytes(v)
                            /\ frame[t].buf = Leading(v, frame[t].pos)
    BY <1>1 DEF IInv, ThreadInv, Reading, At
  <1>4. Phase(t) = "applied" /\ Answer(t) = ValueIn(inode[f].data)
    BY <1>1 DEF Phase, PhaseAt, Answer, AnswerAt
  <1>5. CASE Fail(t)
    BY <1>1, <1>2, <1>4, <1>5, FailSeen, Reported
  <1>6. CASE /\ frame' = [frame EXCEPT ![t].buf[i] = inode[f].data[i], ![t].pos = i]
             /\ UNCHANGED pc
    <2>1. pc'[t] = "read" /\ frame'[t].fd = f
      BY <1>1, <1>6 DEF IInv, TypeOK, Frames
    <2>2. Phase(t)' = Phase(t) /\ Answer(t)' = Answer(t)
      BY <1>1, <1>4, <2>1 DEF Phase, PhaseAt, Answer, AnswerAt, disk
    <2> QED BY <1>1, <1>2, <2>2, Unseen
  <1>7. CASE EndOfFile(f, frame[t].pos) /\ Finish(t, "ok")
    <2>1. frame[t].buf = Bytes(v)
      <3>1. frame[t].pos \in 0 .. MaxLen
        BY DEF IInv, TypeOK, Frames
      <3>2. \A j \in 1 .. MaxLen : j > frame[t].pos => Bytes(v)[j] = None
        BY <1>3, <1>7, <3>1, FsAssumption DEF EndOfFile
      <3> QED BY <1>3, <3>1, <3>2 DEF Leading, Bytes
    <2>2. pc'[t] = "return" /\ frame'[t].res = "ok" /\ frame'[t].buf = Bytes(v)
      BY <1>7, <2>1, FinishSeen
    <2>3. Phase(t)' = "applied" /\ Answer(t)' = ValueIn(Bytes(v))
      BY <1>1, <2>2 DEF Phase, PhaseAt, Answer, AnswerAt, Errors, Op
    <2> QED BY <1>1, <1>2, <1>3, <1>4, <2>3, Unseen
  <1> QED BY <1>5, <1>6, <1>7 DEF Read

\* Delete takes effect at the unlink.
LEMMA UnlinkSound ==
  ASSUME IInv, NEW t \in Threads, Unlink(t)
  PROVE  Implemented
  <1> DEFINE k == Key(t)
  <1>1. Moves(t) /\ req' = req /\ pc[t] = "unlink" /\ ~Rename(t)
    BY DEF Moves, Step, Unlink, Rename, At
  <1>2. req[t] \in Requests /\ Op(t) = "delete" /\ k \in Keys /\ k \in Names
        /\ req[t].val = None
    <2>1. req[t] \in Requests /\ Op(t) = "delete"
      BY <1>1 DEF IInv, ThreadInv, Control, At
    <2> QED BY <2>1, RequestKey DEF Requests, Op
  <1>3. Phase(t) = "called" /\ Answer(t) = None
    BY <1>1, UndecidedSeen DEF Undecided, Labels
  <1>4. CASE dir' = dir
    <2>1. \A x \in Keys : StoreOf'[x] = StoreOf[x]
      BY <1>1, <1>4, SeenOfStep
    <2>2. StoreOf' = StoreOf
      <3>1. StoreOf = [x \in Keys |-> StoreOf[x]] /\ StoreOf' = [x \in Keys |-> StoreOf'[x]]
        BY DEF StoreOf
      <3> QED BY <2>1, <3>1
    <2>3. CASE Fail(t)
      BY <1>1, <1>3, <2>2, <2>3, FailSeen, Reported
    <2>4. CASE dir[k] = None /\ Finish(t, MissingResult(t))
      <3>1. MissingResult(t) = "notfound"
        BY <1>2 DEF MissingResult
      <3> QED BY <1>1, <1>2, <1>3, <2>2, <2>4, <3>1, MissingSound
    <2>5. CASE dir[k] # None /\ Bind(k, None)
      BY <1>2, <1>4, <2>5 DEF Bind, IInv, TypeOK
    <2> QED BY <2>3, <2>4, <2>5 DEF Unlink
  <1>5. CASE dir' # dir
    <2>1. dir[k] # None /\ dir' = [dir EXCEPT ![k] = None] /\ pc' = [pc EXCEPT ![t] = "fsyncDir"]
      BY <1>5 DEF Unlink, Fail, Bind, Goto, disk
    <2>2. Phase(t)' = "applied" /\ Answer(t)' = "ok"
      <3>1. pc'[t] = "fsyncDir"
        BY <2>1 DEF IInv, TypeOK
      <3> QED BY <3>1 DEF Phase, PhaseAt, Answer, AnswerAt
    <2>3. StoreOf' = [StoreOf EXCEPT ![k] = None]
      <3>1. dir'[k] = None /\ \A x \in Keys \ {k} : dir'[x] = dir[x]
        BY <1>2, <2>1 DEF IInv, TypeOK, Names
      <3>2. StoreOf'[k] = None
        BY <1>2, <3>1 DEF StoreOf
      <3>3. \A x \in Keys \ {k} : StoreOf'[x] = StoreOf[x]
        BY <1>1, <3>1, SeenOfStep
      <3>4. StoreOf = [x \in Keys |-> StoreOf[x]] /\ StoreOf' = [x \in Keys |-> StoreOf'[x]]
        BY DEF StoreOf
      <3> QED BY <3>2, <3>3, <3>4
    <2>4. StoreOf[k] # Blocked /\ StoreOf[k] # None
      <3>1. dir[k] \in maybe[k] /\ Trusted(dir[k])
        BY <1>1, <1>2, <2>1, MapFacts DEF IInv, ThreadInv, Cautious
      <3> QED BY <1>2, <2>1, <3>1, MapFacts, BlockedAssumption, KeyringerAssumption
    <2>5. Contract!Take(t)
      BY <1>1, <1>2, <1>3, <2>2, <2>3, <2>4, SeenOfStep DEF Contract!Take, Op, Key
    <2> QED BY <2>5 DEF Implemented, Contract!Next
  <1> QED BY <1>4, <1>5

LEMMA FsyncDirSound ==
  ASSUME IInv, NEW t \in Threads, FsyncDir(t)
  PROVE  Implemented
  <1>1. Moves(t) /\ ~Rename(t) /\ ~Unlink(t) /\ req' = req /\ pc[t] = "fsyncDir" /\ Op(t) # "get"
    BY DEF Moves, Step, FsyncDir, Rename, Unlink, At, IInv, ThreadInv, Control
  <1>2. StoreOf' = StoreOf
    BY <1>1, MapStays
  <1>3. Phase(t) = "applied" /\ Answer(t) = "ok"
    BY <1>1 DEF Phase, PhaseAt, Answer, AnswerAt
  <1>4. CASE Fail(t)
    BY <1>1, <1>2, <1>3, <1>4, FailSeen, Reported
  <1>5. CASE Finish(t, "ok")
    <2>1. pc'[t] = "return" /\ frame'[t].res = "ok"
      BY <1>5, FinishSeen
    <2>2. Phase(t)' = "applied" /\ Answer(t)' = "ok"
      BY <1>1, <2>1 DEF Phase, PhaseAt, Answer, AnswerAt, Errors, Op
    <2> QED BY <1>1, <1>2, <1>3, <2>2, Unseen
  <1> QED BY <1>4, <1>5 DEF FsyncDir

\* Set takes effect at the rename.
LEMMA RenameSound ==
  ASSUME IInv, NEW t \in Threads, Rename(t)
  PROVE  Implemented
  <1> DEFINE k == Key(t)
             n == frame[t].tmp
             f == dir[n]
  <1>1. Moves(t) /\ req' = req /\ pc[t] = "rename"
    BY DEF Moves, Step, Rename, At
  <1>2. req[t] \in Requests /\ Op(t) = "set" /\ k \in Keys /\ k \in Names
        /\ req[t].val \in Values
    <2>1. req[t] \in Requests /\ Op(t) = "set"
      BY <1>1 DEF IInv, ThreadInv, Control, At, SetLabels
    <2> QED BY <2>1, RequestKey DEF Requests, Op
  <1>3. Phase(t) = "called" /\ Answer(t) = None
    BY <1>1, UndecidedSeen DEF Undecided, Labels
  <1>4. /\ n \in Temps /\ n \in Names /\ f \in Files /\ f # None
        /\ inode[f].data = Bytes(req[t].val) /\ inode[f].kind = "private"
    BY <1>1, NamesAssumption DEF IInv, ThreadInv, Owned, Progress, Staging, Staged, At, Names
  <1>5. CASE Abort(t)
    <2>1. \A x \in Keys : StoreOf'[x] = StoreOf[x]
      BY <1>1, <1>5, SeenOfStep DEF Abort, disk
    <2>2. StoreOf' = StoreOf
      <3>1. StoreOf = [x \in Keys |-> StoreOf[x]] /\ StoreOf' = [x \in Keys |-> StoreOf'[x]]
        BY DEF StoreOf
      <3> QED BY <2>1, <3>1
    <2>3. Staging(t)
      BY <1>1 DEF Staging
    <2> QED BY <1>1, <1>3, <1>5, <2>2, <2>3, FailSeen, Reported
  <1>6. CASE ~Abort(t)
    <2>1. /\ dir' = [dir EXCEPT ![k] = f, ![n] = None] /\ inode' = inode
          /\ pc' = [pc EXCEPT ![t] = "fsyncDir"]
      BY <1>6 DEF Rename, Goto
    <2>2. Phase(t)' = "applied" /\ Answer(t)' = "ok"
      <3>1. pc'[t] = "fsyncDir"
        BY <2>1 DEF IInv, TypeOK
      <3> QED BY <3>1 DEF Phase, PhaseAt, Answer, AnswerAt
    <2>3. StoreOf' = [StoreOf EXCEPT ![k] = req[t].val]
      <3>1. dir'[k] = f /\ \A x \in Keys \ {k} : dir'[x] = dir[x]
        BY <1>2, <1>4, <2>1, NamesAssumption DEF IInv, TypeOK, Names
      <3>2. StoreOf'[k] = ValueIn(Bytes(req[t].val))
        BY <1>2, <1>4, <2>1, <3>1 DEF StoreOf, Trusted
      <3>3. \A x \in Keys \ {k} : StoreOf'[x] = StoreOf[x]
        BY <1>1, <3>1, SeenOfStep
      <3>4. StoreOf = [x \in Keys |-> StoreOf[x]] /\ StoreOf' = [x \in Keys |-> StoreOf'[x]]
        BY DEF StoreOf
      <3> QED BY <1>2, <3>2, <3>3, <3>4, ValueOfBytes
    <2>4. StoreOf[k] # Blocked
      <3>1. dir[k] # None => Trusted(dir[k])
        BY <1>1, <1>2, MapFacts DEF IInv, ThreadInv, Cautious, Staging
      <3> QED BY <1>2, <3>1, MapFacts, BlockedAssumption
    <2>5. Contract!Take(t)
      BY <1>1, <1>2, <1>3, <2>2, <2>3, <2>4, SeenOfStep DEF Contract!Take, Op, Key
    <2> QED BY <2>5 DEF Implemented, Contract!Next
  <1> QED BY <1>5, <1>6

LEMMA CleanupSound ==
  ASSUME IInv, NEW t \in Threads, Cleanup(t)
  PROVE  Implemented
  <1>1. Moves(t) /\ ~Rename(t) /\ ~Unlink(t) /\ req' = req /\ pc[t] = "cleanup"
        /\ frame[t].res = "failure" /\ Finish(t, frame[t].res)
    BY DEF Moves, Step, Cleanup, Rename, Unlink, At, IInv, ThreadInv, Control
  <1>2. StoreOf' = StoreOf
    BY <1>1, MapStays
  <1>3. Phase(t) = "failed" /\ Answer(t) = None
    BY <1>1 DEF Phase, PhaseAt, Answer, AnswerAt
  <1>4. Phase(t)' = "failed" /\ Answer(t)' = None
    <2>1. pc'[t] = "return" /\ frame'[t].res = "failure"
      BY <1>1, FinishSeen
    <2> QED BY <2>1 DEF Phase, PhaseAt, Answer, AnswerAt, Errors
  <1> QED BY <1>1, <1>2, <1>3, <1>4, Unseen

LEMMA ReturnSound ==
  ASSUME IInv, NEW t \in Threads, Return(t)
  PROVE  Implemented
  <1>1. Moves(t) /\ ~Rename(t) /\ ~Unlink(t) /\ pc[t] = "return"
        /\ req' = [req EXCEPT ![t] = NoRequest]
    BY DEF Moves, Step, Return, Rename, Unlink, At
  <1>2. StoreOf' = StoreOf
    BY <1>1, MapStays
  <1>3. Phase(t) \in {"applied", "failed"}
    BY <1>1 DEF Phase, PhaseAt
  <1>4. Phase(t)' = "idle" /\ Answer(t)' = None
    <2>1. pc'[t] = "idle"
      BY DEF Return, Goto, IInv, TypeOK
    <2> QED BY <2>1 DEF Phase, PhaseAt, Answer, AnswerAt
  <1>5. Contract!Return(t)
    BY <1>1, <1>2, <1>3, <1>4, SeenOfStep, ContractFacts DEF Contract!Return
  <1> QED BY <1>5 DEF Implemented, Contract!Next

-----------------------------------------------------------------------------
(* The refinement.                                                           *)

\* The operations of a process end with it, where they stand.
LEMMA CrashSound ==
  ASSUME IInv, NEW p \in Procs, Crash(p)
  PROVE  Implemented
  <1> DEFINE dead == {t \in Threads : Proc(t) = p}
  <1>1. UNCHANGED disk /\ Ended(dead)
    BY DEF Crash
  <1>2. StoreOf' = StoreOf
    BY <1>1 DEF StoreOf, Trusted, disk
  <1>3. ASSUME NEW t \in Threads
        PROVE  /\ t \in dead => Phase(t)' = "idle" /\ Answer(t)' = None
               /\ t \notin dead => Phase(t)' = Phase(t) /\ Answer(t)' = Answer(t)
    BY <1>1 DEF Ended, Phase, PhaseAt, Answer, AnswerAt, Op, disk
  <1>4. dead \in SUBSET Threads
    OBVIOUS
  <1>5. req' = [t \in Threads |-> IF t \in dead THEN NoRequest ELSE req[t]]
    BY <1>1 DEF Ended
  <1> HIDE DEF dead
  <1>6. Contract!Die(dead)
    BY <1>2, <1>3, <1>5, MappedPhase, MappedNext, ContractFacts DEF Contract!Die
  <1> QED BY <1>4, <1>6 DEF Implemented, Contract!Next

LEMMA OutsideSound ==
  ASSUME UNCHANGED <<dir, inode, pc, req, frame>>
  PROVE  Implemented
  <1>1. StoreOf' = StoreOf
    BY DEF StoreOf, Trusted
  <1>2. \A t \in Threads : Phase(t)' = Phase(t) /\ Answer(t)' = Answer(t)
    BY DEF Phase, PhaseAt, Answer, AnswerAt, Op
  <1> QED BY <1>1, <1>2, MappedPhase, MappedNext DEF Implemented, Contract!contractVars

LEMMA NextSound ==
  ASSUME ~PowerFails
  PROVE  IInv /\ [Next]_vars => Implemented
  <1> SUFFICES ASSUME IInv, [Next]_vars PROVE Implemented
    OBVIOUS
  <1>1. ASSUME NEW t \in Threads, Call(t) \/ Lock(t) \/ Step(t) PROVE Implemented
    BY <1>1, CallSound, UndecidedSound, OpenCredentialSound, ReadSound, UnlinkSound, FsyncDirSound,
       RenameSound, CleanupSound, ReturnSound DEF Step
  <1>2. ASSUME NEW p \in Procs, Open(p) \/ MakeDirectory(p) PROVE Implemented
    BY <1>2, OutsideSound DEF Open, MakeDirectory, disk
  <1>3. CASE FlushParents \/ UNCHANGED vars
    BY <1>3, OutsideSound DEF FlushParents, vars, disk
  <1> QED BY <1>1, <1>2, <1>3, CrashSound DEF Next, PowerLoss

\* While the machine keeps its power, every behaviour of the filesystem backend is
\* one of a linearizable map, whatever system calls fail and processes die, with
\* any number of processes, goroutines, keys and inodes: Get takes effect when it
\* opens the credential, Set at the rename, Delete at the unlink (keyring.go,
\* storage_linux.go).
THEOREM Implementation ==
  ASSUME ~PowerFails
  PROVE  Spec => ImplementsContract
  <1>1. Init => Contract!Init
    <2> SUFFICES ASSUME Init PROVE Contract!Init
      OBVIOUS
    <2>1. IInv
      BY InitInv
    <2>2. StoreOf \in [Keys -> Values \cup {None, Blocked}]
      <3>1. StoreOf = [k \in Keys |-> StoreOf[k]]
        BY DEF StoreOf
      <3> QED BY <2>1, <3>1, MapFacts
    <2>3. PhaseOf = [t \in Threads |-> "idle"] /\ AnswerOf = [t \in Threads |-> None]
      <3>1. \A t \in Threads : Phase(t) = "idle" /\ Answer(t) = None
        BY DEF Init, Phase, PhaseAt, Answer, AnswerAt
      <3> QED BY <3>1, MappedPhase
    <2>4. req = [t \in Threads |-> Contract!NoRequest]
      BY ContractFacts DEF Init
    <2> QED BY <2>2, <2>3, <2>4 DEF Contract!Init
  <1>2. IInv /\ [Next]_vars => [Contract!Next]_(Contract!contractVars)
    BY NextSound DEF Implemented
  <1> QED BY <1>1, <1>2, Invariance, PTL DEF Spec, ImplementsContract, Contract!ContractSpec
=============================================================================
