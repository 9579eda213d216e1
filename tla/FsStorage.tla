----------------------------- MODULE FsStorage -----------------------------
(***************************************************************************)
(* The filesystem backend (internal/backend/fs): goroutines of one or more *)
(* processes, each process holding one open Keyring, run Get, Set and      *)
(* Delete on the credential files of one service directory.  Every system  *)
(* call of an operation is a step of its own, so the steps of different    *)
(* goroutines, process crashes and power losses fall between any two.      *)
(*                                                                         *)
(* The file system is external: a directory that names inodes, whose       *)
(* changes reach the disk only at fsync (`maybe' holds what each name may  *)
(* denote after a power loss), and inodes whose contents do the same.      *)
(***************************************************************************)
EXTENDS Keyringer, Naturals

CONSTANTS
    Procs,          \* processes, each with its own Keyring and lock table
    ProcOf,         \* the process of each goroutine
    Stripes,        \* the mutexes of a lock table (mutationLockCount)
    StripeOf,       \* the mutex that guards a key
    SizeOf,         \* number of chunks of each value; an empty value has none
    MaxLen,         \* the most chunks a file can hold
    Temps,          \* names createTemporary can draw
    Files,          \* inodes of the file system
    MaxAttempts,    \* temporaryCreateAttempts
    Faults,         \* system calls that may fail with an I/O error
    Crashes,        \* whether a process may die at any step
    PowerFails      \* whether the machine may lose power at any step

Syscalls == {"mkdir", "openDirectory", "open", "read", "create", "fchmod",
             "write", "fsync", "close", "rename", "unlink", "fsyncDir",
             "cleanup"}

ASSUME FsAssumption ==
    /\ ProcOf \in [Threads -> Procs]
    /\ StripeOf \in [Keys -> Stripes]
    /\ MaxLen \in Nat
    /\ SizeOf \in [Values -> 0 .. MaxLen]
    /\ \A v, w \in Values : SizeOf[v] = 0 /\ SizeOf[w] = 0 => v = w
    /\ MaxAttempts \in Nat \ {0}
    /\ Faults \subseteq Syscalls
    /\ Crashes \in BOOLEAN /\ PowerFails \in BOOLEAN

\* Credential names are hex digests, temporary names start with ".tmp-".
ASSUME NamesAssumption ==
    /\ Keys \cap Temps = {}
    /\ None \notin Temps \cup Files

VARIABLES
    proc,       \* per process: "down", "mkdir" (in prepareDirectories), "up"
    service,    \* the service directory: "missing", "volatile", "durable"
    dir,        \* the directory: the inode each name denotes, or None
    maybe,      \* per name, what a power loss may leave it denoting
    inode,      \* per inode: contents, whether they are on disk, and kind
    lock,       \* per process and stripe: the goroutine that holds the mutex
    pc,         \* the next step of each goroutine
    req,        \* the call each goroutine is serving
    frame       \* the local variables of that call

vars == <<proc, service, dir, maybe, inode, lock, pc, req, frame>>
disk == <<dir, maybe, inode>>
machine == <<proc, service, lock>>

Names == Keys \cup Temps
Kinds == {"private", "masked", "insecure"}
    \* "private": a regular file of the effective user with mode 0600;
    \* "masked": the same with fewer bits, as the umask left it at creation;
    \* "insecure": anything validateCredential rejects

\* The contents of a file that holds exactly v: chunk i of v at position i.
Bytes(v) == [i \in 1 .. MaxLen |-> IF i <= SizeOf[v] THEN v ELSE None]
Blank == [i \in 1 .. MaxLen |-> None]
Contents == [1 .. MaxLen -> Values \cup {None}]

Labels == {"idle", "lock", "openDirectory", "openCredential", "read", "unlink",
           "validateExisting", "createTemporary", "fchmod", "writeAll",
           "fsync", "close", "rename", "fsyncDir", "cleanup", "return"}

Results == {"none", "ok", "notfound", "insecure", "failure", "rejected"}
Errors == {"insecure", "failure", "rejected"}

\* The local variables of a call that holds no file: what it has read, what its
\* mutation superseded and its result.
FrameWith(buf, before, res) ==
    [fd |-> None,           \* open descriptor, as the inode it denotes
     tmp |-> None,          \* temporary name
     pos |-> 0,             \* chunks read or written so far
     tries |-> 0,           \* temporary names drawn so far
     buf |-> buf,           \* what Get has read
     before |-> before,     \* what the mutation superseded (auxiliary)
     res |-> res]           \* the result

NewFrame == FrameWith(Blank, {}, "none")

Frames == [fd : Files \cup {None}, tmp : Temps \cup {None}, pos : 0 .. MaxLen,
           tries : 0 .. MaxAttempts - 1, before : SUBSET (Files \cup {None}),
           buf : Contents, res : Results]

TypeOK ==
    /\ proc \in [Procs -> {"down", "mkdir", "up"}]
    /\ service \in {"missing", "volatile", "durable"}
    /\ dir \in [Names -> Files \cup {None}]
    /\ maybe \in [Names -> SUBSET (Files \cup {None})]
    /\ inode \in [Files -> [data : Contents, synced : BOOLEAN, kind : Kinds]]
    /\ lock \in [Procs -> [Stripes -> Threads \cup {None}]]
    /\ pc \in [Threads -> Labels]
    /\ req \in [Threads -> Requests \cup {NoRequest}]
    /\ frame \in [Threads -> Frames]

-----------------------------------------------------------------------------
(* Starting: no process runs.  The service directory is missing, or holds    *)
(* for each key nothing, a credential written earlier, or an object that     *)
(* something else put there.                                                 *)

FreshInode(data, kind) == [data |-> data, synced |-> TRUE, kind |-> kind]

Distinct(d) == \A m, n \in DOMAIN d : d[m] = d[n] /\ d[m] # None => m = n

Init ==
    /\ proc = [p \in Procs |-> "down"]
    /\ service \in {"missing", "durable"}
    /\ \E d \in [Keys -> Files \cup {None}], v \in [Keys -> Values],
          k \in [Keys -> {"private", "insecure"}] :
          /\ Distinct(d)
          /\ service = "missing" => \A x \in Keys : d[x] = None
          /\ dir = [n \in Names |-> IF n \in Keys THEN d[n] ELSE None]
          /\ inode = [f \in Files |->
                IF \E x \in Keys : d[x] = f
                THEN LET x == CHOOSE y \in Keys : d[y] = f
                     IN  FreshInode(Bytes(v[x]), k[x])
                ELSE FreshInode(Blank, "private")]
    /\ maybe = [n \in Names |-> {dir[n]}]
    /\ lock = [p \in Procs |-> [s \in Stripes |-> None]]
    /\ pc = [t \in Threads |-> "idle"]
    /\ req = [t \in Threads |-> NoRequest]
    /\ frame = [t \in Threads |-> NewFrame]

-----------------------------------------------------------------------------
(* Control.                                                                  *)

Op(t) == req[t].op
Key(t) == req[t].key
Proc(t) == ProcOf[t]
Stripe(t) == StripeOf[Key(t)]

At(t, label) == pc[t] = label
Goto(t, label) == pc' = [pc EXCEPT ![t] = label]

\* The operation has its result: descriptors are closed, and only what the
\* caller or a property looks at is kept.
Finish(t, result) ==
    /\ Goto(t, "return")
    /\ frame' = [frame EXCEPT ![t] = FrameWith(@.buf, @.before, result)]

\* A system call can fail with an I/O error, before it changes anything.
CanFail(syscall) == syscall \in Faults

\* operationError reports an error it does not recognise as ErrBackendFailure.
Fail(t) ==
    /\ Goto(t, "return")
    /\ frame' = [frame EXCEPT ![t] = FrameWith(Blank, {}, "failure")]
    /\ UNCHANGED disk

\* Mutant: Delete of a file that is already gone succeeds.
LenientDelete(t) == IF Op(t) = "delete" THEN "ok" ELSE "notfound"

\* operationError maps ENOENT to ErrNotFound for Get and Delete.
MissingResult(t) == IF Op(t) \in {"get", "delete"} THEN "notfound" ELSE "failure"

\* The same after createTemporary: writeAtomic's deferred function runs first.
Abort(t) ==
    /\ Goto(t, "cleanup")
    /\ frame' = [frame EXCEPT ![t].res = "failure"]
    /\ UNCHANGED disk

-----------------------------------------------------------------------------
(* The file system.                                                          *)

\* What a name may denote after a power loss, once it denotes f: until the
\* directory is synced, also what it may have denoted before.  (If the power
\* never fails the difference does not matter, and is not kept.)
Pending(n, f) == IF PowerFails THEN maybe[n] \cup {f} ELSE {f}

Bind(n, f) ==
    /\ dir' = [dir EXCEPT ![n] = f]
    /\ maybe' = [maybe EXCEPT ![n] = Pending(n, f)]

\* fsync of the directory: what it says now is what the disk says.
Settled == [n \in Names |-> {dir[n]}]

\* Nothing names the inode and none of these goroutines has it open.
Unused(f, goroutines) ==
    /\ \A n \in Names : f \notin maybe[n]
    /\ \A t \in goroutines : f \notin {frame[t].fd} \cup frame[t].before

\* The file system reclaims what is unused once t is done.
Reclaimed(t) ==
    [f \in Files |-> IF Unused(f, Threads \ {t}) THEN FreshInode(Blank, "private")
                                                ELSE inode[f]]

\* What validateCredential accepts.
Trusted(f) == inode[f].kind # "insecure"

\* No chunk of f lies beyond position i.
EndOfFile(f, i) == \A j \in i + 1 .. MaxLen : inode[f].data[j] = None

-----------------------------------------------------------------------------
(* Opening a Keyring: prepareDirectories looks for the service directory and *)
(* creates it when it is missing, unless another process did so first.       *)

Open(p) ==
    /\ proc[p] = "down"
    /\ proc' = [proc EXCEPT ![p] = IF service = "missing" THEN "mkdir" ELSE "up"]
    /\ UNCHANGED <<service, disk, lock, pc, req, frame>>

\* Mutant: EEXIST from mkdir fails the Open instead of being tolerated.
StrictMkdir(p) ==
    /\ proc[p] = "mkdir"
    /\ service' = IF service = "missing" THEN "volatile" ELSE service
    /\ proc' = [proc EXCEPT ![p] = IF service = "missing" THEN "up" ELSE "down"]
    /\ UNCHANGED <<disk, lock, pc, req, frame>>

MakeDirectory(p) ==
    /\ proc[p] = "mkdir"
    /\ \/ /\ service' = IF service = "missing" THEN "volatile" ELSE service
          /\ proc' = [proc EXCEPT ![p] = "up"]
       \/ /\ CanFail("mkdir")
          /\ proc' = [proc EXCEPT ![p] = "down"]
          /\ UNCHANGED service
    /\ UNCHANGED <<disk, lock, pc, req, frame>>

-----------------------------------------------------------------------------
(* The methods of Keyring: argument check, mutation lock, deferred unlock.   *)

Call(t) ==
    /\ At(t, "idle") /\ proc[Proc(t)] = "up"
    /\ \E q \in Requests :
          /\ req' = [req EXCEPT ![t] = q]
          /\ \/ /\ Goto(t, IF q.op = "get" THEN "openDirectory" ELSE "lock")
                /\ UNCHANGED frame
             \/ Finish(t, "rejected")       \* validateOperation
    /\ UNCHANGED <<machine, disk>>

\* Mutant: the mutex is taken without waiting for its holder.
NoWait(t) == TRUE

LockFree(t) == lock[Proc(t)][Stripe(t)] = None

Lock(t) ==
    /\ At(t, "lock")
    /\ LockFree(t)
    /\ lock' = [lock EXCEPT ![Proc(t)][Stripe(t)] = t]
    /\ Goto(t, "openDirectory")
    /\ UNCHANGED <<proc, service, disk, req, frame>>

\* Mutant: an operation that fails returns without unlocking.
UnlockOnSuccess(t) ==
    [p \in Procs |-> [s \in Stripes |->
        IF lock[p][s] = t /\ frame[t].res \notin Errors THEN None ELSE lock[p][s]]]

Unlocked(t) ==
    [p \in Procs |-> [s \in Stripes |-> IF lock[p][s] = t THEN None ELSE lock[p][s]]]

Return(t) ==
    /\ At(t, "return")
    /\ lock' = Unlocked(t)
    /\ Goto(t, "idle")
    /\ req' = [req EXCEPT ![t] = NoRequest]
    /\ frame' = [frame EXCEPT ![t] = NewFrame]
    /\ inode' = Reclaimed(t)
    /\ UNCHANGED <<proc, service, dir, maybe>>

-----------------------------------------------------------------------------
(* get, set and delete up to the point where they differ.  The directories   *)
(* exist since Open: prepareDirectories finds them and creates nothing.      *)

OpenServiceDirectory(t) ==
    /\ At(t, "openDirectory")
    /\ \/ /\ Goto(t, IF Op(t) = "set" THEN "validateExisting" ELSE "openCredential")
          /\ UNCHANGED <<disk, frame>>
       \/ CanFail("openDirectory") /\ Fail(t)
    /\ UNCHANGED <<machine, req>>

\* get keeps the descriptor and reads; delete closes it and goes on by name.
OpenCredential(t) ==
    LET f == dir[Key(t)] IN
    /\ At(t, "openCredential")
    /\ \/ f = None /\ Finish(t, MissingResult(t)) /\ UNCHANGED disk
       \/ f # None /\ ~Trusted(f) /\ Finish(t, "insecure") /\ UNCHANGED disk
       \/ /\ f # None /\ Trusted(f)
          /\ Goto(t, IF Op(t) = "get" THEN "read" ELSE "unlink")
          /\ frame' = [frame EXCEPT ![t].fd = IF Op(t) = "get" THEN f ELSE None]
          /\ UNCHANGED disk
       \/ (CanFail("open") \/ CanFail("close")) /\ Fail(t)
    /\ UNCHANGED <<machine, req>>

\* io.ReadAll over descriptorReader, one chunk at a time, and the close.
Read(t) ==
    LET f == frame[t].fd
        i == frame[t].pos + 1
    IN
    /\ At(t, "read")
    /\ \/ /\ ~EndOfFile(f, frame[t].pos)
          /\ frame' = [frame EXCEPT ![t].buf[i] = inode[f].data[i], ![t].pos = i]
          /\ UNCHANGED <<disk, pc>>
       \/ /\ EndOfFile(f, frame[t].pos)
          /\ Finish(t, "ok")
          /\ UNCHANGED disk
       \/ (CanFail("read") \/ CanFail("close")) /\ Fail(t)
    /\ UNCHANGED <<machine, req>>

-----------------------------------------------------------------------------
(* delete, after openCredential.  From now on the key is absent by this      *)
(* Delete, and no longer because an earlier Set was undone.                  *)

Unlink(t) ==
    LET k == Key(t) IN
    /\ At(t, "unlink")
    /\ \/ /\ dir[k] # None
          /\ Bind(k, None)
          /\ Goto(t, "fsyncDir")
          /\ frame' = [u \in Threads |->
                          [frame[u] EXCEPT !.before =
                             IF u = t THEN maybe[k] \ {None}
                             ELSE IF Key(u) = k THEN @ \ {None} ELSE @]]
          /\ UNCHANGED inode
       \/ dir[k] = None /\ Finish(t, MissingResult(t)) /\ UNCHANGED disk
       \/ CanFail("unlink") /\ Fail(t)
    /\ UNCHANGED <<machine, req>>

\* Mutant: success is reported without a sync of the directory.
ReturnUnsynced(t) ==
    /\ At(t, "fsyncDir")
    /\ Finish(t, "ok")
    /\ UNCHANGED <<disk, machine, req>>

\* fsync(directory), the last step of writeAtomic and of delete.
FsyncDir(t) ==
    /\ At(t, "fsyncDir")
    /\ \/ /\ maybe' = Settled
          /\ Finish(t, "ok")
          /\ UNCHANGED <<dir, inode>>
       \/ CanFail("fsyncDir") /\ Fail(t)
    /\ UNCHANGED <<machine, req>>

-----------------------------------------------------------------------------
(* set: validateExistingCredential, then writeAtomic.                        *)

\* Mutant: whatever the key names is replaced without being validated.
Unvalidated(f) == TRUE

Replaceable(f) == f # None => Trusted(f)

ValidateExisting(t) ==
    LET f == dir[Key(t)] IN
    /\ At(t, "validateExisting")
    /\ \/ /\ Replaceable(f)
          /\ Goto(t, "createTemporary")
          /\ UNCHANGED <<disk, frame>>
       \/ ~Replaceable(f) /\ Finish(t, "insecure") /\ UNCHANGED disk
       \/ (CanFail("open") \/ CanFail("close")) /\ Fail(t)
    /\ UNCHANGED <<machine, req>>

\* Mutant: openat without O_EXCL opens a temporary file that exists.
Shared(n) == FALSE

\* openat with O_CREAT|O_EXCL answers EEXIST.
Exists(n) == dir[n] # None

\* Mutant: the loop runs once more than temporaryCreateAttempts.
OneMoreAttempt(t) == frame[t].tries >= MaxAttempts

LastAttempt(t) == frame[t].tries + 1 >= MaxAttempts

\* One round of createTemporary's loop: draw a name, create the file.  The
\* umask may withhold permissions; the last collision, an I/O error and a full
\* file system end the loop.
CreateTemporary(t) ==
    /\ At(t, "createTemporary")
    /\ \/ \E n \in Temps :
             /\ ~Exists(n)
             /\ \E f \in Files, kind \in {"private", "masked"} :
                   /\ IF dir[n] = None THEN Unused(f, Threads) ELSE f = dir[n]
                   /\ Bind(n, f)
                   /\ inode' = IF dir[n] = None
                               THEN [inode EXCEPT ![f] =
                                       [data |-> Blank, synced |-> FALSE, kind |-> kind]]
                               ELSE inode
                   /\ frame' = [frame EXCEPT ![t].tmp = n, ![t].fd = f,
                                             ![t].tries = 0]
                   /\ Goto(t, "fchmod")
       \/ \E n \in Temps :
             /\ Exists(n)
             /\ ~LastAttempt(t)
             /\ frame' = [frame EXCEPT ![t].tries = @ + 1]
             /\ UNCHANGED <<disk, pc>>
       \/ \E n \in Temps :
             /\ Exists(n)
             /\ LastAttempt(t)
             /\ Fail(t)
       \/ CanFail("create") /\ Fail(t)
       \/ (\A f \in Files : ~Unused(f, Threads)) /\ Fail(t)
    /\ UNCHANGED <<machine, req>>

\* Mutant: the mode is left as the umask made it.
KeepMode(kind) == kind

SecretMode(kind) == "private"

Fchmod(t) ==
    LET f == frame[t].fd IN
    /\ At(t, "fchmod")
    /\ \/ /\ inode' = [inode EXCEPT ![f].kind = SecretMode(@)]
          /\ Goto(t, "writeAll")
          /\ UNCHANGED <<dir, maybe, frame>>
       \/ CanFail("fchmod") /\ Abort(t)
    /\ UNCHANGED <<machine, req>>

\* writeAll: one chunk, the end of the loop, or a write that fails or writes
\* nothing (io.ErrShortWrite).
WriteAll(t) ==
    LET f == frame[t].fd
        i == frame[t].pos + 1
    IN
    /\ At(t, "writeAll")
    /\ \/ /\ i <= SizeOf[req[t].val]
          /\ inode' = [inode EXCEPT ![f].data[i] = req[t].val, ![f].synced = FALSE]
          /\ frame' = [frame EXCEPT ![t].pos = i]
          /\ UNCHANGED <<dir, maybe, pc>>
       \/ /\ i <= SizeOf[req[t].val]
          /\ CanFail("write")
          /\ Abort(t)
       \/ /\ i > SizeOf[req[t].val]
          /\ Goto(t, "fsync")
          /\ UNCHANGED <<disk, frame>>
    /\ UNCHANGED <<machine, req>>

\* Mutant: the file is renamed into place before its contents are on disk.
KeepDirty(synced) == synced

AfterFsync(synced) == TRUE

FsyncFile(t) ==
    LET f == frame[t].fd IN
    /\ At(t, "fsync")
    /\ \/ /\ inode' = [inode EXCEPT ![f].synced = AfterFsync(@)]
          /\ Goto(t, "close")
          /\ UNCHANGED <<dir, maybe, frame>>
       \/ CanFail("fsync") /\ Abort(t)
    /\ UNCHANGED <<machine, req>>

\* The descriptor is gone even when close reports an error.
CloseFile(t) ==
    /\ At(t, "close")
    /\ \/ /\ Goto(t, "rename")
          /\ frame' = [frame EXCEPT ![t].fd = None]
       \/ /\ CanFail("close")
          /\ Goto(t, "cleanup")
          /\ frame' = [frame EXCEPT ![t].fd = None, ![t].res = "failure"]
    /\ UNCHANGED <<machine, disk, req>>

Rename(t) ==
    LET k == Key(t)
        n == frame[t].tmp
        f == dir[n]
    IN
    /\ At(t, "rename")
    /\ \/ /\ f # None
          /\ dir' = [dir EXCEPT ![k] = f, ![n] = None]
          /\ maybe' = [maybe EXCEPT ![k] = Pending(k, f), ![n] = Pending(n, None)]
          /\ frame' = [frame EXCEPT ![t] = FrameWith(Blank, maybe[k] \ {f}, "none")]
          /\ Goto(t, "fsyncDir")
          /\ UNCHANGED inode
       \/ (f = None \/ CanFail("rename")) /\ Abort(t)
    /\ UNCHANGED <<machine, req>>

\* Mutant: the deferred function closes the file and forgets to unlink it.
CloseOnly(t) == UNCHANGED <<dir, maybe>>

RemoveTemporary(t) == Bind(frame[t].tmp, None)

\* writeAtomic's deferred function on an error path.  A failed unlink is
\* joined to the error and leaves the temporary file behind.
Cleanup(t) ==
    /\ At(t, "cleanup")
    /\ Finish(t, frame[t].res)
    /\ \/ RemoveTemporary(t)
       \/ CanFail("cleanup") /\ UNCHANGED <<dir, maybe>>
    /\ UNCHANGED inode
    /\ UNCHANGED <<machine, req>>

-----------------------------------------------------------------------------
(* Failures of a process and of the machine, and delayed write-back.         *)

Ended(dead) ==
    /\ pc' = [t \in Threads |-> IF t \in dead THEN "idle" ELSE pc[t]]
    /\ req' = [t \in Threads |-> IF t \in dead THEN NoRequest ELSE req[t]]
    /\ frame' = [t \in Threads |-> IF t \in dead THEN NewFrame ELSE frame[t]]

\* The kernel closes the descriptors; what was written stays.
Crash(p) ==
    /\ Crashes
    /\ proc[p] # "down"
    /\ proc' = [proc EXCEPT ![p] = "down"]
    /\ lock' = [lock EXCEPT ![p] = [s \in Stripes |-> None]]
    /\ Ended({t \in Threads : Proc(t) = p})
    /\ UNCHANGED <<service, disk>>

\* What an inode may hold after a power loss: an unsynced one keeps some of its
\* leading chunks, and perhaps not its mode.
Survives(i, cut) ==
    IF i.synced THEN i
    ELSE [data |-> [j \in 1 .. MaxLen |-> IF j <= cut THEN i.data[j] ELSE None],
          synced |-> TRUE, kind |-> "masked"]

\* Each name denotes something it may denote, no inode has two names, an inode
\* without a name is reclaimed, and a service directory that nobody synced into
\* its parent may be gone with all it held.
PowerLoss ==
    /\ PowerFails
    /\ \E gone \in {g \in BOOLEAN : g => service = "volatile"} :
       \E d \in [Names -> Files \cup {None}] :
          /\ \A n \in Names : d[n] \in IF gone THEN {None} ELSE maybe[n]
          /\ Distinct(d)
          /\ service' = IF gone THEN "missing" ELSE service
          /\ dir' = d
          /\ maybe' = [n \in Names |-> {d[n]}]
          /\ \E cut \in 0 .. MaxLen :
                inode' = [f \in Files |-> IF \E n \in Names : d[n] = f
                                          THEN Survives(inode[f], cut)
                                          ELSE FreshInode(Blank, "private")]
    /\ proc' = [p \in Procs |-> "down"]
    /\ lock' = [p \in Procs |-> [s \in Stripes |-> None]]
    /\ Ended(Threads)

\* The kernel writes the parent directories back in its own time.
FlushParents ==
    /\ service = "volatile"
    /\ service' = "durable"
    /\ UNCHANGED <<proc, disk, lock, pc, req, frame>>

-----------------------------------------------------------------------------
Step(t) ==
    \/ Return(t) \/ OpenServiceDirectory(t) \/ OpenCredential(t) \/ Read(t)
    \/ Unlink(t) \/ FsyncDir(t) \/ ValidateExisting(t) \/ CreateTemporary(t)
    \/ Fchmod(t) \/ WriteAll(t) \/ FsyncFile(t) \/ CloseFile(t) \/ Rename(t)
    \/ Cleanup(t)

Next ==
    \/ \E t \in Threads : Call(t) \/ Lock(t) \/ Step(t)
    \/ \E p \in Procs : Open(p) \/ MakeDirectory(p) \/ Crash(p)
    \/ PowerLoss \/ FlushParents

Spec == Init /\ [][Next]_vars

\* The Go scheduler runs every goroutine that can run, and a sync.Mutex hands
\* itself to a waiter that has starved (its starvation mode is first come,
\* first served).  Nobody is obliged to call, to crash or to lose power.
Fairness ==
    /\ \A t \in Threads : WF_vars(Step(t)) /\ SF_vars(Lock(t))
    /\ \A p \in Procs : WF_vars(MakeDirectory(p))

FairSpec == Spec /\ Fairness

-----------------------------------------------------------------------------
(* Safety.                                                                   *)

Writing(t) == pc[t] \in {"fchmod", "writeAll", "fsync", "close"}
Staging(t) == Writing(t) \/ pc[t] \in {"rename", "cleanup"}

\* A temporary file belongs to one Set alone: while Set writes it nobody else
\* writes it, no key denotes it (now or after a power loss) and no Get has it
\* open.  (O_EXCL in createTemporary, across goroutines and processes.)
TemporaryIsPrivate ==
    \A t \in Threads : Writing(t) =>
        /\ dir[frame[t].tmp] = frame[t].fd
        /\ \A k \in Keys : frame[t].fd \notin maybe[k]
        /\ \A u \in Threads \ {t} : frame[u].fd # frame[t].fd

\* Whatever a key may denote, before or after a power loss, holds one whole
\* value and has reached the disk: writeAtomic writes and syncs the file before
\* it renames it into place.
PublishedIsWhole ==
    \A k \in Keys : \A f \in maybe[k] \ {None} :
        /\ inode[f].synced
        /\ \E v \in Values : inode[f].data = Bytes(v)

\* No key ever denotes a file with the mode the umask left it: fchmod comes
\* before the rename.  A file without the owner's bits could not be read again.
PublishedHasSecretMode ==
    \A k \in Keys : \A f \in maybe[k] \ {None} : inode[f].kind # "masked"

Succeeded(t) == At(t, "return") /\ frame[t].res = "ok"

\* A Get that succeeds returns exactly one value that was Set, whatever renames,
\* unlinks, crashes and writes happen between its reads.
NoTornRead ==
    \A t \in Threads : Succeeded(t) /\ Op(t) = "get" =>
        \E v \in Values : frame[t].buf = Bytes(v)

\* When a Set or Delete reports success, a power loss can no longer bring back
\* anything the key denoted before it took effect: fsync(directory) comes
\* before the return.  (What the parents of the service directory say is not
\* synced by anybody; see `service'.)
AckedIsDurable ==
    \A t \in Threads : Succeeded(t) /\ Op(t) # "get" =>
        frame[t].before \cap maybe[Key(t)] = {}

\* An object that fails validation is never replaced or removed, by any
\* interleaving of Set and Delete in several processes or by a power loss.
InsecureIsKept ==
    [][\A k \in Keys : dir[k] # None /\ ~Trusted(dir[k]) => dir'[k] = dir[k]]_vars

\* When one process uses the directory, nothing changes what a key denotes
\* between the step where a Set or Delete validates it and the step where it
\* replaces or unlinks it: the mutation lock covers both.
ValidatedIsReplaced ==
    [][\A t \in Threads :
          /\ Staging(t) \/ pc[t] \in {"createTemporary", "unlink"}
          /\ pc'[t] = pc[t]
          => dir'[Key(t)] = dir[Key(t)]]_vars

\* While no process crashes and unlink works, every temporary file in the
\* directory is one that a running Set is about to rename or to remove.
NoTemporaryLeft ==
    \A n \in Temps : dir[n] # None => \E t \in Threads : Staging(t) /\ frame[t].tmp = n

-----------------------------------------------------------------------------
(* Liveness.                                                                 *)

\* Every operation returns (or dies with its process): no path leaves a mutation
\* lock held, and createTemporary, writeAll and ReadAll end.
OperationsReturn == \A t \in Threads : ~At(t, "idle") ~> At(t, "idle")

\* A process that finds the service directory missing succeeds in opening it,
\* also when another process creates the directory first.
OpenSucceeds == \A p \in Procs : proc[p] = "mkdir" ~> proc[p] = "up"
=============================================================================
