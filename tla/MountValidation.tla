-------------------------- MODULE MountValidation --------------------------
(***************************************************************************)
(* The filesystem backend refuses to store credentials on DrvFS, the       *)
(* Windows drives of WSL (internal/backend/fs/mount_linux.go).             *)
(* validateMount takes the device number of the nearest existing directory *)
(* and looks it up in /proc/self/mountinfo, while other processes mount,   *)
(* bind, stack and unmount file systems.  The reference is the kernel's    *)
(* own mount tree: At(p) is the mount that really holds a path.            *)
(*                                                                         *)
(* All the mounts of one device number show one file system, since a       *)
(* device number belongs to one superblock, with its type and its options; *)
(* a bind mount copies the source.                                         *)
(***************************************************************************)
EXTENDS Integers, SequencesExt

CONSTANTS
    Paths,      \* absolute clean paths, as sequences of names
    Links,      \* symbolic links: a function from paths to paths
    Kinds,      \* file systems: records of what mountinfo and stat show of them
    IsWindows,  \* which of them are drives of Windows
    Holds,      \* the directories that each file system has
    Devs,       \* device numbers; that of an unmounted file system is used again
    MaxMounts,
    MaxChanges  \* mounts and unmounts in a behaviour

ASSUME MountValidationAssumption ==
    /\ <<>> \in Paths
    /\ \A p \in Paths : p # <<>> => Front(p) \in Paths
    /\ IsWindows \in [Kinds -> BOOLEAN] /\ Holds \in [Kinds -> SUBSET Paths]

VARIABLES
    mounts,     \* the mount table, in the order of mountinfo
    pc,         \* where validateMount stands
    found,      \* the path it has come to, its device and what holds it
    verdict,    \* "none", "accepted", "refused" or "failed"
    freed,      \* the last mount of found.dev has gone since it was looked up
    changes     \* mounts and unmounts so far

vars == <<mounts, pc, found, verdict, freed, changes>>

Ids == 1..MaxMounts

\* What stat reports for a file system with device numbers that mountinfo does
\* not show, like the subvolumes of btrfs.
Anonymous == 0

Unstatted(p) == [path |-> p, dev |-> Anonymous, windows |-> FALSE]

TypeOK ==
    /\ mounts \in Seq([id : Ids, on : {0} \cup Ids, dev : Devs, kind : Kinds, point : Paths])
    /\ pc \in {"idle", "stat", "resolve", "mountinfo", "done"}
    /\ found \in [path : Paths, dev : {Anonymous} \cup Devs, windows : BOOLEAN]
    /\ verdict \in {"none", "accepted", "refused", "failed"}
    /\ freed \in BOOLEAN
    /\ changes \in 0..MaxChanges

Init ==
    /\ \E d \in Devs, k \in Kinds :
        mounts = <<[id |-> 1, on |-> 0, dev |-> d, kind |-> k, point |-> <<>>]>>
    /\ pc = "idle" /\ found = Unstatted(<<>>)
    /\ verdict = "none" /\ freed = FALSE /\ changes = 0

-----------------------------------------------------------------------------
(* The kernel's mount tree.                                                  *)

Table == ToSet(mounts)

\* What is mounted on a directory of a mount, at most one.
MountedOn(m, p) == {x \in Table : x.on = m.id /\ x.point = p}

RECURSIVE Top(_, _)
Top(m, p) ==
    IF MountedOn(m, p) = {} THEN m ELSE Top(CHOOSE x \in MountedOn(m, p) : TRUE, p)

\* The mount that holds a path.
RECURSIVE At(_)
At(p) == Top(IF p = <<>> THEN CHOOSE m \in Table : m.on = 0 ELSE At(Front(p)), p)

RECURSIVE Exists(_)
Exists(p) ==
    IF p = <<>> THEN TRUE
    ELSE /\ Exists(Front(p))
         /\ MountedOn(At(Front(p)), p) # {} \/ p \in Holds[At(Front(p)).kind]

\* The mounts stacked on a path, of which only the last can be seen into.
RECURSIVE Stack(_, _)
Stack(m, p) == {m} \cup UNION {Stack(x, p) : x \in MountedOn(m, p)}

\* A mount that no mount on a directory above it hides.
Visible(m) == m.on = 0 \/ m \in Stack(At(Front(m.point)), m.point)

\* The path behind symbolic links.
Real(p) ==
    LET behind == {l \in DOMAIN Links : IsPrefix(l, p)} IN
    IF behind = {} THEN p
    ELSE LET l == CHOOSE l \in behind : TRUE IN Links[l] \o SubSeq(p, Len(l) + 1, Len(p))

Reachable(p) == Real(p) \in Paths /\ Exists(Real(p))

-----------------------------------------------------------------------------
(* Other processes.                                                          *)

Change == changes < MaxChanges /\ changes' = changes + 1

\* Mount a new file system, or one that is mounted already (a bind mount), on
\* whatever holds the point now.
Mount ==
    /\ Change
    /\ \E p \in Paths \ {<<>>}, d \in Devs, k \in Kinds, i \in Ids :
        /\ \A m \in Table : m.id # i /\ (m.dev = d => m.kind = k)
        /\ p \notin DOMAIN Links /\ Exists(p)
        /\ mounts' = Append(mounts, [id |-> i, on |-> At(p).id, dev |-> d, kind |-> k,
                                     point |-> p])
    /\ UNCHANGED <<pc, found, verdict, freed>>

Unmount ==
    /\ Change
    /\ \E m \in Table :
        /\ m.on # 0 /\ \A x \in Table : x.on # m.id
        /\ mounts' = SelectSeq(mounts, LAMBDA x : x # m)
        /\ freed' = (freed \/ \A x \in Table \ {m} : x.dev # found.dev)
    /\ UNCHANGED <<pc, found, verdict>>

-----------------------------------------------------------------------------
(* validateMount.  Every failure is ErrInsecureFallback, like the refusal.   *)

Fail == pc' = "done" /\ verdict' = "failed"

\* filepath.Abs, which fails when the working directory has been removed.
Start ==
    /\ pc = "idle"
    /\ \/ Fail /\ UNCHANGED found
       \/ /\ \E p \in Paths : found' = Unstatted(p)
          /\ pc' = "stat" /\ UNCHANGED verdict
    /\ UNCHANGED <<mounts, freed, changes>>

\* One turn of the loop of nearestExistingPath: the path exists, or its parent
\* is next, or stat fails for another reason than ENOENT.
Stat ==
    /\ pc = "stat"
    /\ \/ /\ Reachable(found.path)
          /\ LET m == At(Real(found.path)) IN
              found' = [found EXCEPT !.dev = IF m.kind.anonymous THEN Anonymous ELSE m.dev,
                                     !.windows = IsWindows[m.kind]]
          /\ pc' = "resolve" /\ UNCHANGED verdict
       \/ /\ ~Reachable(found.path)
          /\ found' = Unstatted(Front(found.path))
          /\ UNCHANGED <<pc, verdict>>
       \/ Fail /\ UNCHANGED found
    /\ freed' = FALSE
    /\ UNCHANGED <<mounts, changes>>

\* Mutant: symbolic links are not resolved.
Lexical(q) == q

Resolved(q) == Real(q)

\* filepath.EvalSymlinks, which fails when the path has gone since.
Resolve ==
    /\ pc = "resolve"
    /\ \/ /\ Reachable(found.path)
          /\ found' = [found EXCEPT !.path = Resolved(@)]
          /\ pc' = "mountinfo" /\ UNCHANGED verdict
       \/ Fail /\ UNCHANGED found
    /\ UNCHANGED <<mounts, freed, changes>>

IsCandidate(m, path, dev) == m.dev = dev /\ IsPrefix(m.point, path)

\* The candidates with the longest mount point, as places in the table.
Longest(path, dev) ==
    LET candidates == {i \in DOMAIN mounts : IsCandidate(mounts[i], path, dev)} IN
    {i \in candidates : \A j \in candidates : Len(mounts[j].point) <= Len(mounts[i].point)}

\* Mutant: an equally long mount point does not replace the one selected.
FirstOfLongest(path, dev) ==
    {mounts[i] : i \in {x \in Longest(path, dev) : \A y \in Longest(path, dev) : x <= y}}

\* selectMount: the longest mount point, the last of them.
selectMount(path, dev) ==
    {mounts[i] : i \in {x \in Longest(path, dev) : \A y \in Longest(path, dev) : y <= x}}

\* Mutant: the options of 9p are compared as a whole.
IsDrvFSType(k) ==
    k.type = "drvfs" \/ k.source = "drvfs" \/ (k.type = "9p" /\ k.options = "aname=drvfs")

\* isDrvFS looks at the type, the source, and for 9p at the options.
isDrvFS(k) ==
    \/ k.type = "drvfs" \/ k.source = "drvfs"
    \/ k.type = "9p" /\ k.options \in {"aname=drvfs", "aname=drvfs;path"}

\* parseMountInfo fails when any line of the table cannot be read.
Readable == \A m \in Table : m.kind.readable

\* Opening mountinfo fails, or a line of it cannot be read, or no mount of it
\* is a candidate, or the selected mount decides.
ReadMountInfo ==
    /\ pc = "mountinfo"
    /\ LET selected == selectMount(found.path, found.dev) IN
        \/ Fail
        \/ /\ Readable
           /\ \E m \in selected :
               verdict' = IF isDrvFS(m.kind) THEN "refused" ELSE "accepted"
           /\ pc' = "done"
    /\ UNCHANGED <<mounts, found, freed, changes>>

\* The next Open.
Reopen ==
    /\ pc = "done"
    /\ pc' = "idle" /\ found' = Unstatted(<<>>)
    /\ verdict' = "none" /\ freed' = FALSE
    /\ UNCHANGED <<mounts, changes>>

Next == Mount \/ Unmount \/ Start \/ Stat \/ Resolve \/ ReadMountInfo \/ Reopen

Spec == Init /\ [][Next]_vars

-----------------------------------------------------------------------------
\* A directory of Windows is never accepted, whatever is mounted over it, below
\* it or in front of it, and whatever is mounted or unmounted between stat, the
\* resolution of links and the reading of mountinfo, unless the device number
\* itself went back to the kernel in between (mount_linux.go:
\* validateMountWithEnvironment, nearestExistingPath, isDrvFS).
WindowsIsRefused ==
    [][pc = "mountinfo" /\ verdict' = "accepted" => ~found.windows \/ freed]_vars

\* The mount whose line decides is the one that holds the directory for the
\* kernel: of several mounts of one device in front of it, behind a link, and on
\* one another, the right one.  A mount that another one hides is the exception: its
\* point may be longer than that of the mount on top of it, and mountinfo does
\* not tell (mount_linux.go: selectMount, pathWithinMount).
SelectsTheMount ==
    LET path == Real(found.path)
        holder == At(path)
        hidden == {m \in Table : IsCandidate(m, path, found.dev) /\ ~Visible(m)}
    IN pc = "mountinfo" /\ holder.dev = found.dev /\ hidden = {}
          => selectMount(found.path, found.dev) = {holder}
=============================================================================
