# common-keyring in TLA+

TLA+ modules, TLC configurations and TLAPS proofs about common-keyring, a Go
library that stores secrets (`Get`, `Set`, `Delete` by key) in whichever
credential store the machine offers. Paths below are relative to the repository
(`src/`).

## 1. Inventory

| Component | Code | State | Operations |
|---|---|---|---|
| Contract | `internal/contract` | none; error categories and `Info` | `Keyringer.Get/Set/Delete`, `ContextError`, `SelectionError` |
| Selection | `internal/selection/selection.go` | rejections of the running loop | `SelectBackend` |
| Root `Open` | `keyring.go`, `types.go`, `keyring_<os>.go` | none after `Open` | `Open`, `mergeOptions`, default order, registry |
| Secure `Open` | `secure/keyring.go`, `secure/keyring_linux.go` | none after `Open` | `Open`, the two getters, the Linux openers |
| Filesystem backend | `internal/backend/fs` | a table of 64 mutexes per `Keyring`; one file per key on disk | `Open`, `Get`, `Set`, `Delete` |
| Mount validation | `internal/backend/fs/mount_linux.go` | none | `validateMount` |
| Secret Service probe | `internal/backend/dbus/probe.go`, `errors.go` | a private bus connection and a session, for one probe | `Probe` |
| Secret Service client | `internal/backend/dbus/client.go` | a connection, a session and prompts, for one operation | `Get`, `Set`, `Delete` |
| WSL2 bridge | `secure/wsl2` | path of the helper; one child process per operation | `New`, `Get`, `Set`, `Delete` |
| Kernel keyring | `internal/backend/keyctl` | serial number of the user-session keyring | `Open`, `Get`, `Set`, `Delete` |
| Windows, macOS | `internal/backend/windows`, `internal/backend/darwin` | none | `Get`, `Set`, `Delete` around one blocking call |
| Native adapters | `internal/backend/native` | none | delegation |
| Limited buffer | `internal/iox/buffer.go` | bytes kept, overflow flag | `Write`, `Bytes`, `Overflow` |
| Facades, example, scripts | `secure/fake`, `secure/fs`, `examples`, `hack` | a map behind a mutex (fake) | for tests, demonstration and development |

**How they interact.** A caller runs `Open` of the root or of the secure
package. `Open` merges its options, builds an order of candidates and a registry
of openers, and hands both to `SelectBackend`, which calls the openers one after
the other. An opener of the secure package on Linux starts the WSL2 helper,
probes the Secret Service over a private bus connection, or asks the kernel for
the user-session keyring; the root package's opens the native store or the
filesystem backend. The caller gets a `Keyringer` and an `Info` that says how it
was chosen, and from then on several goroutines call `Get`, `Set` and `Delete`.
Selection is never repeated behind the caller's back.

**Shared state.** Goroutines of one process share a `Keyring` and its mutexes.
Processes share only what the backend keeps: the credential directory, the
kernel keyring, the Secret Service, the Windows store. No lock crosses a process.

**What is hard.**

- *Filesystem*: every operation is a dozen system calls. Other goroutines, other
  processes, a crash or a power loss fall between any two of them, and each of
  them can fail. `Set` must replace a file atomically and durably, on every path
  give back its mutex and its temporary file, and never replace an object it
  would refuse to read.
- *Selection*: which failure permits the next, possibly weaker, store to be
  tried. The context ends while an opener runs; its error and the failure that
  the end of the context provoked arrive together.
- *Probes*: the helper or the bus may never answer; an answer may come as the
  timeout expires; connections and processes must be gone on every path.
- *Secret Service client*: an operation is five bus calls, and the item it found
  may be deleted between two of them; unlock prompts, completion signals, cleanup
  after the end of the caller's context, and mutations that the service executes
  although the caller has given up.
- *WSL2 bridge, macOS*: a child process that is killed may still write; its output
  may belong to anything.
- *Kernel keyring*: a key is searched and then used by its serial number, its
  size is read before its contents, and it ends with the session.
- *Mount validation*: the mount table is read after the path was looked up.
- *Windows*: a service and a key are joined into one name.

**What makes each component correct.** The contract: each operation takes effect
at one instant or fails, and a missing key is `ErrNotFound`. Filesystem: that
contract across processes and crashes; what a key names is always a whole value;
acknowledged mutations survive a power loss; objects that fail validation are
kept. Stores in other processes: the same contract, except that a mutation that
reported an error may take effect later. Selection: no silent downgrade, no
plaintext without permission, `Info` and `SelectionError` tell the whole story.
Probes: bounded in time, nothing left open, errors classified by the context
first. Mount validation: no secret on a Windows drive, judged by the mount that
really holds the directory.

`PROJECT.json` lists the hazards, each at the line where it bites, with the
properties that cover it.

## 2. Modules

| Module | Content |
|---|---|
| `Keyringer` | constants and requests of the interface |
| `KeyringContract` | abstract specification: a linearizable map |
| `RemoteContract` | the same for a store in another process: mutations whose call reported an error may take effect later, and a volatile store may lose keys |
| `FsStorage` | the filesystem backend, one action per system call |
| `MountValidation` | the check that keeps credentials off the Windows drives of WSL, against the kernel's mount tree |
| `Selection` | both `Open` functions and `SelectBackend`; openers return any of their results |
| `SecureLinux` | extends `Selection` with the steps of the Linux openers, and implements it |
| `SecretService` | the Secret Service client, one action per bus call, signal and timeout |
| `Wsl2Bridge` | the operations of the WSL2 bridge and the checks of its protocol |
| `KernelKeyring`, `MacKeychain`, `WindowsCredentials`, `FakeKeyring`, `NoKeyring` | the backends an opened `Keyringer` delegates to |
| `OpenedKeyring` | composition: the `Keyringer` that `Open` returned, over one of these five |
| `LimitedBuffer` | the buffer around a child's output |
| `FsRefinesContract`, `SecretRefinesContract`, `Wsl2RefinesContract` | refinement mappings to the two contracts |
| `FsStorageProofs`, `OpenProofs`, `SecretServiceProofs`, `Wsl2BridgeProofs`, `OpenedKeyringProofs`, `WindowsCredentialsProofs`, `LimitedBufferProofs` | theorems, one module per component (`OpenProofs` is about `Selection` and `SecureLinux`) |
| `BagLemmas` | lemmas about bags, for the mutations that are still on their way |
| `MC...` | small instances for TLC |

Operators whose comment starts with "Mutant:" are wrong variants of an operator
that follows them. They are used nowhere in the specifications; substituting one
for the operator it varies makes TLC report the property that `PROJECT.json`
names for it, which shows that the property looks at that piece of code.

### FsStorage

| Variable | Code |
|---|---|
| `proc[p]` | whether the process has opened its `Keyring` (`openKeyring`, `prepareDirectories`) |
| `service` | the service directory: missing, created but not synced into its parents, durable |
| `dir`, `maybe` | the entries of the service directory, and what a power loss may leave of them |
| `inode` | contents by chunk, whether they reached the disk, and what `validateCredential` sees |
| `lock[p][s]` | `Keyring.locks`: one table per `Keyring`, which is one per process |
| `pc`, `req`, `frame` | program counter, arguments and local variables of each goroutine |

The actions follow the code: `Call` (`validateOperation`), `Lock`, then
`OpenServiceDirectory`, and for `Get` `OpenCredential` and `Read` (`io.ReadAll`,
one chunk a step), for `Delete` `OpenCredential`, `Unlink`, `FsyncDir`, for `Set`
`ValidateExisting`, `CreateTemporary` (one round of the loop a step), `Fchmod`,
`WriteAll` (one chunk a step), `FsyncFile`, `CloseFile`, `Rename`, `FsyncDir`, and
`Cleanup` for `writeAtomic`'s deferred function; `Return` is the deferred unlock.
Each has an alternative in which the system call fails, enabled by the constant
`Faults`. `Crash`, `PowerLoss` and `FlushParents` are the environment.

The kernel's file system is external and is modelled as POSIX promises it to the
code: a directory change is durable after `fsync` of the directory and may or may
not be before; file contents are durable after `fsync` of the file, and before it
any prefix of the chunks may survive; `rename` replaces atomically; an inode
lives while a name or a descriptor refers to it; `O_EXCL` fails if the name
exists. Two constants of the code are abstracted: 128 attempts are `MaxAttempts`,
64 mutexes are `Stripes` with an arbitrary map `StripeOf`.

Data is reduced to what the properties tell apart. A value has `SizeOf` chunks
(the empty value has none), a credential file is private, masked by the umask, or
rejected by `validateCredential`, and names are opaque. All directory levels are
one directory; whatever its validation rejects is a failure of `openDirectory`.
Nothing outside the library writes into the directory after the start, but it may
have left objects there that fail validation. `before` in `frame` is an auxiliary
variable: the inodes (or None) the operation's mutation superseded.

### Selection and SecureLinux

An error is the set of categories `errors.Is` finds in it, which is what
selection and callers look at; the joined and doubly wrapped errors of the code
are sets with two elements. `OpenErrors` lists what each opener can return.
`site` is the build (package, platform) and whether the kernel is WSL2's.
`mergeOptions`, `DefaultOrder`, `Registry` are the functions of both packages;
`Open`, `Stop`, `Unregistered`, `StartOpener`, `OpenerReturns` and `Exhausted` are
the steps of `Open` and `SelectBackend`, and `EndContext` may come between any two
of them.

`SecureLinux` replaces `OpenerReturns` by steps: `New`, `Invoke`, `HelperEnds`,
`Collect` for `wsl2.New`; `Probe`, `Connect`, `OpenSession`, `CloseSession`,
`Classify`, `CloseConnection` for `dbus.Probe`; `OpenKernel` for `keyctl.Open`.
`inner` is the derived context with its timeout. `Collect` and `Classify` read it
in a step of their own, after the answer arrived, as the code does. `seen` is an
auxiliary variable with the condition that decided each candidate.

### SecretService

`Script` is the list of bus calls of each operation: `Get` unlocks the collection,
finds the item, unlocks it, opens a session and reads the secret; `Set` opens the
session first. `Reply` takes the answer of one and makes the next; an answer
with a prompt leads through `Subscribed`, `Shown`, `Completed` or `Interrupted`
and `Unsubscribed`, which are the steps of `handlePrompt`: register the channel,
add the match rule, show the prompt, wait, remove the rule. Every path ends with
`SessionClosed` and `Close`; an error is kept in `frame.res` on its way through
them, as the joined error of the code. `Interrupted` is the end of the caller's
context, and the cleanup has timeouts of its own. `contextError` comes before the
classification of bus errors, so `BackendError` looks at the context first and
`BusCategory` then gives the error its category. `ConnectErrors` are those of
dialing, authentication and `Hello`, with the error of closing the connection joined.
A completion carries the goroutine and the position in its script of the prompt
it belongs to, so that two prompts of one operation can be told apart.

The service is external: it serves the calls of all connections in any order
(`ServeCall`), answers prompts when the user does, keeps silent, fails a call
(`Refuse`), restarts, is locked by another program, sends a completion without the
body it should have (`Garble`), or executes what a closed connection had sent
(`orphans`, `Late`). An item that is deleted makes the object
path others have found denote nothing.

### Wsl2Bridge and MacKeychain

Both run one child per operation. The child does its work (`HelperExecutes`,
`SecurityExecutes`) and ends, or is killed because its context ended, and then what
it had asked for may happen later (`orphans`, `Late`) or not at all. For the
bridge, `Response` has a member for every combination of what the decoder looks at:
`Result` for each field whether it is there and what it says, and for a secret
whether it is base64 and how long it is when decoded. `IsAnswer` is `decodeResponse`
with the look at the exit code, `validateResult` bounds the secret of a `Get`, `Answers` is what the helper's
protocol allows, and `Prints` is what a faulty helper prints. The timer of 15
seconds is `TimerExpires`. For the keychain, entries also come from other programs
and an older library; `decodeValue` trims and decodes.

### KernelKeyring, WindowsCredentials, FakeKeyring, NoKeyring, OpenedKeyring

`KernelKeyring` makes one system call a step: search, the two reads of
`readKeyContents` with its loop, unlink, `add_key`, and `Logout`. `payload` is
what each linked key holds; a serial number whose key was unlinked or whose
session ended is "gone". `WindowsCredentials` has one native call per operation;
names are sequences of UTF-16 units, since `target` joins them. `FakeKeyring` is the
Go map behind a `RWMutex` with its two critical sections per operation;
`NoKeyring` refuses everything, as the adapter of other platforms.

`OpenedKeyring` instantiates the five with one set of variables. `backend` is what
`Open` chose; it is initial and never changes, and each step is a step of that
backend. Its `PhaseOf`, `AnswerOf` and `Denoted` select the mapping of the backend,
and its refinement of `RemoteContract` is that of all five.

### MountValidation and LimitedBuffer

`mounts` is the table of mounts in the order of `/proc/self/mountinfo`, each with
its parent, as the kernel has them; `At(p)` walks that tree and is the reference.
`Stat` is one turn of the loop of `nearestExistingPath`, `Resolve` its resolution of
symbolic links, `ReadMountInfo` is `parseMountInfo`, `selectMount` and `isDrvFS`; each
can fail, and other processes mount, bind-mount and unmount between them. A file
system has one device number, because it is its superblock's, and the type, source
and options that its lines of `mountinfo` show. Where `stat` reports a number that
`mountinfo` does not show (subvolumes of btrfs), it is `Anonymous` and no mount is a
candidate. Since all mounts of one device are of one kind, which of them is selected
does not change the verdict here; that the selected one is the right one is a
property of its own. `LimitedBuffer` has one action, `Write`, and keeps all input as an
auxiliary variable.

## 3. Runs

| Run | Question | Instance | Distinct states |
|---|---|---|---|
| `fs_power` | What does a power loss leave? | 2 processes of 1 goroutine, 1 key, 3 inodes, failing writes, `fsync` of the directory and cleanup | 220,073 |
| `fs_contract` | Is the backend a linearizable map, with private temporary files and whole reads? | 2 processes, values of 0 and 2 chunks, crashes, 8 of 13 kinds of failing calls | 677,795 |
| `fs_live` | Does every operation return, give back its lock and its temporary file? Does a racing `Open` succeed? | 2 goroutines of one process, all calls but `mkdirat` and the cleanup failing | 73,863 |
| `open` | Does `Open` stop where it must, explain itself, leave nothing behind and return? | both packages, every platform, 14 option lists, WSL2 or not | 17,042 |
| `secure_helper` | Does only an absent helper let discovery continue? | as `open`, Linux | violated |
| `secret_service` | Is the Secret Service client a map; whose prompt is confirmed; what happens to sessions? | 2 goroutines, 1 key, 2 calls, 1 restart, lock by others, broken connection or malformed completion; failing calls | 1,174,879 |
| `secret_live` | Does an operation return once its context ends, or if the service answers? | as `secret_service`, without faults | 311,318 |
| `wsl2_bridge` | Is the bridge a map over any helper; which responses count; does it time out? | 2 goroutines, 1 key, a short and an oversized secret, 3 calls | 73,728 |
| `mount_validation` | Is a Windows drive ever accepted while mounts change, and is the mount that decides the one that holds the directory? | 8 file systems, 6 paths, 3 mounts, 3 changes, 2 device numbers | 339,476 |
| `opened` | Does the `Keyringer` that `Open` returned keep its promise, whichever backend it has? | 5 backends, 2 goroutines, values of 4 lengths, names of up to 3 units | 140,119 |
| `windows_colon` | Do services stay apart whatever they are called? | services `a` and `a:a` | violated |
| `limited_buffer` | Does the buffer keep the prefix and know about the rest? | limit 3, up to 6 bytes in any split | 127 |

All passing runs explore their instance completely.

**Bounds, and why they are enough.**

- *`FsStorage`*. Every property relates one key, one goroutine that acts and at
  most one that interferes; two goroutines, of one or of two processes, give every
  interference on one mutex and on none. Keys only share a mutex, which delays and
  does not interact, so one key is checked and the proofs cover any number. Two
  chunks make a torn value possible, the empty value the boundary. Three inodes are
  the published file and a staged one for each goroutine; running out of them is
  the full disk, which fails `createTemporary`. Two temporary names and two attempts
  make collisions, a retry and exhaustion happen in `fs_contract` and `fs_power`, where
  the other process, a crash or a failed cleanup leaves names behind. In `fs_live`
  nothing does, and a `Set` finds a free name at once.
- *`Selection`, `SecureLinux`*. The orders have at most four candidates and contain
  unregistered and repeated ones, so that an opener runs twice.
- *`SecretService`*. `MaxCalls` = 2 lets two operations overlap or one follow what
  the other left running; `MaxFaults` = 1 is a restart, a lock by another program, a
  broken connection or a malformed completion at any moment. Calls may fail besides,
  any number of them. Keys are independent in the service, so one key
  and one value besides "none" make a lost or repeated mutation visible.
- *`Wsl2Bridge`*. Three calls: one that is killed, one that overtakes what the
  first left running and one that sees the result. `Response` has every combination of
  the classes that the decoder tells apart, with secrets of the greatest length that
  fits and of one byte more.
- *`OpenedKeyring`*. The four lengths lie on both sides of every limit: the empty
  payload, which the kernel refuses, one below the limit, one at it, one above.
  The Windows keys contain one that begins with a colon, one that is too long and
  one with a unit that no name may have. The keychain's `MaxCalls` = 2 bounds what
  killed commands may leave running; the other backends have no bound on calls.
- *`MountValidation`*. Three mounts stack two on one point or nest them; three
  changes are enough to replace the mount between the two looks; two device numbers
  make a number be used again. The eight file systems are the three kinds of drive
  that `isDrvFS` looks for (by type, by source, by an option of 9p), a 9p that is none,
  a memory file system with the option of a drive, an ordinary one, one whose line
  cannot be read and one whose number `stat` does not tell.
- *`LimitedBuffer`*. Writes of every length, empty ones included, on both sides of
  the limit, up to twice of it.

Symmetry is used where values are opaque (inodes, temporary names, mirrored
processes, goroutines of the client), in runs without liveness properties only.

**Deadlock** is checked in the `fs_*` runs, in `open`, in `mount_validation` and in
`limited_buffer`: a goroutine that waits for a mutex is never alone, and an idle one
can always call. `secret_service`, `secret_live`, `wsl2_bridge` and `opened` say
`CHECK_DEADLOCK FALSE`, because the bound `MaxCalls` ends the calls.

**Fairness.**

- *`FsStorage`*: weak fairness of the steps of a running operation and of the
  directory creation (the Go scheduler runs what can run, system calls return),
  strong fairness of `Lock` (a `sync.Mutex` in starvation mode hands itself to the
  waiter). Nothing obliges a caller to call, a process to crash or the power to fail.
- *`SecureLinux`*: weak fairness of the loop, of the openers' steps while they do not
  wait for somebody else, and of the timers; none for an answer of the helper or of
  the bus and none for the end of the caller's context.
- *`SecretService`*: weak fairness of the client's own steps, among which are its
  timeouts during cleanup. The bus, the service and the user may keep silent for
  ever. Only `AnsweredReturns` has a premise, `Served`: the service serves, the user
  answers, nothing fails.
- *`Wsl2Bridge`*: weak fairness of the client's steps and of the timer of 15 seconds.
  The helper may hang.
- *`OpenedKeyring`*: weak fairness of the keychain's client and of answers of the
  kernel without an unexpected error. Neither the end of a context nor `security`
  is fair.

### What they show

*Filesystem.*

- `PublishedIsWhole`, `PublishedHasSecretMode`: a key never denotes a partly
  written, unsynced or unreadable file, even after a power loss at any instant.
- `AckedIsDurable`: a secret that a successful `Set` or `Delete` superseded does
  not come back. It says nothing of the new one surviving the loss of the whole
  service directory: the code never syncs the parents of the directories it
  creates, and the model keeps that possibility (`service = "volatile"`).
- `InsecureIsKept`: an object that fails validation is never replaced, although
  two processes validate and replace without a common lock. It holds because the
  library itself never creates such an object; one put there by somebody else
  between validation and rename would be replaced, which the model leaves out.
- `ValidatedIsReplaced`: within one process the mutation lock makes validation and
  replacement one step. With two processes it does not hold, and is not claimed.
- `NoTornRead`, `TemporaryIsPrivate`, `NoTemporaryLeft`: reads and temporary files.
- `ImplementsContract`: `Get` takes effect when it opens the file, `Set` at the
  rename, `Delete` at the unlink. The contract lets a failed mutation have taken
  effect: a `Delete` whose last `fsync` fails reports an error and the key is
  gone, so its retry answers `ErrNotFound`.
- `OperationsReturn`, `OpenSucceeds`: no path keeps a mutex, loops end, and the
  loser of a race for `mkdirat` goes on.
- `WindowsIsRefused`: a directory that was on a Windows drive when it was looked up is
  never accepted. The exception is the case in which the device number that `stat`
  reported was given to another file system before the table was read; then nothing in
  `mountinfo` tells the two apart.
- `SelectsTheMount`: among several mounts of one device, stacked, nested or behind a
  link, the last of the longest mount points is the mount that holds the directory. This
  does not hold of a mount that another one hides: its point may be longer than that of
  the mount that covers it, and `selectMount` then takes the hidden one. The property
  excludes that case in its premise. It does no harm to the verdict, since both are mounts
  of one device.

*Open.*

- `SelectionIsExplained`, `TerminalFailureStops`, `PlaintextIsPermitted`:
  section 1's claims about selection.
- `EndedContextIsLast`: the candidate that was being opened when the caller's context
  ended is the last. `Open` returns that candidate's `Keyring` or its error or the
  context's, never a later candidate's and not "no backend" while there is a later
  one. An opener that has been called may still make its calls; it is its result that
  the property follows.
- `NoSilentDowngrade`: over all answers of helper, bus and kernel, a candidate is
  passed over only if it is absent.
- `ProbesLeaveNothing`, `LateAnswerIsDiscarded`, `OpenReturns`: the probes.
- `ImplementsSelection`: `OpenErrors` and `CanAccept` of `Selection` are not
  guesses; every step of the openers is a stutter or a return they allow.

*Stores in other processes.*

- `ImplementsRemoteContract` (three mappings): each operation takes effect at one
  instant, and only a mutation whose call reported an error may take effect after
  it returned. The late effects are real: a service executes what a closed
  connection had sent, a killed helper or `security` may have reached the store. For
  the kernel keyring the contract also allows the keys to go, since they end with
  the session.
- `PromptIsOwn`: no prompt of another goroutine, no earlier prompt of the same
  operation, no dismissed one and no malformed signal counts as consent.
- `SessionLeftIsReported`: if the service keeps a session until the connection closes,
  the caller is told.
- `EndedReturns` (client and keychain), `OperationReturns` (bridge and kernel
  keyring): the loops end and nobody is waited for without a limit.
  `AnsweredReturns`: the signal of a prompt is not missed, because subscription
  comes before the prompt is shown.
- `OnlyAnswersAreTaken`: the decoder and the exit code together accept exactly the
  answers of the protocol to the operation asked for; `IsAnswer` follows the checks
  of `decodeResponse` in order, `Answers` lists the protocol's messages.
  `StoredCanBeRead`: `Set` bounds the secret in `keyring.go` and `Get` bounds the
  response in `protocol.go`; whatever the first let through to Windows, also by a helper
  that was killed, the second accepts.
- `ServicesAreApart` (services without a colon), `MapIsNotRaced`: Windows targets
  and the fake.
- `KeepsThePrefix`: the buffer is full at its limit and overflows one byte later.

**Two disagreements with the documentation.**

`docs/wsl2.md` says that only an absent helper lets discovery continue on WSL2, and
that a helper which returns an incompatible response or reports a backend failure
stops it. The run `secure_helper` shows otherwise: `portableError` maps a running
helper's `backend_unavailable` to `ErrBackendUnavailable` and its
`unsupported_protocol` and `unsupported_operation` to `ErrUnsupported`, and
`SelectBackend` continues on either.

`README.md` and `types.go` say that `Service` namespaces the credentials of one
application. The run `windows_colon` shows two services with one credential:
`validatedTarget` joins service and key with a colon and allows colons in both, so
the key `a:a` of `a` is the key `a` of `a:a`, and a `Set` or `Delete` of one changes the
other. If no service has a colon, services
stay apart for keys of any form, which `opened` checks and section 4 proves.

A third is not shown by a run of its own. `README.md` (138-140) says that the filesystem
backend rejects "mounts without trustworthy Unix ownership/mode semantics (including
WSL DrvFS)". `isDrvFS` recognizes DrvFS and nothing else: in `MountValidation` every
other kind whose line is readable is accepted, so a FAT or NTFS volume mounted with the
owner and the modes that `validateDirectory` wants is, too. `mount_validation` claims
only what the code does, that drives of Windows are refused.

## 4. Proofs

`tlapm` checks every step of `BagLemmas` and of the seven modules named `...Proofs`.
The theorems hold for every value of the constants that satisfies the named
assumptions of the modules: that names, keys and `None` are distinct, that functions
have their domains, that at most one value is empty, that limits are numbers, that
what stands for "no entry", "no answer" or "refused" is not itself an entry, an answer
or a value. TLC evaluates each assumption on the instance of a run. Where a theorem
has a premise of its own, its statement says so and the paragraph below says why.

**Refinements.** All five are proved as well as model-checked: the filesystem backend
against `KeyringContract`, the Secret Service client, the WSL2 bridge and the opened
`Keyringer` over each of its backends against `RemoteContract`, and the Linux openers
against `Selection`. Together they say that whatever `Open` returns is one
linearizable map, for any number of goroutines, keys and values. The three proofs
about `RemoteContract` have the same form. A goroutine's phase and answer are written
as functions of its label, request and frame; one lemma per kind of step (a call, an
effect, a failure, a late effect, a return, a step that shows nothing) turns a change
of these into a step of the contract; one lemma per action then says which kind it is.

**FsStorageProofs.** `Invariance` proves `Spec => []IInv`, and `TypeCorrectness`,
`Privacy`, `Atomicity`, `SecretModes`, `WholeReads` and `Durability` follow. The
properties are not inductive by themselves. That a published file is whole says
nothing about the file `Rename` is going to publish, so `Progress` ties the
program counter of a `Set` to the contents, mode and sync state of its file; that
these stay as they are needs `Owned`, by which a staged file has one name and one
owner, and no other goroutine's descriptor and no key, now or after a power loss,
refers to it. `Reading` says the same of what a `Get` has read so far: the inode
it holds is whole, and stays whole because nobody who writes owns it.
`Superseding` gives durability: what a mutation superseded is not what the name
denotes at the moment of the directory's `fsync`, which leaves only that.
`Cautious` and the second conjunct of `DiskInv` carry "a mutation replaces only
trusted objects" through all interleavings. The proof has one lemma per action,
one for steps that change only the local state of one goroutine (`QuietStepInv`),
and cases for crashes and power losses.

`LockInvariant` says that a mutation holds the mutex of its key at every label between
`Lock` and `Return`; under the premise that all goroutines are of one process, two
mutations of one key would hold one mutex, which gives `Locking`. `NothingLeftBehind`
has the premises of its property: no crash, no power loss, and a cleanup that does not
fail; its step is that a name in the directory always belongs to a goroutine that
stages. `InsecureObjectsStay` needs `OwnCreation`: a service directory whose creation a
power loss could undo was made by the library and holds trusted files only.

`Implementation` shows that the backend is the map of `KeyringContract`, under the
premise that the power does not fail (`~PowerFails`): after a power loss a name may
denote an older file again, which no linearizable map allows, and `Durability` is what
is promised instead. `Get` takes effect when it opens the credential, `Set` at its
`rename`, `Delete` at its `unlink`; a process that dies is the contract's `Die`. The
map of the contract is read off the directory and the inodes: `ValueOfBytes` says that
the bytes of a value tell which value it is, so a file that `Atomicity` calls whole
stands for one value. What the mapping needs beyond `IInv` is nothing: `Reading` ties
the descriptor a `Get` holds to the value it has answered since it opened it.

**OpenProofs.** `SelectionInvariance` proves `Spec => []SInv`. `LoopInv` is the
loop invariant of `SelectBackend`: the rejections are the candidates before the
position of the loop, in order, and each permits fallback. `FreshInv` says that a
call starts from scratch. `Explained`, `Terminal` and `Plaintext` follow. That
`mergeOptions` chooses a last option needs a largest element of a finite set of
positions, taken from the well-foundedness of `<` on the naturals.

`LInv` adds to `SInv` which Linux opener may be at which step (`PlaceInv`), what it
holds there (`HoldsInv`), and why each candidate was passed over (`SeenInv`). One lemma
per step of the openers shows both that `LInv` is kept and that the step is a step or a
stutter of `Selection`, so `LinuxImplementsSelection` comes from the same induction, and
what is proved of `Selection` holds of the real openers. `Downgrades`, `Cleanup`,
`LateAnswers` and `LinuxTypeCorrectness` follow from `LInv`. `Ended` has an invariant of its
own, `LastInv`: once the context has ended, an opener that is running is that of position
`last` and the loop stands right behind it, so `Open` can only return what `last` came to
or the context's error.

**SecretServiceProofs.** `IInv` is a conjunction of named parts. `Shape` and `Service`
are about the variables and the bus: only mutations are in flight on connections that
have ended, and an item that somebody holds as live has a value. `Local` is about one
goroutine, its place, request and frame: `Place` ties its label to the script of its
operation, `Prompted` says when a prompt is on its way and that a received completion
is its own and that of the step it is at, `Effect` says when an operation has done its work, `Found` that `Get` and
`Delete` hold an item once they have searched, and `Closing` that a session which is
still open when the connection is closed has left an error behind. `TypeCorrect`,
`SessionClosedOrReported` and the action property `PromptsAreOwn` follow. `Implementation`
holds with every fault of the bus, every answer of the user and every timeout: a
goroutine whose item another deletes is given its "notfound" in the step of that
deletion, which is what `RemoteTake` allows.

**Wsl2BridgeProofs.** `AnswersOnly` compares, for successes and for failures, what the
decoder checks with what the protocol lists. `StoredIsReadable` brings two bounds
together: a request was measured by `Set` before it could reach a helper, also in the
requests that killed helpers have left (`BridgeInv`), and what was measured passes
`validateResult` when it comes back. `HelperInv` adds that there is no answer before the
helper has executed the request; with it, `TypeCorrect` and `Implementation` follow. The
refinement uses that a helper's output which the decoder accepts is the answer to the
request, so an operation reports what its helper did or an error.

**WindowsCredentialsProofs, OpenedKeyringProofs.** `TargetIsInjective`: if no service has
a colon, the first colon of a target ends its service, so equal targets have equal
services and keys (`TargetsDiffer`). With the checks that precede a native call
(`Checked` in `WInv`) an entry changes only through a call that names it.
`OpenedServicesAreApart` carries this through the composition: a step of the opened
`Keyringer` on Windows is a step of `WindowsCredentials`. `FakeMapIsNotRaced` rests on
`MutexInv`, by which a goroutine at the map holds the mutex in the mode of its operation.

`Implementation` of `OpenedKeyringProofs` rests on `MapInv`: the backend that was opened
stays, and its invariant holds.

- *Kernel keyring* (`KernelInv`): a key that a goroutine has found is there or was
  unlinked since, and a revoked keyring has none. An unlink gives "notfound" to all
  who hold the key (`Holders`), a logout to all who hold any.
- *macOS Keychain* (`MacInv`): a command that runs, or that was killed and is still on its
  way, is short enough to be read, so what it stores is what its key comes to denote
  (`MacEncoded`), and only a missing entry denotes nothing (`MacValue`).
- *Windows* (`WInv`): a write changes what one key denotes, because no other key has the
  same target. This needs services without a colon (`WindowsServicesArePlain`), a premise
  of the theorem when Windows is among the backends; `windows_colon` shows that it cannot
  be dropped.
- *Fake* (`FakeInv`): who is about to delete an entry has seen it and holds the mutex for
  writing, so it is still there; the service no longer changes once an operation has
  run `init`.
- *No store* (`RefusedInv`): every call fails.

**LimitedBufferProofs.** `Prefix` is inductive, and determines the buffer.

**Only model-checked.** Liveness under fairness, which the prover cannot do:
`OperationsReturn` and `OpenSucceeds` (filesystem), `OpenReturns`, `EndedReturns` and
`AnsweredReturns` (Secret Service), `OperationReturns` (bridge, kernel keyring) and
`EndedReturns` (keychain). And `WindowsIsRefused` and `SelectsTheMount` of mount
validation, because the reference walks the tree of mounts with a RECURSIVE operator;
what it computes for every tree would be an induction over data. No ENABLED formula
occurs in a theorem.

## 5. What is not modelled

- Directories that somebody removes, replaces or fills with other objects while a
  `Keyring` is open; the levels of the directory tree and the rules by which each is
  validated (they are one outcome of `openDirectory`).
- A mount over the directory after `Open`; the code looks at mounts once, too. The
  syntax of `mountinfo` (a line that cannot be read is one outcome).
- Items of other programs in the Secret Service, several items that match one
  search, and object paths that the service gives to a new item.
- Writes of other programs to the keychain while an operation runs; entries they have
  left are in its initial states.
- Expiry of a single key in the kernel keyring; all keys of a session end at once.
- Targets of Credential Manager that differ in case only.
- Errors other than I/O errors of system calls on an open directory (a system
  call that fails with "permission denied" takes the same path), and their texts.
- The process tree below a helper or `security`: `exec.CommandContext` without
  `WaitDelay` waits for whoever inherited the output.
- The filesystem facade `secure/fs` only delegates. The command-line example and the
  scripts hold no logic of the library.

## 6. Plan

What would add most, in this order:

1. The premises of `Locking` and `NothingLeftBehind` as narrow as the code allows: which
   replacements two processes can still do to each other, stated and proved.
2. A second collection of items in the Secret Service, so that a search finds
   several items or an item that another program has moved.
3. Directory levels in `FsStorage`, with removal from outside, and the mounts of
   `MountValidation` under them.
4. A reference for mount validation without recursion (the set of mounts between the
   root and a directory), which would bring it into the prover's reach.
