----------------------------- MODULE Selection -----------------------------
(***************************************************************************)
(* Open of the root package and of the secure package, and SelectBackend   *)
(* (internal/selection), which both call: candidates are opened in order   *)
(* until one accepts, one fails for good, the context ends or none is      *)
(* left.  What a backend's opener does inside is not seen here: it accepts *)
(* or returns one of the errors OpenErrors gives (SecureLinux has the      *)
(* steps).  The caller's context may end at any step.                      *)
(***************************************************************************)
EXTENDS Naturals, Sequences

CONSTANTS
    Sites,          \* where Open runs: package, platform, whether on WSL2
    OptionLists     \* the option lists callers pass

Backends == {"custom", "secret-service", "kernel-keyring", "filesystem",
             "keychain", "windows-credential-manager"}

\* An error is the set of categories errors.Is finds in it; no error is {}.
Categories == {"notfound", "invalid", "toolarge", "unavailable", "locked",
               "interaction", "denied", "timeout", "insecure", "unsupported",
               "failure", "canceled", "deadline"}

\* An option records which fields the caller set; only the order has a content
\* that selection looks at.
Options == [service : BOOLEAN, custom : BOOLEAN, dir : BOOLEAN,
            backends : Seq(Backends)]

ASSUME SelectionAssumption ==
    /\ Sites \subseteq [pkg : {"root", "secure"}, wsl2 : BOOLEAN,
                        platform : {"linux", "unix", "darwin", "windows", "other"}]
    /\ OptionLists \subseteq Seq(Options)

VARIABLES
    site,       \* where this Open runs
    opts,       \* its arguments
    ctx,        \* its context: "live", "canceled" or "expired"
    phase,      \* "idle", "called", "loop", "opening", "done"
    order,      \* the candidates
    index,      \* position of the loop over them
    rejected,   \* rejections so far
    result      \* what Open returns

selectionVars == <<site, opts, ctx, phase, order, index, rejected, result>>

Rejections == Seq([backend : Backends, err : SUBSET Categories])

NoResult == [kind |-> "none", backend |-> "custom", fallback |-> FALSE,
             rejected |-> <<>>, cause |-> {}]

TypeOK ==
    /\ site \in Sites
    /\ opts \in Seq(Options)
    /\ ctx \in {"live", "canceled", "expired"}
    /\ phase \in {"idle", "called", "loop", "opening", "done"}
    /\ order \in Seq(Backends)
    /\ index \in Nat \ {0}
    /\ rejected \in Rejections
    /\ result \in [kind : {"none", "keyring", "error"}, backend : Backends,
                   fallback : BOOLEAN, rejected : Rejections,
                   cause : SUBSET Categories]

Init ==
    /\ site \in Sites
    /\ opts = <<>>
    /\ ctx = "live"
    /\ phase = "idle"
    /\ order = <<>>
    /\ index = 1
    /\ rejected = <<>>
    /\ result = NoResult

-----------------------------------------------------------------------------
(* Options, default orders and registries.                                   *)

\* mergeOptions: for each field the last option that sets it wins.
mergeOptions(list) ==
    LET ordered == {i \in DOMAIN list : list[i].backends # <<>>} IN
    [service  |-> \E i \in DOMAIN list : list[i].service,
     custom   |-> \E i \in DOMAIN list : list[i].custom,
     dir      |-> \E i \in DOMAIN list : list[i].dir,
     backends |-> IF ordered = {} THEN <<>>
                  ELSE list[CHOOSE i \in ordered : \A j \in ordered : j <= i].backends]

\* nativeBackendInfo and nativeBackendSupported.
NativeBackend(s) ==
    CASE s.platform \in {"linux", "unix"} -> "secret-service"
      [] s.platform = "darwin"            -> "keychain"
      [] s.platform = "windows"           -> "windows-credential-manager"
      [] OTHER                            -> "custom"

NativeSupported(s) ==
    s.platform # "other" /\ ~(s.pkg = "secure" /\ s.platform = "unix")

If(condition, list) == IF condition THEN list ELSE <<>>

LinuxGetter(s) == s.pkg = "secure" /\ s.platform = "linux"

\* The order of candidates when the caller gives none.
DefaultOrder(s, o) ==
    IF LinuxGetter(s)
    THEN If(s.wsl2, <<"windows-credential-manager">>) \o <<"secret-service", "kernel-keyring">>
    ELSE If(NativeSupported(s), <<NativeBackend(s)>>)
           \o If(s.pkg = "root" /\ o.dir, <<"filesystem">>)

Registry(s) ==
    IF LinuxGetter(s) THEN {"windows-credential-manager", "secret-service", "kernel-keyring"}
    ELSE {b \in {NativeBackend(s)} : NativeSupported(s)}
            \cup {b \in {"filesystem"} : s.pkg = "root"}

-----------------------------------------------------------------------------
(* What the openers of the registries can return.                            *)

ContextErrors == {{"canceled"}, {"timeout", "deadline"}}

\* contract.ContextError.
ContextError(c) ==
    CASE c = "canceled" -> {"canceled"}
      [] c = "expired"  -> {"timeout", "deadline"}
      [] OTHER          -> {}

\* Mutant: a missing FallbackDir selects some default directory.
DefaultDirectory(s, b) == TRUE

\* Root's filesystem opener insists on FallbackDir, and only Linux has one; the
\* Windows store is reached from Linux only on WSL2.
CanAccept(s, b) ==
    CASE b = "filesystem"     -> mergeOptions(opts).dir /\ s.platform = "linux"
      [] LinuxGetter(s) /\ b = "windows-credential-manager" -> s.wsl2
      [] OTHER                -> TRUE

OpenErrors(s, b) ==
    CASE b = "filesystem" ->
            IF ~mergeOptions(opts).dir THEN {{"invalid"}}
            ELSE IF s.platform # "linux" THEN {{"invalid"}, {"insecure", "unsupported"}}
            ELSE {{"insecure"}, {"denied"}, {"denied", "insecure"}, {"invalid"}, {"failure"}}
      [] b = "secret-service" ->
            ContextErrors \cup {{"unavailable"}, {"denied"}, {"denied", "failure"},
               {"failure"}, {"timeout"}, {"locked"}, {"notfound"}, {"interaction"},
               {"toolarge"}}
      [] b = "kernel-keyring" -> {{"denied"}, {"unavailable"}, {"failure"}}
      [] LinuxGetter(s) /\ b = "windows-credential-manager" ->
            ContextErrors \cup {{"invalid"}, {"unsupported"}, {"unavailable"}, {"failure"},
               {"denied"}, {"timeout"}, {"notfound"}}
      [] OTHER -> {}

-----------------------------------------------------------------------------
(* Open, up to the call of SelectBackend.                                    *)

Call ==
    /\ phase = "idle"
    /\ opts' \in OptionLists
    /\ ctx' \in {"live", "canceled", "expired"}
    /\ phase' = "called"
    /\ UNCHANGED <<site, order, index, rejected, result>>

Answer(r) ==
    /\ phase' = "done"
    /\ result' = r

OpenFails(cause, rejections) ==
    Answer([NoResult EXCEPT !.kind = "error", !.cause = cause, !.rejected = rejections])

Open ==
    LET o == mergeOptions(opts) IN
    /\ phase = "called"
    /\ \/ ctx # "live" /\ OpenFails(ContextError(ctx), <<>>) /\ UNCHANGED order
       \/ ctx = "live" /\ o.custom /\ Answer([NoResult EXCEPT !.kind = "keyring"])
             /\ UNCHANGED order
       \/ ctx = "live" /\ ~o.custom /\ ~o.service /\ OpenFails({"invalid"}, <<>>)
             /\ UNCHANGED order
       \/ /\ ctx = "live" /\ ~o.custom /\ o.service
          /\ order' = IF o.backends # <<>> THEN o.backends ELSE DefaultOrder(site, o)
          /\ phase' = "loop"
          /\ UNCHANGED result
    /\ UNCHANGED <<site, opts, ctx, index, rejected>>

-----------------------------------------------------------------------------
(* SelectBackend.                                                            *)

Candidate == order[index]
Rejection(e) == [backend |-> Candidate, err |-> e]

\* Mutant: a timeout also lets the next candidate be tried.
PatientContinues(e) == e \cap {"unavailable", "unsupported", "timeout"} # {}

\* Only unavailable and unsupported candidates permit fallback.
Continues(e) == e \cap {"unavailable", "unsupported"} # {}

\* Mutant: the context is looked at by Open only.
NeverEnded == FALSE

ContextEnded == ctx # "live"

\* Mutant: a candidate without an opener is skipped without a record.
Forgotten(e) == rejected

Recorded(e) == Append(rejected, Rejection(e))

Stop ==
    /\ phase = "loop" /\ index <= Len(order) /\ ContextEnded
    /\ OpenFails(ContextError(ctx), rejected)
    /\ UNCHANGED <<site, opts, ctx, order, index, rejected>>

Unregistered ==
    /\ phase = "loop" /\ index <= Len(order) /\ ~ContextEnded
    /\ Candidate \notin Registry(site)
    /\ rejected' = Recorded({"unsupported"})
    /\ index' = index + 1
    /\ UNCHANGED <<site, opts, ctx, phase, order, result>>

StartOpener ==
    /\ phase = "loop" /\ index <= Len(order) /\ ~ContextEnded
    /\ Candidate \in Registry(site)
    /\ phase' = "opening"
    /\ UNCHANGED <<site, opts, ctx, order, index, rejected, result>>

Accept ==
    /\ Answer([NoResult EXCEPT !.kind = "keyring", !.backend = Candidate,
                  !.fallback = (Candidate = "filesystem" \/ rejected # <<>>),
                  !.rejected = rejected])
    /\ UNCHANGED <<site, opts, ctx, order, index, rejected>>

Reject(e) ==
    /\ rejected' = Recorded(e)
    /\ \/ Continues(e) /\ index' = index + 1 /\ phase' = "loop" /\ UNCHANGED result
       \/ ~Continues(e) /\ OpenFails(e, rejected') /\ UNCHANGED index
    /\ UNCHANGED <<site, opts, ctx, order>>

OpenerReturns ==
    /\ phase = "opening"
    /\ \/ CanAccept(site, Candidate) /\ Accept
       \/ \E e \in OpenErrors(site, Candidate) : Reject(e)

Exhausted ==
    /\ phase = "loop" /\ index > Len(order)
    /\ OpenFails({"unavailable"}, rejected)
    /\ UNCHANGED <<site, opts, ctx, order, index, rejected>>

-----------------------------------------------------------------------------
(* The caller ends the context, or takes the result and may call again.      *)

EndContext ==
    /\ phase \in {"called", "loop", "opening"} /\ ctx = "live"
    /\ ctx' \in {"canceled", "expired"}
    /\ UNCHANGED <<site, opts, phase, order, index, rejected, result>>

TakeResult ==
    /\ phase = "done"
    /\ opts' = <<>> /\ ctx' = "live" /\ phase' = "idle" /\ order' = <<>>
    /\ index' = 1 /\ rejected' = <<>> /\ result' = NoResult
    /\ UNCHANGED site

Next ==
    \/ Call \/ Open \/ Stop \/ Unregistered \/ StartOpener \/ OpenerReturns
    \/ Exhausted \/ EndContext \/ TakeResult

Spec == Init /\ [][Next]_selectionVars

-----------------------------------------------------------------------------
(* Safety.                                                                   *)

\* Info tells how the backend was reached: it is the candidate after the
\* rejected ones, each of those was unavailable or unsupported and none is
\* missing, and Fallback is set exactly if something was passed over or the
\* backend is the plaintext one.
SelectionIsExplained ==
    result.kind = "keyring" /\ order # <<>> =>
        LET n == Len(result.rejected) IN
        /\ n < Len(order) /\ result.backend = order[n + 1]
        /\ \A i \in 1 .. n : /\ result.rejected[i].backend = order[i]
                             /\ Continues(result.rejected[i].err)
        /\ result.fallback <=> n > 0 \/ result.backend = "filesystem"

\* A candidate that is locked, denied, timed out, interactive or broken is
\* never passed over: nothing is tried after it, and the error names it.
TerminalFailureStops ==
    \A i \in DOMAIN rejected :
        LET e == rejected[i].err IN
        e \cap {"unavailable", "unsupported"} = {} =>
            /\ i = Len(rejected) /\ phase = "done"
            /\ result.kind = "error" /\ result.cause = e /\ result.rejected = rejected

\* Secrets are stored in plaintext files only by the root package on Linux, and
\* only if some option names a FallbackDir; listing the backend is not enough.
PlaintextIsPermitted ==
    result.kind = "keyring" /\ result.backend = "filesystem" =>
        /\ site.pkg = "root" /\ site.platform = "linux"
        /\ \E i \in DOMAIN opts : opts[i].dir
=============================================================================
