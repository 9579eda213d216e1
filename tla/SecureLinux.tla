---------------------------- MODULE SecureLinux ----------------------------
(***************************************************************************)
(* The openers of the secure package on Linux, step by step: wsl2.New,     *)
(* which probes the Windows helper through a child process, dbus.Probe,    *)
(* which opens and closes a Secret Service session, and keyctl.Open.  The  *)
(* caller's context may end, and the opener's own timeout may expire,      *)
(* between any two steps.  Elsewhere an opener is one step of Selection.   *)
(***************************************************************************)
EXTENDS Selection

CONSTANT Helpers    \* what exec.LookPath may find: "absent", "error", "present"

ASSUME SecureLinuxAssumption == Helpers \subseteq {"absent", "error", "present"}

VARIABLES
    step,       \* where the running opener stands, or "none"
    inner,      \* its derived context: "off", "live", "canceled", "expired"
    got,        \* what the helper or the last bus call answered
    err,        \* the error the opener is about to return
    conn,       \* whether a private bus connection is open
    helper,     \* whether the helper process runs
    seen,       \* position and deciding condition of each answer (auxiliary)
    last        \* once ctx has ended: the last position that may be opened (history)

openerVars == <<step, inner, got, err, conn, helper, seen>>
codeVars == <<selectionVars, openerVars>>
vars == <<codeVars, last>>

\* The helper's error codes, and what else can come of running it.
HelperCodes == {"invalid_request", "unsupported_protocol", "unsupported_operation",
                "invalid_argument", "not_found", "access_denied", "backend_unavailable",
                "backend_failure", "timeout", "internal"}
HelperOutcomes == HelperCodes \cup {"success", "startError", "overflow", "invalidResponse",
                                    "wrongExitCode"}

ConnectFailures == {"dial", "auth", "authAndClose", "hello"}
BusErrors == {"ServiceUnknown", "NameHasNoOwner", "AccessDenied", "AuthFailed", "NoReply",
              "Timeout", "IsLocked", "NoSuchObject", "InteractiveAuthorizationRequired",
              "LimitsExceeded", "otherBusError"}
Errnos == {"EPERM", "ENOKEY", "ENOSYS", "ENODEV", "otherErrno"}

Conditions == HelperOutcomes \cup ConnectFailures \cup BusErrors \cup Errnos
    \cup {"none", "ok", "ended", "nulService", "notWSL2", "helperAbsent", "lookupError",
          "requestID", "closeFailed"}

Steps == {"none", "start", "invoke", "run", "collect",
          "connect", "openSession", "closeSession", "classify", "close"}

OpenerTypeOK ==
    /\ TypeOK
    /\ step \in Steps
    /\ inner \in {"off", "live", "canceled", "expired"}
    /\ got \in Conditions
    /\ err \subseteq Categories
    /\ conn \in BOOLEAN /\ helper \in BOOLEAN
    /\ seen \subseteq (Nat \ {0}) \X Conditions

LinuxTypeOK == OpenerTypeOK /\ last \in Nat

LinuxInit ==
    /\ Init
    /\ step = "none" /\ inner = "off" /\ got = "none" /\ err = {}
    /\ conn = FALSE /\ helper = FALSE
    /\ seen = {}
    /\ last = 0

-----------------------------------------------------------------------------
At(b, label) ==
    LinuxGetter(site) /\ phase = "opening" /\ Candidate = b /\ step = label

Goto(label) == step' = label /\ UNCHANGED <<inner, got, err, conn, helper, seen>>

\* The opener returns: its derived context is cancelled, and the candidate is
\* accepted or rejected because of the condition c.
Leave(c, e) ==
    /\ IF e = {} THEN Accept ELSE Reject(e)
    /\ step' = "none" /\ inner' = "off" /\ got' = "none" /\ err' = {}
    /\ seen' = seen \cup {<<index, c>>}

\* An error before any connection or process exists.
Refuse(c, e) == Leave(c, e) /\ UNCHANGED <<conn, helper>>

-----------------------------------------------------------------------------
(* secure/wsl2.New.                                                          *)

Windows == "windows-credential-manager"

\* portableError, with sentinelForCode: what a helper that ran answered.
portableError(o) ==
    CASE o = "success"             -> {}
      [] o = "timeout"             -> {"timeout"}
      [] o = "not_found"           -> {"notfound"}
      [] o = "invalid_argument"    -> {"invalid"}
      [] o = "backend_unavailable" -> {"unavailable"}
      [] o = "access_denied"       -> {"denied"}
      [] o \in {"unsupported_protocol", "unsupported_operation"} -> {"unsupported"}
      [] OTHER                     -> {"failure"}

\* Mutant: New does not look at the kernel release.
Anywhere == TRUE

IsWSL2 == site.wsl2

New ==
    /\ At(Windows, "start")
    /\ \/ ctx # "live" /\ Refuse("ended", ContextError(ctx))
       \/ ctx = "live" /\ Refuse("nulService", {"invalid"})
       \/ ctx = "live" /\ ~IsWSL2 /\ Refuse("notWSL2", {"unsupported"})
       \/ /\ ctx = "live" /\ IsWSL2
          /\ \E h \in Helpers :
                CASE h = "absent"  -> Refuse("helperAbsent", {"unavailable"})
                  [] h = "error"   -> Refuse("lookupError", {"failure"})
                  [] h = "present" -> Goto("invoke") /\ UNCHANGED selectionVars

\* invoke up to the start of the child process, with its 15 s timeout.
Invoke ==
    /\ At(Windows, "invoke")
    /\ \/ ctx # "live" /\ Refuse("ended", ContextError(ctx))
       \/ ctx = "live" /\ Refuse("requestID", {"failure"})
       \/ /\ ctx = "live"
          /\ step' = "run" /\ inner' = "live" /\ helper' = TRUE
          /\ UNCHANGED <<selectionVars, got, err, conn, seen>>

\* The child ends by itself, cannot be started, or is killed because the
\* derived context has ended; run collects its output and exit code.
HelperEnds ==
    /\ At(Windows, "run")
    /\ \/ got' \in HelperOutcomes
       \/ inner # "live" /\ got' = "ended"
    /\ helper' = FALSE
    /\ step' = "collect"
    /\ UNCHANGED <<selectionVars, inner, err, conn, seen>>

\* Mutant: an answer counts even if it came after the end of the context.
LateAnswer == IF got = "ended" THEN ContextError(inner) ELSE portableError(got)

\* invoke after run: an ended context wins over whatever the helper answered.
HelperError == IF inner # "live" THEN ContextError(inner) ELSE portableError(got)

Collect ==
    /\ At(Windows, "collect")
    /\ Refuse(IF inner # "live" THEN "ended" ELSE got, HelperError)

-----------------------------------------------------------------------------
(* internal/backend/dbus.Probe.                                              *)

Bus == "secret-service"

\* Mutant: a bus error with an unknown name is returned as it is.
RawCategory(c) == IF c = "otherBusError" THEN {c} ELSE {"failure"}

\* backendError: an error that has a category keeps it, a bus error gets one by
\* its name.
BusCategory(c) ==
    CASE c \in {"dial", "ServiceUnknown", "NameHasNoOwner"} -> {"unavailable"}
      [] c \in {"auth", "AccessDenied", "AuthFailed"}       -> {"denied"}
      [] c = "authAndClose"                                 -> {"denied", "failure"}
      [] c \in {"NoReply", "Timeout"}                       -> {"timeout"}
      [] c = "IsLocked"                                     -> {"locked"}
      [] c = "NoSuchObject"                                 -> {"notfound"}
      [] c = "InteractiveAuthorizationRequired"             -> {"interaction"}
      [] c = "LimitsExceeded"                               -> {"toolarge"}
      [] OTHER                                              -> {"failure"}

Probe ==
    /\ At(Bus, "start")
    /\ \/ ctx # "live" /\ Refuse("ended", ContextError(ctx))
       \/ /\ ctx = "live"
          /\ step' = "connect" /\ inner' = "live"
          /\ UNCHANGED <<selectionVars, got, err, conn, helper, seen>>

\* A call fails, or is interrupted by the end of the derived context.
CallFails(failures) ==
    /\ step' = "classify"
    /\ \/ got' \in failures
       \/ inner # "live" /\ got' = "ended"
    /\ UNCHANGED <<selectionVars, inner, err, conn, helper, seen>>

\* connectSessionBus closes the connection itself when it fails.
Connect ==
    /\ At(Bus, "connect")
    /\ \/ /\ step' = "openSession" /\ conn' = TRUE
          /\ UNCHANGED <<selectionVars, inner, got, err, helper, seen>>
       \/ CallFails(ConnectFailures)

OpenSession ==
    /\ At(Bus, "openSession")
    /\ \/ Goto("closeSession") /\ UNCHANGED selectionVars
       \/ CallFails(BusErrors)

CloseSession ==
    /\ At(Bus, "closeSession")
    /\ \/ /\ step' = "close" /\ got' = "ok"
          /\ UNCHANGED <<selectionVars, inner, err, conn, helper, seen>>
       \/ CallFails(BusErrors)

\* Mutant: the bus error is classified without a look at the context.
HastyError == IF got = "ended" THEN ContextError(inner) ELSE BusCategory(got)

\* backendError looks at the context first.
BusError == IF inner # "live" THEN ContextError(inner) ELSE BusCategory(got)

\* Mutant: a probe that fails returns without closing the connection.
UnclosedClassify ==
    /\ At(Bus, "classify")
    /\ Refuse(IF inner # "live" THEN "ended" ELSE got, BusError)

Classify ==
    /\ At(Bus, "classify")
    /\ \/ /\ conn
          /\ step' = "close" /\ err' = BusError
          /\ got' = IF inner # "live" THEN "ended" ELSE got
          /\ UNCHANGED <<selectionVars, inner, conn, helper, seen>>
       \/ ~conn /\ Refuse(IF inner # "live" THEN "ended" ELSE got, BusError)

\* The deferred closeConnection: its error counts only if there is no other.
CloseConnection ==
    /\ At(Bus, "close")
    /\ \/ Leave(got, err)
       \/ err = {} /\ Leave("closeFailed", {"failure"})
    /\ conn' = FALSE
    /\ UNCHANGED helper

-----------------------------------------------------------------------------
(* internal/backend/keyctl.Open: one system call, and no context.            *)

Kernel == "kernel-keyring"

probeError(c) ==
    CASE c = "EPERM"                          -> {"denied"}
      [] c \in {"ENOKEY", "ENOSYS", "ENODEV"} -> {"unavailable"}
      [] OTHER                                -> {"failure"}

OpenKernel ==
    /\ At(Kernel, "start")
    /\ \/ Refuse("ok", {})
       \/ \E c \in Errnos : Refuse(c, probeError(c))

\* The openers of the other platforms and of the root package.
OtherOpener ==
    /\ ~LinuxGetter(site) /\ OpenerReturns
    /\ step' = "none"
    /\ UNCHANGED <<inner, got, err, conn, helper, seen>>

-----------------------------------------------------------------------------
\* The caller's context ends, and with it the one derived from it.
LinuxEndContext ==
    /\ EndContext
    /\ inner' = IF inner = "live" THEN ctx' ELSE inner
    /\ UNCHANGED <<step, got, err, conn, helper, seen>>

\* Mutant: the probes run in the caller's context, without a timeout.
NoTimeout == FALSE /\ UNCHANGED codeVars

\* probeTimeout or defaultTimeout runs out.
TimerExpires ==
    /\ inner = "live"
    /\ inner' = "expired"
    /\ UNCHANGED <<selectionVars, step, got, err, conn, helper, seen>>

Opener ==
    \/ New \/ Invoke \/ HelperEnds \/ Collect
    \/ Probe \/ Connect \/ OpenSession \/ CloseSession \/ Classify \/ CloseConnection
    \/ OpenKernel \/ OtherOpener

Loop ==
    \/ (Open \/ Stop \/ Unregistered \/ Exhausted) /\ UNCHANGED openerVars
    \/ StartOpener /\ step' = "start" /\ UNCHANGED <<inner, got, err, conn, helper, seen>>

LinuxStep ==
    \/ (Call /\ UNCHANGED openerVars)
    \/ (TakeResult /\ seen' = {}
          /\ UNCHANGED <<step, inner, got, err, conn, helper>>)
    \/ Loop \/ Opener \/ LinuxEndContext \/ TimerExpires

\* The candidate that is being opened when the context ends may still answer;
\* those after it may not be opened.
Remember ==
    last' = IF ctx' = "live" THEN 0
            ELSE IF ctx # "live" THEN last
            ELSE IF phase = "opening" THEN index ELSE index - 1

LinuxNext == LinuxStep /\ Remember

LinuxSpec == LinuxInit /\ [][LinuxNext]_vars

\* The goroutine that runs Open is scheduled.  The helper and the bus may keep
\* silent: only the end of the context or the timeout then ends the wait.
Waiting == step \in {"run", "connect", "openSession", "closeSession"} /\ inner = "live"

Fairness ==
    /\ WF_codeVars(Loop)
    /\ WF_codeVars(~Waiting /\ Opener)
    /\ WF_codeVars(TimerExpires)

LinuxFairSpec == LinuxSpec /\ Fairness

-----------------------------------------------------------------------------
(* Safety.                                                                   *)

\* Conditions under which a candidate is not there to be used.
Absent == {"notWSL2", "helperAbsent", "unsupported_protocol",
           "unsupported_operation", "backend_unavailable", "dial", "ServiceUnknown",
           "NameHasNoOwner", "ENOKEY", "ENOSYS", "ENODEV"}

\* No weaker store is tried or chosen because a better one is locked, denied,
\* silent, broken or waiting for the user, or because the context ended while it
\* was asked: every candidate that was passed over is absent.
NoSilentDowngrade ==
    \A x \in seen : x[1] < index => x[2] \in Absent

\* Whenever no opener runs, the helper process has ended and the private bus
\* connection, with the probe's session on it, is closed: on every path of the
\* probes.
ProbesLeaveNothing == phase # "opening" => ~conn /\ ~helper

\* The end of the caller's context is final: the candidate that was being opened
\* then is the last that answers, a Keyring that Open still returns is that
\* candidate's, with all before it rejected, and an error is the context's or
\* that candidate's own; no candidates left is said only if none was left.  What
\* an opener already called does with the kernel or the bus is not limited.
EndedContextIsLast ==
    ctx # "live" =>
        /\ Len(rejected) <= last
        /\ result.kind = "keyring" =>
              last \in DOMAIN order /\ result.backend = order[last]
                /\ Len(result.rejected) = last - 1
        /\ result.kind = "error" =>
              \/ result.cause = ContextError(ctx)
              \/ last \in DOMAIN rejected /\ result.cause = rejected[last].err
              \/ result.cause = {"unavailable"} /\ Len(order) <= last

\* An answer of the helper that loses the race against the timeout or the
\* caller's context is not used: Windows Credential Manager is never selected
\* after the end of either.
LateAnswerIsDiscarded ==
    [][LinuxGetter(site) /\ result.kind = "none" /\ result'.kind = "keyring"
         /\ result'.backend = Windows => ctx = "live" /\ inner = "live"]_vars

\* docs/wsl2.md: "Only an absent helper permits discovery to continue with
\* Linux-context backends."
OnlyAbsentHelperContinues ==
    \A x \in seen : x[1] < index /\ order[x[1]] = Windows /\ site.wsl2 =>
        x[2] = "helperAbsent"

\* The openers return what OpenErrors and CanAccept say, so that whatever holds
\* of Selection holds of the secure package on Linux.
ImplementsSelection == Spec

-----------------------------------------------------------------------------
\* Open returns, also when the helper or the bus never answers: the probes are
\* bounded by their own timeouts.
OpenReturns == phase = "called" ~> phase = "done"
=============================================================================
