----------------------------- MODULE Wsl2Bridge -----------------------------
(***************************************************************************)
(* The WSL2 bridge (secure/wsl2): every Get, Set and Delete starts the     *)
(* Windows helper, hands it one request and reads one response, within 15  *)
(* seconds.  The helper is trusted to do what it says; but it may fail to  *)
(* start, crash, be killed by the timeout, go on on the Windows side after *)
(* that, and print anything that is no answer to this request: another     *)
(* request's response, another version's, half of one.                     *)
(***************************************************************************)
EXTENDS Keyringer, Integers, Bags

CONSTANTS
    SizeOf,     \* the length of every value in bytes
    MaxCalls    \* operations in a behaviour

ASSUME Wsl2BridgeAssumption ==
    /\ SizeOf \in [Values -> Nat] /\ MaxCalls \in Nat
    /\ None # "notfound"    \* no answer is not the answer that there is nothing

VARIABLES
    store,      \* Windows Credential Manager: a value or None for every key
    orphans,    \* the bag of mutations that killed helpers may still make
    pc,         \* where each goroutine stands
    req,        \* its request
    ctx,        \* the context it runs the helper in: "live", "canceled", "expired"
    frame,      \* what its helper has done, and the result
    calls       \* operations so far

vars == <<store, orphans, pc, req, ctx, frame, calls>>

NewFrame ==
    [done   |-> FALSE,  \* whether the helper has executed the request
     answer |-> None,   \* what it found: a value, "ok" or "notfound"
     res    |-> "none"] \* "none", "ok" or the category of the error

Results == {"none", "ok", "notfound", "canceled", "timeout", "invalid", "toolarge",
            "unavailable", "denied", "unsupported", "failure"}

TypeOK ==
    /\ store \in [Keys -> Values \cup {None}]
    /\ IsABag(orphans) /\ BagToSet(orphans) \subseteq Requests
    /\ pc \in [Threads -> {"idle", "invoke", "run", "return"}]
    /\ req \in [Threads -> Requests \cup {NoRequest}]
    /\ ctx \in [Threads -> {"live", "canceled", "expired"}]
    /\ frame \in [Threads -> [done : BOOLEAN, res : Results,
                              answer : Values \cup {None, "ok", "notfound"}]]
    /\ calls \in 0..MaxCalls

\* The limit of the protocol, which is that of Windows Credential Manager.
maxSecretBytes == 5 * 512

\* Windows holds nothing longer than its limit, whoever wrote it.
Init ==
    /\ store \in [Keys -> {v \in Values : SizeOf[v] <= maxSecretBytes} \cup {None}]
    /\ orphans = EmptyBag
    /\ pc = [t \in Threads |-> "idle"]
    /\ req = [t \in Threads |-> NoRequest]
    /\ ctx = [t \in Threads |-> "live"]
    /\ frame = [t \in Threads |-> NewFrame]
    /\ calls = 0

-----------------------------------------------------------------------------
(* The protocol (protocol.go).                                               *)

Operations == {"probe", "get", "set", "delete"}

ErrorCodes == {"invalid_request", "unsupported_protocol", "unsupported_operation",
               "invalid_argument", "not_found", "access_denied", "backend_unavailable",
               "backend_failure", "timeout", "internal"}

\* The classes of a result that the decoder tells apart: for each field whether
\* it is set and what it says, and for a secret its length when decoded.
Result ==
    {r \in [version   : BOOLEAN,
            protocols : {"none", "ours", "others"},
            backend   : {"none", "ours", "other"},
            secret    : {"none", "notBase64", "base64"},
            length    : {0} \cup {SizeOf[v] : v \in Values},
            deleted   : {"none", "yes", "no"}] : r.secret # "base64" => r.length = 0}

Blank == [version |-> FALSE, protocols |-> "none", backend |-> "none",
          secret |-> "none", length |-> 0, deleted |-> "none"]

\* A decoded response and the exit code of the helper that printed it.
Response ==
    {r \in [protocol  : BOOLEAN,   \* whether it is the protocol of the request
            id        : BOOLEAN,   \* whether it is the request's identifier
            ok        : BOOLEAN,
            hasResult : BOOLEAN,
            result    : Result,
            error     : ErrorCodes \cup {"none", "unknown", "noMessage"},
            supported : BOOLEAN,   \* whether the error lists protocols
            exit      : {0, 1, 2}] :
        /\ r.supported => r.error # "none"
        /\ ~r.hasResult => r.result = Blank}

\* Empty output, output that is too long, and what is no JSON object.
NoResponse == [protocol |-> FALSE, id |-> FALSE, ok |-> FALSE, hasResult |-> FALSE,
               result |-> Blank, error |-> "none", supported |-> FALSE, exit |-> 2]

hasProbeFields(r) == r.version \/ r.protocols # "none" \/ r.backend # "none"

\* Mutant: a Get refuses a secret of the full length.
ShortResult(op, r) ==
    CASE op = "get" -> r.secret = "base64" /\ r.length < maxSecretBytes
      [] OTHER      -> TRUE

\* Mutant: the presence of "deleted" is not checked in the answer to a Get.
LaxResult(op, r) ==
    CASE op = "get" -> r.secret = "base64" /\ r.length <= maxSecretBytes /\ ~hasProbeFields(r)
      [] OTHER      -> TRUE

validateResult(op, r) ==
    CASE op = "probe"  -> /\ r.version /\ r.backend = "ours" /\ r.protocols = "ours"
                          /\ r.secret = "none" /\ r.deleted = "none"
      [] op = "get"    -> /\ r.deleted = "none" /\ ~hasProbeFields(r)
                          /\ r.secret = "base64" /\ r.length <= maxSecretBytes
      [] op = "set"    -> r.secret = "none" /\ r.deleted = "none" /\ ~hasProbeFields(r)
      [] op = "delete" -> r.secret = "none" /\ r.deleted # "none" /\ ~hasProbeFields(r)

validateProtocolError(r) ==
    /\ r.error \in ErrorCodes
    /\ r.supported = (r.error = "unsupported_protocol")

\* Mutant: a response need not be to this request.
AnyoneIsAnswer(op, r) ==
    /\ r.protocol
    /\ IF r.ok THEN r.hasResult /\ r.error = "none" /\ validateResult(op, r.result)
       ELSE ~r.hasResult /\ validateProtocolError(r)
    /\ r.exit = IF r.ok THEN 0 ELSE 1

\* decodeResponse, and the check of the exit code in invoke.
IsAnswer(op, r) ==
    /\ r.protocol /\ r.id
    /\ IF r.ok THEN r.hasResult /\ r.error = "none" /\ validateResult(op, r.result)
       ELSE ~r.hasResult /\ validateProtocolError(r)
    /\ r.exit = IF r.ok THEN 0 ELSE 1

ProbeResult == [version |-> TRUE, protocols |-> "ours", backend |-> "ours",
                secret |-> "none", length |-> 0, deleted |-> "none"]
SecretResult(n) == [version |-> FALSE, protocols |-> "none", backend |-> "none",
                    secret |-> "base64", length |-> n, deleted |-> "none"]
DeleteResult(d) == [version |-> FALSE, protocols |-> "none", backend |-> "none",
                    secret |-> "none", length |-> 0, deleted |-> d]

Success(r) == [protocol |-> TRUE, id |-> TRUE, ok |-> TRUE, hasResult |-> TRUE, result |-> r,
               error |-> "none", supported |-> FALSE, exit |-> 0]
Failure(code) == [protocol |-> TRUE, id |-> TRUE, ok |-> FALSE, hasResult |-> FALSE,
                  result |-> Blank, error |-> code,
                  supported |-> code = "unsupported_protocol", exit |-> 1]

\* The results in which a helper of this protocol version answers a request.
ResultsFor(op) ==
    CASE op = "probe"  -> {ProbeResult}
      [] op = "get"    -> {SecretResult(n) : n \in {m \in {0} \cup {SizeOf[v] : v \in Values} :
                                                       m <= maxSecretBytes}}
      [] op = "set"    -> {Blank}
      [] op = "delete" -> {DeleteResult("yes"), DeleteResult("no")}

Answers(op) ==
    {Failure(code) : code \in ErrorCodes} \cup {Success(r) : r \in ResultsFor(op)}

\* Results with a field too many, or that no request asks for.
OddResults ==
    {SecretResult(SizeOf[v]) : v \in Values} \cup
    {[Blank EXCEPT !.secret = "notBase64"], [SecretResult(0) EXCEPT !.deleted = "yes"],
     [ProbeResult EXCEPT !.backend = "other"], [ProbeResult EXCEPT !.protocols = "others"]}

\* An answer with one field wrong.
Bent(a) ==
    {[a EXCEPT !.protocol = FALSE], [a EXCEPT !.id = FALSE], [a EXCEPT !.ok = ~@],
     [a EXCEPT !.exit = 1 - @], [a EXCEPT !.exit = 2],
     [a EXCEPT !.error = "internal"], [a EXCEPT !.error = "unknown"],
     [a EXCEPT !.hasResult = TRUE], [a EXCEPT !.hasResult = FALSE, !.result = Blank]}

\* What a helper may print: an answer, no response, the answer to another request
\* or operation, an odd result, and answers with one field wrong.
Prints(op) ==
    {NoResponse} \cup {Success(r) : r \in OddResults} \cup
    (UNION {Answers(o) : o \in Operations}) \cup
    (UNION {Bent(a) : a \in Answers(op)})

\* portableError: the category of an error code.
Category(code) ==
    CASE code = "timeout"             -> "timeout"
      [] code = "not_found"           -> "notfound"
      [] code = "invalid_argument"    -> "invalid"
      [] code = "backend_unavailable" -> "unavailable"
      [] code = "access_denied"       -> "denied"
      [] code \in {"unsupported_protocol", "unsupported_operation"} -> "unsupported"
      [] OTHER                        -> "failure"

\* invoke after run, and Delete's look at the result: an ended context wins over
\* any response.
ResultOf(t, r) ==
    IF ctx[t] = "canceled" THEN "canceled"
    ELSE IF ctx[t] = "expired" THEN "timeout"
    ELSE IF ~IsAnswer(req[t].op, r) THEN "failure"
    ELSE IF ~r.ok THEN Category(r.error)
    ELSE IF r.result.deleted = "no" THEN "notfound" ELSE "ok"

-----------------------------------------------------------------------------
Go(t, label, f) ==
    /\ pc' = [pc EXCEPT ![t] = label]
    /\ frame' = [frame EXCEPT ![t] = f]

\* Mutant: Set does not look at the length of the secret.
AnyLength(q) == FALSE

TooLarge(q) == q.op = "set" /\ SizeOf[q.val] > maxSecretBytes

\* A call and what invoke checks before it starts the helper: the context, the
\* arguments, the request identifier, the size of the message.
Call(t) ==
    /\ pc[t] = "idle" /\ calls < MaxCalls
    /\ calls' = calls + 1
    /\ \E q \in Requests :
        /\ req' = [req EXCEPT ![t] = q]
        /\ IF TooLarge(q) THEN Go(t, "return", [NewFrame EXCEPT !.res = "toolarge"])
           ELSE \/ Go(t, "invoke", NewFrame)
                \/ \E e \in {"canceled", "timeout", "invalid", "failure", "toolarge"} :
                        Go(t, "return", [NewFrame EXCEPT !.res = e])
    /\ UNCHANGED <<store, orphans, ctx>>

\* The helper starts, or cannot be started.
StartHelper(t) ==
    /\ pc[t] = "invoke"
    /\ \/ Go(t, "run", frame[t])
       \/ Go(t, "return", [frame[t] EXCEPT !.res = CASE ctx[t] = "canceled" -> "canceled"
                                                      [] ctx[t] = "expired" -> "timeout"
                                                      [] OTHER -> "unavailable"])
    /\ UNCHANGED <<store, orphans, req, ctx, calls>>

\* The helper executes its request in Windows Credential Manager.
HelperExecutes(t) ==
    LET q == req[t] IN
    /\ pc[t] = "run" /\ ~frame[t].done
    /\ store' = IF q.op = "get" THEN store ELSE [store EXCEPT ![q.key] = q.val]
    /\ Go(t, "run", [frame[t] EXCEPT !.done = TRUE, !.answer =
                        IF q.op = "set" THEN "ok"
                        ELSE IF store[q.key] = None THEN "notfound"
                        ELSE IF q.op = "get" THEN store[q.key] ELSE "ok"])
    /\ UNCHANGED <<orphans, req, ctx, calls>>

\* Whether the helper tells the truth in an answer: it has looked for the
\* credential, reports whether it was there, and prints the secret it found.
Honest(t, r) ==
    r \in Answers(req[t].op) =>
        IF r.ok
        THEN /\ frame[t].done
             /\ (r.result.deleted = "no") = (frame[t].answer = "notfound")
             /\ req[t].op = "get" => /\ frame[t].answer \in Values
                                     /\ r.result.length = SizeOf[frame[t].answer]
        ELSE r.error = "not_found" => frame[t].answer = "notfound"

\* The helper ends; run has read its output and its exit code.
HelperEnds(t) ==
    /\ pc[t] = "run"
    /\ \E e \in {ResultOf(t, r) : r \in {x \in Prints(req[t].op) : Honest(t, x)}} :
        Go(t, "return", [frame[t] EXCEPT !.res = e])
    /\ UNCHANGED <<store, orphans, req, ctx, calls>>

\* The helper is killed because its context has ended.  Windows may still
\* execute what it had asked for.
HelperKilled(t) ==
    /\ pc[t] = "run" /\ ctx[t] # "live"
    /\ orphans' = IF frame[t].done \/ req[t].op = "get" THEN orphans
                  ELSE orphans (+) SetToBag({req[t]})
    /\ Go(t, "return", [frame[t] EXCEPT !.res = ResultOf(t, NoResponse)])
    /\ UNCHANGED <<store, req, ctx, calls>>

Return(t) ==
    /\ pc[t] = "return"
    /\ req' = [req EXCEPT ![t] = NoRequest]
    /\ ctx' = [ctx EXCEPT ![t] = "live"]
    /\ Go(t, "idle", NewFrame)
    /\ UNCHANGED <<store, orphans, calls>>

\* Windows executes, or drops, what a killed helper had asked for.
Late ==
    \E q \in BagToSet(orphans) :
        /\ orphans' = orphans (-) SetToBag({q})
        /\ \/ store' = [store EXCEPT ![q.key] = q.val]
           \/ UNCHANGED store
        /\ UNCHANGED <<pc, req, ctx, frame, calls>>

Cancel(t) ==
    /\ pc[t] \in {"invoke", "run"} /\ ctx[t] = "live"
    /\ ctx' = [ctx EXCEPT ![t] = "canceled"]
    /\ UNCHANGED <<store, orphans, pc, req, frame, calls>>

\* Mutant: the helper runs in the caller's context, without a timeout.
NoTimeout(t) == FALSE /\ UNCHANGED vars

\* defaultTimeout, or the caller's deadline, passes.
TimerExpires(t) ==
    /\ pc[t] \in {"invoke", "run"} /\ ctx[t] = "live"
    /\ ctx' = [ctx EXCEPT ![t] = "expired"]
    /\ UNCHANGED <<store, orphans, pc, req, frame, calls>>

Client(t) == StartHelper(t) \/ HelperKilled(t) \/ Return(t)

Next ==
    \/ \E t \in Threads : Call(t) \/ Client(t) \/ Cancel(t) \/ TimerExpires(t)
    \/ \E t \in Threads : HelperExecutes(t) \/ HelperEnds(t)
    \/ Late

Spec == Init /\ [][Next]_vars

\* The goroutines run and the timer ticks; the helper may hang for ever.
FairSpec == Spec /\ \A t \in Threads : WF_vars(Client(t)) /\ WF_vars(TimerExpires(t))

-----------------------------------------------------------------------------
\* The responses that an operation takes for an answer.
Taken == [op \in Operations |-> {r \in Response : IsAnswer(op, r)}]

\* Of all responses that a running helper can print, its operation takes exactly
\* those in which the protocol answers that operation: decodeResponse and the exit
\* code let through nothing else and refuse none (protocol.go, client.go).
OnlyAnswersAreTaken ==
    \A t \in Threads : pc[t] = "run" => Taken[req[t].op] = Answers(req[t].op)

\* Set and Get measure a secret each with a check of its own, on their sides of
\* the helper: whatever Windows holds, by any Set, also one whose helper was killed,
\* a later Get accepts when the helper prints it (keyring.go: Set; protocol.go:
\* validateResult).
StoredCanBeRead ==
    \A k \in Keys :
        store[k] # None => IsAnswer("get", Success(SecretResult(SizeOf[store[k]])))

\* Every operation returns, also when the helper hangs.
OperationReturns == \A t \in Threads : pc[t] # "idle" ~> pc[t] = "idle"
=============================================================================
