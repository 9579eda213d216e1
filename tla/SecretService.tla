--------------------------- MODULE SecretService ---------------------------
(***************************************************************************)
(* The Secret Service client (internal/backend/dbus/client.go).  Every     *)
(* Get, Set and Delete opens a private bus connection, runs a fixed list   *)
(* of calls on it, answers the prompts these calls may return, closes its  *)
(* session and its connection.  Goroutines share nothing but the service,  *)
(* which is modelled as the client sees it: it serves the calls in any     *)
(* order, may be silent, restart or lock the collection, lets the user     *)
(* answer prompts, and still executes what an abandoned connection sent.   *)
(***************************************************************************)
EXTENDS Keyringer, Bags, Sequences, Integers

CONSTANTS
    MaxCalls,   \* operations in a behaviour
    MaxFaults,  \* restarts of the service, broken connections, locks by others
    BusFaults   \* errors of the bus that a call may fail with

\* Errors of D-Bus, by what backendError tells apart; the service adds two.
BusErrors == {"other", "NoReply", "denied", "ServiceUnknown", "LimitsExceeded",
              "InteractionRequired"}

ASSUME SecretServiceAssumption ==
    /\ MaxCalls \in Nat /\ MaxFaults \in Nat
    /\ BusFaults \subseteq BusErrors

VARIABLES
    store,      \* the default collection: a value or None for every key
    locked,     \* whether the collection and its items are locked
    orphans,    \* the bag of mutations that ended connections left in flight
    pc,         \* what each goroutine waits for
    req,        \* its request
    ctx,        \* the caller's context: "live" or "ended"
    frame,      \* the operation's local state and its connection
    calls,      \* operations so far
    faults      \* faults so far

daemonVars == <<store, locked, orphans>>
vars == <<daemonVars, pc, req, ctx, frame, calls, faults>>

\* The calls that each operation makes, in order.
Script == [get    |-> <<"unlock", "find", "unlockItem", "openSession", "getSecret">>,
           set    |-> <<"openSession", "unlock", "createItem">>,
           delete |-> <<"unlock", "find", "unlockItem", "deleteItem">>,
           none   |-> <<"none">>]

Labels == {"idle", "connect", "call", "addMatch", "prompt", "wait", "removeMatch",
           "closeSession", "close", "return"}
Replies == {"none", "sent", "ok", "prompt", "empty", "IsLocked", "NoSuchObject"}
              \cup BusErrors
Categories == {"notfound", "locked", "interaction", "failure", "denied", "timeout",
               "unavailable", "toolarge", "ended"}

\* What the service says of a prompt, in which step of whose script: the user
\* has confirmed or dismissed it, or the signal is not what it should be.
Completions == Threads \X {"confirmed", "dismissed", "invalid"} \X (1..5)

NewFrame ==
    [at      |-> 1,         \* position in the script
     net     |-> "none",    \* the bus call: not made, sent, or its reply
     item    |-> "none",    \* the item found: "none", "live", or "gone" since
     session |-> "none",    \* "none", "open", or "lost" when the service restarted
     prompt  |-> "none",    \* the prompt object: "none", "new", "shown", "done"
     match   |-> FALSE,     \* whether the bus has the match rule
     signals |-> <<>>,      \* completions in the signal channel
     conn    |-> "none",    \* the connection: "none", "open", "broken"
     res     |-> {},        \* the categories of the error to return
     val     |-> None,      \* what Get read
     done    |-> FALSE]     \* whether the operation took effect (auxiliary)

Init ==
    /\ store \in [Keys -> Values \cup {None}]
    /\ locked \in BOOLEAN
    /\ orphans = EmptyBag
    /\ pc = [t \in Threads |-> "idle"]
    /\ req = [t \in Threads |-> NoRequest]
    /\ ctx = [t \in Threads |-> "live"]
    /\ frame = [t \in Threads |-> NewFrame]
    /\ calls = 0 /\ faults = 0

TypeOK ==
    /\ store \in [Keys -> Values \cup {None}]
    /\ locked \in BOOLEAN
    /\ IsABag(orphans) /\ BagToSet(orphans) \subseteq Requests
    /\ pc \in [Threads -> Labels]
    /\ req \in [Threads -> Requests \cup {NoRequest}]
    /\ ctx \in [Threads -> {"live", "ended"}]
    /\ frame \in [Threads -> [at : 1..5, net : Replies,
                              item : {"none", "live", "gone"},
                              session : {"none", "open", "lost"},
                              prompt : {"none", "new", "shown", "done"},
                              match : BOOLEAN,
                              signals : Seq(Completions),
                              conn : {"none", "open", "broken"},
                              res : SUBSET Categories,
                              val : Values \cup {None}, done : BOOLEAN]]
    /\ calls \in 0..MaxCalls /\ faults \in 0..MaxFaults

-----------------------------------------------------------------------------
Key(t) == req[t].key
Stage(t) == Script[req[t].op][frame[t].at]

\* The service: the key's item is deleted, so that its object path denotes
\* nothing any more, or its value is set.
Deleted(k, frames) ==
    [t \in Threads |->
        IF Key(t) = k /\ frames[t].item = "live"
        THEN [frames[t] EXCEPT !.item = "gone"] ELSE frames[t]]

Write(q, frames, left) ==
    /\ store' = [store EXCEPT ![q.key] = q.val]
    /\ frame' = IF q.op = "delete" THEN Deleted(q.key, frames) ELSE frames
    /\ orphans' = IF q.op = "set" THEN left
                  ELSE [c \in {d \in DOMAIN left : d.op = "set" \/ d.key # q.key} |-> left[c]]

-----------------------------------------------------------------------------
(* The client.                                                               *)

Live(t) == ctx[t] = "live"

\* Mutant: an error of the bus reaches the caller without a category.
RawError(t, c) == IF ~Live(t) THEN {"ended"} ELSE {c}

\* The category of an error of the bus, by its name.
BusCategory(c) ==
    CASE c = "IsLocked"            -> "locked"
      [] c = "NoSuchObject"        -> "notfound"
      [] c = "NoReply"             -> "timeout"
      [] c = "denied"              -> "denied"
      [] c = "ServiceUnknown"      -> "unavailable"
      [] c = "LimitsExceeded"      -> "toolarge"
      [] c = "InteractionRequired" -> "interaction"
      [] OTHER                     -> "failure"

\* contextError comes before any classification of the bus error.
BackendError(t, c) == IF ~Live(t) THEN {"ended"} ELSE {BusCategory(c)}

\* Make the bus call that goes with a label.
Send(t, label, f) ==
    /\ pc' = [pc EXCEPT ![t] = label]
    /\ frame' = [frame EXCEPT ![t] =
                    [f EXCEPT !.net = IF f.conn = "broken" THEN "other" ELSE "sent"]]

Stop(t, label, f) ==
    /\ pc' = [pc EXCEPT ![t] = label]
    /\ frame' = [frame EXCEPT ![t] = [f EXCEPT !.net = "none"]]

\* An error that is on its way up takes none of the operation's variables along.
Forget(f) ==
    IF f.res = {} THEN f
    ELSE [f EXCEPT !.at = 1, !.item = "none", !.val = None, !.done = FALSE,
                   !.prompt = "none", !.signals = <<>>]

\* Mutant: the session is closed only after a success.
CarelessUnwind(t, f) ==
    IF f.session # "none" /\ f.res = {}
    THEN Send(t, "closeSession", f) ELSE Stop(t, "close", Forget(f))

\* The deferred closeSession and close: a session is not closed when the error
\* says that the context has ended.
Unwind(t, f) ==
    IF f.session # "none" /\ "ended" \notin f.res
    THEN Send(t, "closeSession", Forget(f)) ELSE Stop(t, "close", Forget(f))

Proceed(t, f) ==
    IF f.at < Len(Script[req[t].op])
    THEN Send(t, "call", [f EXCEPT !.at = @ + 1]) ELSE Unwind(t, f)

\* Whether the service may still execute the mutation of an operation that
\* stops waiting for it.
InFlight(t) ==
    /\ Stage(t) \in {"createItem", "deleteItem"}
    /\ frame[t].conn = "open" /\ frame[t].item # "gone"
    /\ \/ pc[t] = "call" /\ frame[t].net = "sent"
       \/ pc[t] = "prompt" /\ frame[t].prompt # "done"
       \/ pc[t] = "wait" /\ frame[t].prompt = "shown"

Orphaned(t) == IF InFlight(t) THEN orphans (+) SetToBag({req[t]}) ELSE orphans

\* connect looks at the context first.
Call(t) ==
    /\ pc[t] = "idle" /\ calls < MaxCalls
    /\ calls' = calls + 1
    /\ \E q \in Requests, c \in {"live", "ended"} :
        /\ req' = [req EXCEPT ![t] = q]
        /\ ctx' = [ctx EXCEPT ![t] = c]
        /\ IF c = "live" THEN Stop(t, "connect", NewFrame)
           ELSE Stop(t, "return", [NewFrame EXCEPT !.res = {"ended"}])
    /\ UNCHANGED <<daemonVars, faults>>

\* Dialing fails, or the authentication or Hello, to which the error of closing
\* the connection is joined.
ConnectErrors == {{"unavailable"}, {"denied"}, {"denied", "failure"}, {"failure"}}

Connect(t) ==
    /\ pc[t] = "connect"
    /\ \/ Send(t, "call", [frame[t] EXCEPT !.conn = "open"])
       \/ \E e \in ConnectErrors :
            Stop(t, "return", [frame[t] EXCEPT !.res = IF Live(t) THEN e ELSE {"ended"}])
    /\ UNCHANGED <<daemonVars, req, ctx, calls, faults>>

Failed(t, c) == Unwind(t, [frame[t] EXCEPT !.res = BackendError(t, c)])

\* Mutant: Set does not handle the prompt of CreateItem.
UnpromptedReply(t) ==
    /\ pc[t] = "call" /\ frame[t].net \notin {"none", "sent"}
    /\ LET c == frame[t].net IN
        CASE c = "ok"     -> Proceed(t, frame[t])
          [] c = "prompt" /\ Stage(t) = "createItem" -> Unwind(t, frame[t])
          [] c = "prompt" /\ Stage(t) # "createItem" -> Send(t, "addMatch", frame[t])
          [] c = "empty"  -> Unwind(t, [frame[t] EXCEPT !.res = {"notfound"}])
          [] OTHER        -> Failed(t, c)
    /\ UNCHANGED <<daemonVars, req, ctx, calls, faults>>

\* The reply to a call of the script.
Reply(t) ==
    /\ pc[t] = "call" /\ frame[t].net \notin {"none", "sent"}
    /\ LET c == frame[t].net IN
        CASE c = "ok"     -> Proceed(t, frame[t])
          [] c = "prompt" -> Send(t, "addMatch", frame[t])
          [] c = "empty"  -> Unwind(t, [frame[t] EXCEPT !.res = {"notfound"}])
          [] OTHER        -> Failed(t, c)
    /\ UNCHANGED <<daemonVars, req, ctx, calls, faults>>

\* handlePrompt: the channel is registered and the rule added before the prompt
\* is shown.
Subscribed(t) ==
    /\ pc[t] = "addMatch" /\ frame[t].net # "sent"
    /\ IF frame[t].net = "ok" THEN Send(t, "prompt", frame[t]) ELSE Failed(t, frame[t].net)
    /\ UNCHANGED <<daemonVars, req, ctx, calls, faults>>

\* Mutant: the rule is removed when the call that shows the prompt returns.
DeafShown(t) ==
    /\ pc[t] = "prompt" /\ frame[t].net # "sent"
    /\ IF frame[t].net = "ok" THEN Stop(t, "wait", [frame[t] EXCEPT !.match = FALSE])
       ELSE Send(t, "removeMatch",
                 [frame[t] EXCEPT !.res = BackendError(t, frame[t].net), !.prompt = "none"])
    /\ UNCHANGED <<daemonVars, req, ctx, calls, faults>>

Shown(t) ==
    /\ pc[t] = "prompt" /\ frame[t].net # "sent"
    /\ IF frame[t].net = "ok" THEN Stop(t, "wait", frame[t])
       ELSE Send(t, "removeMatch",
                 [frame[t] EXCEPT !.res = BackendError(t, frame[t].net), !.prompt = "none"])
    /\ UNCHANGED <<daemonVars, req, ctx, calls, faults>>

PromptError == [confirmed |-> {}, dismissed |-> {"interaction"}, invalid |-> {"failure"}]

\* Mutant: one channel serves the prompts of an operation, and is not emptied.
OldCompletion(t) ==
    /\ pc[t] = "wait" /\ frame[t].signals # <<>>
    /\ Send(t, "removeMatch",
            [frame[t] EXCEPT !.prompt = "none", !.res = PromptError[Head(frame[t].signals)[2]]])
    /\ UNCHANGED <<daemonVars, req, ctx, calls, faults>>

\* A completion arrives, or the channel is closed with the connection.
Completed(t) ==
    /\ pc[t] = "wait"
    /\ LET f == [frame[t] EXCEPT !.prompt = "none", !.signals = <<>>] IN
       \/ /\ frame[t].signals # <<>>
          /\ Send(t, "removeMatch", [f EXCEPT !.res = PromptError[Head(frame[t].signals)[2]]])
       \/ /\ frame[t].signals = <<>> /\ frame[t].conn = "broken"
          /\ Send(t, "removeMatch", [f EXCEPT !.res = BackendError(t, "other")])
    /\ UNCHANGED <<daemonVars, req, ctx, calls, faults>>

\* The call or the wait is given up because the context has ended.  The prompt
\* that is being shown goes with the connection.
Interrupted(t) ==
    /\ ~Live(t)
    /\ pc[t] \in {"connect", "call", "addMatch", "prompt", "wait"}
    /\ orphans' = Orphaned(t)
    /\ LET f == [frame[t] EXCEPT !.res = {"ended"}, !.prompt = "none", !.signals = <<>>] IN
        CASE pc[t] = "connect"            -> Stop(t, "return", f)
          [] pc[t] \in {"prompt", "wait"} -> Send(t, "removeMatch", f)
          [] OTHER                        -> Unwind(t, f)
    /\ UNCHANGED <<store, locked, req, ctx, calls, faults>>

\* Mutant: the cleanup calls have no timeout of their own.
Patient(t) == frame[t].net # "sent"

\* The cleanup calls run with their own timeout, which may always expire.
Bounded(t) == TRUE

\* The deferred RemoveMatchSignalContext: its error is dropped.
Unsubscribed(t) ==
    /\ pc[t] = "removeMatch" /\ Bounded(t)
    /\ LET f == [frame[t] EXCEPT !.match = FALSE] IN
        IF f.res = {} THEN Proceed(t, f) ELSE Unwind(t, f)
    /\ UNCHANGED <<daemonVars, req, ctx, calls, faults>>

\* closeSession: the error of the cleanup is joined to the result.
SessionClosed(t) ==
    /\ pc[t] = "closeSession" /\ Bounded(t)
    /\ Stop(t, "close",
            [frame[t] EXCEPT !.res = @ \cup
                CASE frame[t].net = "ok"   -> {}
                  [] frame[t].net = "sent" -> {"timeout"}
                  [] OTHER                 -> {BusCategory(frame[t].net)}])
    /\ UNCHANGED <<daemonVars, req, ctx, calls, faults>>

Close(t) ==
    /\ pc[t] = "close"
    /\ \E e \in {{}, {"failure"}} :
        Stop(t, "return", [frame[t] EXCEPT !.res = @ \cup e, !.conn = "none",
                                           !.session = "none", !.match = FALSE])
    /\ UNCHANGED <<daemonVars, req, ctx, calls, faults>>

Return(t) ==
    /\ pc[t] = "return"
    /\ req' = [req EXCEPT ![t] = NoRequest]
    /\ ctx' = [ctx EXCEPT ![t] = "live"]
    /\ Stop(t, "idle", NewFrame)
    /\ UNCHANGED <<daemonVars, calls, faults>>

\* The caller cancels, or the deadline passes, while it still matters.
EndContext(t) ==
    /\ pc[t] \notin {"idle", "close", "return"} /\ Live(t)
    /\ ctx' = [ctx EXCEPT ![t] = "ended"]
    /\ UNCHANGED <<daemonVars, pc, req, frame, calls, faults>>

-----------------------------------------------------------------------------
(* The service, the user and the session bus.                                *)

\* The service's reply to the call that t is waiting for.
Answer(f, c) == [f EXCEPT !.net = c]

Serves(t, label) == pc[t] = label /\ frame[t].net = "sent" /\ frame[t].conn = "open"

Tell(t, f) == frame' = [frame EXCEPT ![t] = f] /\ UNCHANGED <<store, orphans>>

Untouched(t) == UNCHANGED <<pc, req, ctx, calls, faults>>

NewPrompt(f) == Answer([f EXCEPT !.prompt = "new"], "prompt")

\* Unlock needs no prompt when the object is unlocked already or the service
\* can unlock it by itself.
ServeUnlock(t) ==
    /\ \/ Tell(t, Answer(frame[t], "ok")) /\ locked' = FALSE
       \/ locked /\ Tell(t, NewPrompt(frame[t])) /\ UNCHANGED locked
       \/ /\ Stage(t) = "unlockItem" /\ frame[t].item = "gone"
          /\ Tell(t, Answer(frame[t], "NoSuchObject")) /\ UNCHANGED locked

\* SearchItems also finds what is locked.
ServeFind(t) ==
    /\ Tell(t, IF store[Key(t)] = None THEN Answer(frame[t], "empty")
               ELSE Answer([frame[t] EXCEPT !.item = "live"], "ok"))
    /\ UNCHANGED locked

ServeOpenSession(t) ==
    Tell(t, Answer([frame[t] EXCEPT !.session = "open"], "ok")) /\ UNCHANGED locked

ServeGetSecret(t) ==
    /\ Tell(t, IF frame[t].item = "gone" THEN Answer(frame[t], "NoSuchObject")
               ELSE IF frame[t].session = "lost" THEN Answer(frame[t], "other")
               ELSE IF locked THEN Answer(frame[t], "IsLocked")
               ELSE Answer([frame[t] EXCEPT !.val = store[Key(t)], !.done = TRUE], "ok"))
    /\ UNCHANGED locked

\* CreateItem with replace, and Delete: at once, or after a prompt.
ServeMutation(t) ==
    /\ UNCHANGED locked
    /\ IF frame[t].item = "gone" THEN Tell(t, Answer(frame[t], "NoSuchObject"))
       ELSE IF frame[t].session = "lost" THEN Tell(t, Answer(frame[t], "other"))
       ELSE \/ locked /\ Tell(t, Answer(frame[t], "IsLocked"))
            \/ Tell(t, NewPrompt(frame[t]))
            \/ /\ ~locked
               /\ Write(req[t],
                        [frame EXCEPT ![t] = Answer([@ EXCEPT !.done = TRUE], "ok")], orphans)

ServeCall(t) ==
    /\ Serves(t, "call")
    /\ CASE Stage(t) \in {"unlock", "unlockItem"}     -> ServeUnlock(t)
         [] Stage(t) = "find"                         -> ServeFind(t)
         [] Stage(t) = "openSession"                  -> ServeOpenSession(t)
         [] Stage(t) = "getSecret"                    -> ServeGetSecret(t)
         [] Stage(t) \in {"createItem", "deleteItem"} -> ServeMutation(t)
    /\ Untouched(t)

\* The bus adds and removes the match rule; the service shows the prompt and
\* closes the session.
ServeOther(t) ==
    /\ \/ Serves(t, "addMatch") /\ Tell(t, Answer([frame[t] EXCEPT !.match = TRUE], "ok"))
       \/ Serves(t, "removeMatch") /\ Tell(t, Answer([frame[t] EXCEPT !.match = FALSE], "ok"))
       \/ /\ Serves(t, "prompt")
          /\ Tell(t, IF frame[t].prompt = "new"
                     THEN Answer([frame[t] EXCEPT !.prompt = "shown"], "ok")
                     ELSE Answer(frame[t], "other"))
       \/ /\ Serves(t, "closeSession")
          /\ Tell(t, IF frame[t].session = "open"
                     THEN Answer([frame[t] EXCEPT !.session = "none"], "ok")
                     ELSE Answer(frame[t], "other"))
    /\ UNCHANGED locked
    /\ Untouched(t)

\* Any call may fail instead, with no effect.  (That RemoveMatch fails makes no
\* difference to anybody.)
Refuse(t) ==
    /\ \E label \in Labels \ {"removeMatch"} : Serves(t, label)
    /\ \E c \in BusFaults : Tell(t, Answer(frame[t], c))
    /\ UNCHANGED locked
    /\ Untouched(t)

\* Mutant: the match rule does not name the prompt's object path.
HearsAll(u, t) == frame[u].match

\* Whether u receives the completion of t's prompt.
Hears(u, t) == u = t /\ frame[u].match

Heard(t, answer) ==
    [u \in Threads |->
        LET f == IF u = t THEN [frame[u] EXCEPT !.prompt = "done"] ELSE frame[u] IN
        IF Hears(u, t) THEN [f EXCEPT !.signals = Append(@, <<t, answer, frame[t].at>>)] ELSE f]

\* A prompt that is shown is answered.  What it was for happens before the
\* completion is sent; a prompt to delete a deleted item is dismissed.
Answered(t, no, yes) ==
    /\ frame[t].prompt = "shown" /\ pc[t] \in {"prompt", "wait"}
    /\ \/ /\ frame' = Heard(t, no)
          /\ UNCHANGED daemonVars
       \/ /\ Stage(t) \in {"unlock", "unlockItem"}
          /\ locked' = FALSE
          /\ frame' = Heard(t, yes)
          /\ UNCHANGED <<store, orphans>>
       \/ /\ Stage(t) \in {"createItem", "deleteItem"} /\ frame[t].item # "gone"
          /\ locked' = FALSE
          /\ Write(req[t], [Heard(t, yes) EXCEPT ![t].done = TRUE], orphans)

UserAnswers(t) == Answered(t, "dismissed", "confirmed") /\ Untouched(t)

-----------------------------------------------------------------------------
(* What happens to the service and the bus.                                  *)

Fault == faults < MaxFaults /\ faults' = faults + 1

\* Another client locks the collection.
LockCollection ==
    /\ Fault /\ ~locked
    /\ locked' = TRUE
    /\ UNCHANGED <<store, orphans, pc, req, ctx, frame, calls>>

\* The service restarts: items are kept and locked, sessions and prompts are
\* gone, and the bus answers the calls that were on their way.
Restart ==
    /\ Fault
    /\ locked' = TRUE
    /\ frame' = [t \in Threads |->
            [frame[t] EXCEPT
                !.session = IF @ = "open" THEN "lost" ELSE @,
                !.prompt  = IF @ \in {"new", "shown"} THEN "done" ELSE @,
                !.net     = IF @ = "sent" /\ pc[t] \in {"call", "prompt", "closeSession"}
                            THEN "NoReply" ELSE @]]
    /\ UNCHANGED <<store, orphans, pc, req, ctx, calls>>

\* A connection breaks: its calls fail and its signal channel is closed.
Break(t) ==
    /\ Fault /\ frame[t].conn = "open"
    /\ orphans' = Orphaned(t)
    /\ frame' = [frame EXCEPT ![t] =
            [frame[t] EXCEPT !.conn = "broken", !.prompt = "none",
                             !.session = IF @ = "open" THEN "lost" ELSE @,
                             !.net = IF @ = "sent" THEN "other" ELSE @]]
    /\ UNCHANGED <<store, locked, pc, req, ctx, calls>>

\* The service tells the client the user's answer in a signal without the body
\* that it should have.
Garble(t) ==
    /\ Fault /\ Answered(t, "invalid", "invalid")
    /\ UNCHANGED <<pc, req, ctx, calls>>

\* The service executes, or drops, what an ended connection had sent.
Late ==
    \E q \in BagToSet(orphans) :
        /\ \/ Write(q, frame, orphans (-) SetToBag({q}))
           \/ orphans' = orphans (-) SetToBag({q}) /\ UNCHANGED <<store, frame>>
        /\ UNCHANGED <<locked, pc, req, ctx, calls, faults>>

Client(t) ==
    \/ Connect(t) \/ Reply(t) \/ Subscribed(t) \/ Shown(t) \/ Completed(t) \/ Interrupted(t)
    \/ Unsubscribed(t) \/ SessionClosed(t) \/ Close(t) \/ Return(t)

Serve(t) == ServeCall(t) \/ ServeOther(t) \/ UserAnswers(t)

Next ==
    \/ \E t \in Threads : Call(t) \/ Client(t) \/ EndContext(t)
    \/ \E t \in Threads : Serve(t) \/ Refuse(t) \/ Break(t) \/ Garble(t)
    \/ LockCollection \/ Restart \/ Late

Spec == Init /\ [][Next]_vars

\* The program's goroutines run.  The bus, the service and the user may keep
\* silent forever.
FairSpec == Spec /\ \A t \in Threads : WF_vars(Client(t))

-----------------------------------------------------------------------------
(* Safety.                                                                   *)

\* A goroutine leaves the wait of handlePrompt without an error only because
\* the user confirmed the prompt it has shown, whatever other goroutines' prompts
\* and earlier prompts of its own operation are answered meanwhile (client.go: the
\* match rule names the prompt, and each prompt has a channel of its own).
PromptIsOwn ==
    [][\A t \in Threads :
          pc[t] = "wait" /\ pc'[t] = "removeMatch" /\ frame'[t].res = {}
              => Head(frame[t].signals) = <<t, "confirmed", frame[t].at>>]_vars

\* What a failing closeSession adds to the result.
CleanupErrors == {"timeout", "failure"} \cup {BusCategory(c) : c \in BusFaults}

\* The session is closed before the connection on every path: an operation that
\* leaves it to the end of the connection reports the end of its context or the
\* failure of the cleanup (closeSession).
SessionLeftIsReported ==
    \A t \in Threads :
        pc[t] = "close" /\ frame[t].session = "open"
            => frame[t].res \cap (CleanupErrors \cup {"ended"}) # {}

\* Once the caller's context has ended the operation returns, even if the bus,
\* the service and the user are silent: the cleanup has its own timeouts.
EndedReturns == \A t \in Threads : ctx[t] = "ended" ~> pc[t] = "idle"

\* The service serves every call, the user answers every prompt, and nothing
\* happens to either.
Served == (\A t \in Threads : WF_vars(Serve(t))) /\ [](faults = 0)

\* An operation whose calls and prompts are answered returns although its
\* context never ends: no completion of a prompt is lost (handlePrompt registers
\* the channel and the match rule before it shows the prompt).
AnsweredReturns == Served => \A t \in Threads : pc[t] = "connect" ~> pc[t] = "idle"
=============================================================================
