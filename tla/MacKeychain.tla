---------------------------- MODULE MacKeychain ----------------------------
(***************************************************************************)
(* macOS Keychain (internal/backend/darwin): every operation is one run of *)
(* the security command, which is killed when the context ends; what it    *)
(* has asked the keychain for may then still happen.  Set stores a value   *)
(* in base64 behind a prefix; Get also reads what others have stored: the  *)
(* hexadecimal form of an older library, and plain text.                   *)
(***************************************************************************)
EXTENDS Keyringer, Integers, Bags

CONSTANTS
    Trimmed,        \* each value, as text, without the space around it
    CommandLength,  \* the length of the command that sets each value
    commandLimit,
    Unreadable,     \* the value of an entry that cannot be decoded
    MaxCalls        \* operations in a behaviour

VARIABLES
    keychain,   \* the entry, or None, of every key
    orphans,    \* the bag of mutations that killed commands may still make
    pc,         \* where each goroutine stands
    req,        \* its request
    ctx,        \* its context: "live" or "ended"
    frame,      \* what its command has done, and the result
    calls       \* operations so far

vars == <<keychain, orphans, pc, req, ctx, frame, calls>>

Entries == [form : {"base64", "hex", "plain", "undecodable"}, val : Values]

NewFrame ==
    [done  |-> FALSE,   \* whether the command has done its work
     entry |-> None,    \* the entry it found
     res   |-> "none",  \* "none", "ok" or the category of the error
     val   |-> None]    \* what Get returns

Results == {"none", "ok", "notfound", "toolarge", "unavailable", "failure", "ended"}

TypeOK ==
    /\ keychain \in [Keys -> Entries \cup {None}]
    /\ IsABag(orphans) /\ BagToSet(orphans) \subseteq Requests
    /\ pc \in [Threads -> {"idle", "run", "return"}]
    /\ req \in [Threads -> Requests \cup {NoRequest}]
    /\ ctx \in [Threads -> {"live", "ended"}]
    /\ frame \in [Threads -> [done : BOOLEAN, entry : Entries \cup {None}, res : Results,
                              val : Values \cup {None}]]
    /\ calls \in 0..MaxCalls

Init ==
    /\ keychain \in [Keys -> Entries \cup {None}]
    /\ orphans = EmptyBag
    /\ pc = [t \in Threads |-> "idle"]
    /\ req = [t \in Threads |-> NoRequest]
    /\ ctx = [t \in Threads |-> "live"]
    /\ frame = [t \in Threads |-> NewFrame]
    /\ calls = 0

-----------------------------------------------------------------------------
(* Values in the keychain.                                                   *)

\* Mutant: Set stores a value as it is.
PlainEncoded(v) == [form |-> "plain", val |-> v]

\* Set's command.  security reads only commandLimit bytes of it: the rest of a
\* longer one would be missing from the entry.
Encoded(v) == [form |-> IF CommandLength[v] > commandLimit THEN "undecodable" ELSE "base64",
               val |-> v]

\* decodeValue, of the trimmed output of security.
decodeValue(e) == IF e.form = "plain" THEN Trimmed[e.val] ELSE e.val

\* The keychain executes a request.
Executed(q) ==
    [keychain EXCEPT ![q.key] = CASE q.op = "get"    -> @
                                  [] q.op = "set"    -> Encoded(q.val)
                                  [] q.op = "delete" -> None]

-----------------------------------------------------------------------------
Go(t, label, f) ==
    /\ pc' = [pc EXCEPT ![t] = label]
    /\ frame' = [frame EXCEPT ![t] = f]

Result(t, res) == Go(t, "return", [frame[t] EXCEPT !.res = res])

TooLong(q) == q.op = "set" /\ CommandLength[q.val] > commandLimit

Call(t) ==
    /\ pc[t] = "idle" /\ calls < MaxCalls
    /\ calls' = calls + 1
    /\ \E q \in Requests :
        /\ req' = [req EXCEPT ![t] = q]
        /\ \/ Go(t, "return", [NewFrame EXCEPT !.res = "ended"])
           \/ TooLong(q) /\ Go(t, "return", [NewFrame EXCEPT !.res = "toolarge"])
           \/ ~TooLong(q) /\ Go(t, "run", NewFrame)
    /\ UNCHANGED <<keychain, orphans, ctx>>

\* keychainError: an ended context wins over what a failed command says.
keychainError(t, category) == IF ctx[t] = "ended" THEN "ended" ELSE category

\* security does its work in the keychain, once.
SecurityExecutes(t) ==
    /\ pc[t] = "run" /\ ~frame[t].done
    /\ keychain' = Executed(req[t])
    /\ Go(t, "run", [frame[t] EXCEPT !.done = TRUE, !.entry = keychain[req[t].key]])
    /\ UNCHANGED <<orphans, req, ctx, calls>>

\* security ends with success, or because there is no such entry; a success is
\* one even if the context has ended meanwhile.
SecurityEnds(t) ==
    LET f == frame[t] IN
    /\ pc[t] = "run" /\ f.done
    /\ IF req[t].op # "set" /\ f.entry = None THEN Result(t, keychainError(t, "notfound"))
       ELSE IF req[t].op # "get" THEN Result(t, "ok")
       ELSE IF f.entry.form = "undecodable" THEN Result(t, "failure")
       ELSE Go(t, "return", [f EXCEPT !.res = "ok", !.val = decodeValue(f.entry)])
    /\ UNCHANGED <<keychain, orphans, req, ctx, calls>>

\* Errors of a command that has not done its work, or has and says otherwise.
CommandErrors == {"failure", "unavailable"}

\* security does not start, or fails.
SecurityFails(t) ==
    /\ pc[t] = "run"
    /\ \E e \in CommandErrors : Result(t, keychainError(t, e))
    /\ UNCHANGED <<keychain, orphans, req, ctx, calls>>

\* Mutant: security is started without the context.
NotKilled(t) == FALSE /\ UNCHANGED vars

\* security is killed; the keychain may still execute what it had asked for.
SecurityKilled(t) ==
    /\ pc[t] = "run" /\ ctx[t] = "ended"
    /\ orphans' = IF frame[t].done \/ req[t].op = "get" THEN orphans
                  ELSE orphans (+) SetToBag({req[t]})
    /\ Result(t, "ended")
    /\ UNCHANGED <<keychain, req, ctx, calls>>

Return(t) ==
    /\ pc[t] = "return"
    /\ req' = [req EXCEPT ![t] = NoRequest]
    /\ ctx' = [ctx EXCEPT ![t] = "live"]
    /\ Go(t, "idle", NewFrame)
    /\ UNCHANGED <<keychain, orphans, calls>>

EndContext(t) ==
    /\ pc[t] = "run" /\ ctx[t] = "live"
    /\ ctx' = [ctx EXCEPT ![t] = "ended"]
    /\ UNCHANGED <<keychain, orphans, pc, req, frame, calls>>

\* The keychain executes, or drops, what a killed command had asked for.
Late ==
    \E q \in BagToSet(orphans) :
        /\ orphans' = orphans (-) SetToBag({q})
        /\ keychain' = Executed(q) \/ UNCHANGED keychain
        /\ UNCHANGED <<pc, req, ctx, frame, calls>>

\* What does not wait for security, which may wait for the user for ever.
Client(t) == SecurityKilled(t) \/ Return(t)

Next ==
    \/ \E t \in Threads : Call(t) \/ Client(t) \/ EndContext(t)
    \/ \E t \in Threads : SecurityExecutes(t) \/ SecurityEnds(t) \/ SecurityFails(t)
    \/ Late

Spec == Init /\ [][Next]_vars

-----------------------------------------------------------------------------
(* Where an operation stands, for RemoteContract: it takes effect when the   *)
(* keychain executes it.  An entry that cannot be decoded counts as a value  *)
(* that no Get ever answers.                                                 *)

Value(e) ==
    IF e = None THEN None
    ELSE IF e.form = "undecodable" THEN Unreadable ELSE decodeValue(e)

PhaseOf ==
    [t \in Threads |->
        CASE pc[t] = "idle"   -> "idle"
          [] pc[t] = "run"    -> IF frame[t].done THEN "applied" ELSE "called"
          [] pc[t] = "return" -> IF frame[t].res \in {"ok", "notfound"} THEN "applied"
                                 ELSE "failed"]

AnswerOf ==
    [t \in Threads |->
        LET f == frame[t] IN
        IF PhaseOf[t] # "applied" THEN None
        ELSE IF pc[t] = "return" /\ f.res = "notfound" THEN "notfound"
        ELSE IF req[t].op # "set" /\ f.entry = None THEN "notfound"
        ELSE IF req[t].op = "get" THEN (IF pc[t] = "return" THEN f.val ELSE Value(f.entry))
        ELSE "ok"]
=============================================================================
