---------------------------- MODULE FakeKeyring ----------------------------
(***************************************************************************)
(* The in-memory keyring for tests of applications (secure/fake): a Go map *)
(* and two fields behind a read-write mutex, used from several goroutines. *)
(* Every operation runs init under the mutex and then takes it again.      *)
(***************************************************************************)
EXTENDS Keyringer

VARIABLES
    storage,    \* Keyring.storage: a value or None for every service and key
    service,    \* Keyring.Service: "" until init, or what the test has set
    failing,    \* whether Keyring.Err is set
    locked,     \* who holds the mutex: for writing, or for reading
    pc, req, answer

vars == <<storage, service, failing, locked, pc, req, answer>>

Services == {"", "fake", "given"}

TypeOK ==
    /\ storage \in [Services \X Keys -> Values \cup {None}]
    /\ service \in Services /\ failing \in BOOLEAN
    /\ locked \in [write : SUBSET Threads, read : SUBSET Threads]
    /\ pc \in [Threads -> {"idle", "init", "lock", "use", "delete", "return"}]
    /\ (\E t \in Threads : pc[t] \in {"lock", "use", "delete"}) => service # ""
    /\ req \in [Threads -> Requests \cup {NoRequest}]
    /\ answer \in [Threads -> Values \cup {None, "ok", "notfound", "error"}]

Init ==
    /\ storage = [e \in Services \X Keys |-> None]
    /\ service \in {"", "given"} /\ failing \in BOOLEAN
    /\ locked = [write |-> {}, read |-> {}]
    /\ pc = [t \in Threads |-> "idle"]
    /\ req = [t \in Threads |-> NoRequest]
    /\ answer = [t \in Threads |-> None]

\* The entry of an operation.
Key(t) == <<service, req[t].key>>

Go(t, label, a) == pc' = [pc EXCEPT ![t] = label] /\ answer' = [answer EXCEPT ![t] = a]

Call(t) ==
    /\ pc[t] = "idle"
    /\ req' \in {[req EXCEPT ![t] = q] : q \in Requests}
    /\ \/ Go(t, "init", None)
       \/ Go(t, "return", "error")  \* the context has ended
    /\ UNCHANGED <<storage, service, failing, locked>>

DefaultService == service' = IF service = "" THEN "fake" ELSE service

\* init, in a critical section of its own.
InitFields(t) ==
    /\ pc[t] = "init" /\ locked.write \cup locked.read = {}
    /\ DefaultService
    /\ Go(t, "lock", None)
    /\ UNCHANGED <<storage, failing, locked, req>>

\* Mutant: Delete takes the mutex for reading, since it looks the entry up first.
AllButSet(q) == q.op # "set"

ForReading(q) == q.op = "get"

Lock(t) ==
    /\ pc[t] = "lock" /\ locked.write = {}
    /\ IF ForReading(req[t]) THEN locked' = [locked EXCEPT !.read = @ \cup {t}]
       ELSE locked.read = {} /\ locked' = [locked EXCEPT !.write = {t}]
    /\ Go(t, "use", None)
    /\ UNCHANGED <<storage, service, failing, req>>

\* The body of an operation: Delete looks the entry up and then deletes it.
Use(t) ==
    LET q == req[t]  found == storage[Key(t)] IN
    /\ \/ /\ pc[t] = "use"
          /\ IF failing THEN Go(t, "return", "error")
             ELSE IF q.op # "set" /\ found = None THEN Go(t, "return", "notfound")
             ELSE IF q.op = "delete" THEN Go(t, "delete", None)
             ELSE Go(t, "return", IF q.op = "get" THEN found ELSE "ok")
          /\ storage' = IF q.op = "set" /\ ~failing
                        THEN [storage EXCEPT ![Key(t)] = q.val] ELSE storage
       \/ /\ pc[t] = "delete"
          /\ storage' = [storage EXCEPT ![Key(t)] = None]
          /\ Go(t, "return", "ok")
    /\ UNCHANGED <<service, failing, locked, req>>

\* The deferred unlock gives the mutex back on every path.
Return(t) ==
    /\ pc[t] = "return"
    /\ locked' = [write |-> locked.write \ {t}, read |-> locked.read \ {t}]
    /\ Go(t, "idle", None)
    /\ req' = [req EXCEPT ![t] = NoRequest]
    /\ UNCHANGED <<storage, service, failing>>

\* The test sets or clears Err while no operation runs.
SetErr ==
    /\ \A t \in Threads : pc[t] = "idle"
    /\ failing' = ~failing
    /\ UNCHANGED <<storage, service, locked, pc, req, answer>>

Step(t) == InitFields(t) \/ Lock(t) \/ Use(t) \/ Return(t)

Next == (\E t \in Threads : Call(t) \/ Step(t)) \/ SetErr

Spec == Init /\ [][Next]_vars

-----------------------------------------------------------------------------
(* Where an operation stands, for RemoteContract.                            *)

PhaseOf ==
    [t \in Threads |->
        CASE pc[t] = "idle" -> "idle"
          [] pc[t] \in {"init", "lock", "use", "delete"} -> "called"
          [] pc[t] = "return" -> IF answer[t] = "error" THEN "failed" ELSE "applied"]

AnswerOf == [t \in Threads |-> IF PhaseOf[t] = "applied" THEN answer[t] ELSE None]

\* What a key denotes, before and after init.
Named == IF service = "" THEN "fake" ELSE service

\* Nobody reads the Go map while it is written to, which would end the program.
MapIsNotRaced ==
    \A t, u \in Threads :
        t # u /\ pc[t] \in {"use", "delete"} /\ req[t].op # "get" => pc[u] \notin {"use", "delete"}
=============================================================================
