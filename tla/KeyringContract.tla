-------------------------- MODULE KeyringContract --------------------------
(***************************************************************************)
(* What a Keyringer promises its callers: a map from keys to secrets whose *)
(* operations are linearizable.  Each call takes effect at one instant     *)
(* between Call and Return, or fails; a failed Set or Delete may or may    *)
(* not have taken effect, and never anything in between.  Get and Delete   *)
(* of a missing key answer "notfound".  A key whose entry the backend      *)
(* refuses to trust is Blocked: no operation on it takes effect.           *)
(***************************************************************************)
EXTENDS Keyringer

CONSTANT Blocked    \* content of an entry that fails the backend's validation

VARIABLES
    store,      \* the map: a value, None (absent) or Blocked for every key
    phase,      \* where each caller's operation stands
    call,       \* what each caller asked for
    answer      \* the answer of an operation that took effect

contractVars == <<store, phase, call, answer>>

Init ==
    /\ store \in [Keys -> Values \cup {None, Blocked}]
    /\ phase = [t \in Threads |-> "idle"]
    /\ call = [t \in Threads |-> NoRequest]
    /\ answer = [t \in Threads |-> None]

\* A call is accepted, or refused at once (invalid argument, ended context).
Call(t) ==
    /\ phase[t] = "idle"
    /\ \E p \in {"called", "failed"} : phase' = [phase EXCEPT ![t] = p]
    /\ \E q \in Requests : call' = [call EXCEPT ![t] = q]
    /\ UNCHANGED <<store, answer>>

\* The linearization point.  Set answers "ok", Delete answers "ok" when there
\* was something to delete, Get answers the value.
Take(t) ==
    LET q == call[t] IN
    /\ phase[t] = "called"
    /\ store[q.key] # Blocked
    /\ phase' = [phase EXCEPT ![t] = "applied"]
    /\ store' = IF q.op = "get" THEN store
                ELSE [store EXCEPT ![q.key] = q.val]
    /\ answer' = [answer EXCEPT ![t] =
                    IF q.op # "set" /\ store[q.key] = None THEN "notfound"
                    ELSE IF q.op = "get" THEN store[q.key] ELSE "ok"]
    /\ UNCHANGED call

\* An operation reports an error, whether or not it took effect.
Fail(t) ==
    /\ phase[t] \in {"called", "applied"}
    /\ phase' = [phase EXCEPT ![t] = "failed"]
    /\ answer' = [answer EXCEPT ![t] = None]
    /\ UNCHANGED <<store, call>>

Return(t) ==
    /\ phase[t] \in {"applied", "failed"}
    /\ phase' = [phase EXCEPT ![t] = "idle"]
    /\ call' = [call EXCEPT ![t] = NoRequest]
    /\ answer' = [answer EXCEPT ![t] = None]
    /\ UNCHANGED store

\* The process of some callers dies: their operations end where they stand.
Die(dead) ==
    /\ phase' = [t \in Threads |-> IF t \in dead THEN "idle" ELSE phase[t]]
    /\ call' = [t \in Threads |-> IF t \in dead THEN NoRequest ELSE call[t]]
    /\ answer' = [t \in Threads |-> IF t \in dead THEN None ELSE answer[t]]
    /\ UNCHANGED store

Next ==
    \/ \E t \in Threads : Call(t) \/ Take(t) \/ Fail(t) \/ Return(t)
    \/ \E dead \in SUBSET Threads : Die(dead)

ContractSpec == Init /\ [][Next]_contractVars
=============================================================================
