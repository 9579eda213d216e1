----------------------------- MODULE NoKeyring -----------------------------
(***************************************************************************)
(* The native adapter of platforms without a credential store              *)
(* (internal/backend/native/other.go): an operation looks at its context   *)
(* and is refused.                                                         *)
(***************************************************************************)
EXTENDS Keyringer

VARIABLES pc, req, res

vars == <<pc, req, res>>

TypeOK ==
    /\ pc \in [Threads -> {"idle", "return"}]
    /\ req \in [Threads -> Requests \cup {NoRequest}]
    /\ res \in [Threads -> {"none", "ended", "unsupported"}]

Init ==
    /\ pc = [t \in Threads |-> "idle"]
    /\ req = [t \in Threads |-> NoRequest]
    /\ res = [t \in Threads |-> "none"]

Call(t) ==
    /\ pc[t] = "idle"
    /\ pc' = [pc EXCEPT ![t] = "return"]
    /\ \E q \in Requests : req' = [req EXCEPT ![t] = q]
    /\ \E e \in {"ended", "unsupported"} : res' = [res EXCEPT ![t] = e]

Return(t) ==
    /\ pc[t] = "return"
    /\ pc' = [pc EXCEPT ![t] = "idle"]
    /\ req' = [req EXCEPT ![t] = NoRequest]
    /\ res' = [res EXCEPT ![t] = "none"]

Next == \E t \in Threads : Call(t) \/ Return(t)

PhaseOf == [t \in Threads |-> IF pc[t] = "idle" THEN "idle" ELSE "failed"]
=============================================================================
