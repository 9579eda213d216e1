--------------------------- MODULE RemoteContract ---------------------------
(***************************************************************************)
(* What a Keyringer promises when the store belongs to another process,    *)
(* reached through messages: KeyringContract, except that a Set or Delete  *)
(* that reported an error may still be on its way and take effect later,   *)
(* once, or be lost.  A call that answered "ok" or "notfound" is not late. *)
(* Entries of a volatile store, such as one that ends with the login       *)
(* session, may also disappear by themselves.                              *)
(***************************************************************************)
EXTENDS KeyringContract, Bags

VARIABLES
    late,       \* the bag of mutations still on their way
    volatile    \* whether entries may disappear by themselves

remoteVars == <<contractVars, late, volatile>>

RemoteInit == Init /\ late = EmptyBag /\ volatile \in BOOLEAN

\* The goroutines in T looked a key in K up before it was removed and come to use
\* it only now: their Get or Delete will answer "notfound".
MissAny(T, K) ==
    \A u \in T : phase[u] = "called" /\ call[u].op # "set" /\ call[u].key \in K

Miss(T, q) == MissAny(T, IF q.op = "delete" THEN {q.key} ELSE {})

RemoteTake(t, T) ==
    LET q == call[t] IN
    /\ phase[t] = "called"
    /\ t \notin T /\ Miss(T, q)
    /\ phase' = [u \in Threads |-> IF u \in T \cup {t} THEN "applied" ELSE phase[u]]
    /\ store' = IF q.op = "get" THEN store ELSE [store EXCEPT ![q.key] = q.val]
    /\ answer' = [u \in Threads |->
                    IF u \in T THEN "notfound"
                    ELSE IF u # t THEN answer[u]
                    ELSE IF q.op # "set" /\ store[q.key] = None THEN "notfound"
                    ELSE IF q.op = "get" THEN store[q.key] ELSE "ok"]
    /\ late' \sqsubseteq late
    /\ UNCHANGED call

RemoteFail(t) ==
    /\ Fail(t)
    /\ late' \sqsubseteq IF phase[t] = "called" /\ call[t].op # "get"
                         THEN late (+) SetToBag({call[t]}) ELSE late

TakeLate(q, T) ==
    /\ late' \sqsubseteq late (-) SetToBag({q})
    /\ Miss(T, q)
    /\ phase' = [u \in Threads |-> IF u \in T THEN "applied" ELSE phase[u]]
    /\ store' = [store EXCEPT ![q.key] = q.val]
    /\ answer' = [u \in Threads |-> IF u \in T THEN "notfound" ELSE answer[u]]
    /\ UNCHANGED call

Vanish(K, T) ==
    /\ volatile
    /\ MissAny(T, K)
    /\ store' = [k \in Keys |-> IF k \in K THEN None ELSE store[k]]
    /\ phase' = [u \in Threads |-> IF u \in T THEN "applied" ELSE phase[u]]
    /\ answer' = [u \in Threads |-> IF u \in T THEN "notfound" ELSE answer[u]]
    /\ UNCHANGED <<call, late>>

RemoteNext ==
    /\ UNCHANGED volatile
    /\ \/ \E t \in Threads : (Call(t) \/ Return(t)) /\ UNCHANGED late
       \/ \E t \in Threads : RemoteFail(t) \/ \E T \in SUBSET Threads : RemoteTake(t, T)
       \/ \E q \in BagToSet(late), T \in SUBSET Threads : TakeLate(q, T)
       \/ \E K \in SUBSET Keys, T \in SUBSET Threads : Vanish(K, T)
       \/ late' \sqsubseteq late /\ UNCHANGED contractVars

RemoteContractSpec == RemoteInit /\ [][RemoteNext]_remoteVars
=============================================================================
