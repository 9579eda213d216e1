---------------------------- MODULE MCFsStorage ----------------------------
(***************************************************************************)
(* Small instances of FsStorage for TLC.                                   *)
(***************************************************************************)
EXTENDS FsRefinesContract, TLC

CONSTANTS t1, t2, p1, p2, s1, long, empty

OneProcess == [t \in Threads |-> p1]
TwoProcesses == [t \in Threads |-> IF t = t1 THEN p1 ELSE p2]
OneStripe == [k \in Keys |-> s1]
Sizes == [v \in Values |-> IF v = empty THEN 0 ELSE MaxLen]

\* Inodes and temporary names are interchangeable in every definition, and so
\* are the two processes with their goroutines.
Interchangeable == Permutations(Files) \cup Permutations(Temps)
Mirrored == Interchangeable \cup {(t1 :> t2 @@ t2 :> t1 @@ p1 :> p2 @@ p2 :> p1)}
=============================================================================
