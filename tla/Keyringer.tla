----------------------------- MODULE Keyringer -----------------------------
(***************************************************************************)
(* The interface every backend implements (contract.Keyringer): callers    *)
(* run Get, Set and Delete on named keys from several goroutines.          *)
(***************************************************************************)
CONSTANTS
    Threads,    \* the goroutines that call a keyring
    Keys,       \* key names
    Values,     \* secret values
    None        \* no key, no value, no file, no name, no goroutine

ASSUME KeyringerAssumption ==
    /\ None \notin Keys \cup Values \cup Threads

\* The calls of the interface, with their arguments.
Requests == [op : {"get", "delete"}, key : Keys, val : {None}]
              \cup [op : {"set"}, key : Keys, val : Values]

NoRequest == [op |-> "none", key |-> None, val |-> None]
=============================================================================
