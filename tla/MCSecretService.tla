-------------------------- MODULE MCSecretService --------------------------
(* Small instances of the Secret Service client for TLC.                     *)
EXTENDS SecretRefinesContract, TLC

Interchangeable == Permutations(Threads) \cup Permutations(Values)
=============================================================================
