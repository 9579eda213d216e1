---------------------------- MODULE MCWsl2Bridge ----------------------------
(* Small instances of the WSL2 bridge for TLC.                               *)
EXTENDS Wsl2RefinesContract

CONSTANT huge   \* one of the values

\* The longest secret that fits, and one that is a byte longer.
MCSizeOf == [v \in Values |-> IF v = huge THEN maxSecretBytes + 1 ELSE maxSecretBytes]
=============================================================================
