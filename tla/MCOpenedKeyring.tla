-------------------------- MODULE MCOpenedKeyring --------------------------
(* Values of four lengths, of which the kernel refuses the first and every
   backend but the fake the last; long has space around it that short has not.
   Windows names have up to three units, of which "n" stands for one that no
   name may have; services have no colon, and one key begins with one.        *)
EXTENDS OpenedKeyring

CONSTANTS empty, short, long, huge

Sizes == [v \in Values |-> CASE v = empty -> 0 [] v = short -> 1
                             [] v = long -> 2  [] v = huge -> 3]
Spaceless == [v \in Values |-> IF v = long THEN short ELSE v]

a == <<"a">>
aa == <<"a", "a">>
PlainKeys == {<<a, aa>>, <<aa, a>>, <<a, <<":", "a">>>>, <<a, a \o aa>>, <<a, <<"n">>>>}

MCKeysOf == [b \in Backends |->
    IF b = "windows-credential-manager" THEN PlainKeys ELSE {<<a, aa>>}]

MCValuesOf == [b \in Backends |->
    CASE b = "windows-credential-manager" -> {short, huge}
      [] b = "keychain"                   -> {short, long, huge}
      [] b = "kernel-keyring"             -> Values
      [] OTHER                            -> {short, long}]
=============================================================================
