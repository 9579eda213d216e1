--------------------------- MODULE MCSecureLinux ---------------------------
(* Open of both packages on every platform: the options and orders of
   MCSelection, and orders that interleave the candidates of the secure package
   on Linux, on WSL2 and elsewhere.                                           *)
EXTENDS SecureLinux, MCSelection

LinuxSites == {s \in MCSites : LinuxGetter(s)}

Ordered(list) == <<Option({"service"}, list)>>

LinuxOptionLists == {
    <<>>,
    <<Option({"custom"}, <<>>)>>,
    Ordered(<<>>),
    Ordered(<<"filesystem", "windows-credential-manager", "kernel-keyring">>),
    Ordered(<<"secret-service", "windows-credential-manager", "secret-service">>)}

AllOptionLists == MCOptionLists \cup LinuxOptionLists

MCHelpers == {"absent", "error", "present"}
=============================================================================
