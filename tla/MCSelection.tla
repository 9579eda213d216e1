---------------------------- MODULE MCSelection ----------------------------
(* Selection on every platform, with option lists that differ in what they
   set, overlay one another, and order candidates that are unregistered,
   repeated or unable to accept.                                             *)
EXTENDS Selection

MCSites == [pkg : {"root", "secure"}, wsl2 : BOOLEAN,
            platform : {"linux", "unix", "darwin", "windows", "other"}]

\* The fields set, and the order.
Option(set, list) == [service |-> "service" \in set, custom |-> "custom" \in set,
                      dir |-> "dir" \in set, backends |-> list]

MCOptionLists == {
    <<>>,
    <<Option({"service"}, <<>>)>>,
    <<Option({"custom"}, <<>>)>>,
    <<Option({"service", "dir"}, <<>>)>>,
    <<Option({"service"}, <<"filesystem">>)>>,
    <<Option({"service", "dir"}, <<"custom", "filesystem">>)>>,
    <<Option({"service"}, <<"secret-service", "kernel-keyring">>),
      Option({}, <<"kernel-keyring", "kernel-keyring", "filesystem">>)>>,
    <<Option({"dir"}, <<"keychain", "secret-service", "filesystem">>),
      Option({"service"}, <<>>)>>,
    <<Option({"service"}, <<"windows-credential-manager", "filesystem",
                            "kernel-keyring", "secret-service">>)>>}
=============================================================================
