----------------------- MODULE MCWindowsCredentials -----------------------
(* Names with a colon in the service, and in the key.                        *)
EXTENDS WindowsCredentials

MCBlob == [v \in Values |-> IF v = "huge" THEN 3 ELSE 2]

a == <<"a">>

\* The application "a" with a key "a:a" and the application "a:a" with a key "a".
ColonKeys == {<<a, <<"a", ":", "a">>>>, <<<<"a", ":", "a">>, a>>}
=============================================================================
