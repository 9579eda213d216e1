------------------------- MODULE MCMountValidation -------------------------
(* Small mount tables: directories /a, /b and /a/a, a link /l to /a, an
   ordinary file system, a memory file system without directories and with an
   option of DrvFS, drives of Windows of three kinds, a 9p that is none, one
   whose line cannot be read, and one whose device number stat does not tell. *)
EXTENDS MountValidation, TLC

MCPaths == {<<>>, <<"a">>, <<"b">>, <<"a", "a">>, <<"l">>, <<"l", "a">>}
MCLinks == <<"l">> :> <<"a">>

Fs(type, source, options) ==
    [type |-> type, source |-> source, options |-> options,
     readable |-> TRUE, anonymous |-> FALSE]

Ext == Fs("ext4", "device", "rw")
Tmp == Fs("tmpfs", "tmpfs", "aname=drvfs")
DriveType == Fs("drvfs", "C:", "rw")
DriveSource == Fs("virtiofs", "drvfs", "rw")
Drive9p == Fs("9p", "C:", "aname=drvfs;path")
Other9p == Fs("9p", "share", "aname=other")
Odd == [Ext EXCEPT !.readable = FALSE]
Subvolume == [Fs("btrfs", "device", "rw") EXCEPT !.anonymous = TRUE]

MCKinds == {Ext, Tmp, DriveType, DriveSource, Drive9p, Other9p, Odd, Subvolume}
MCIsWindows == [k \in MCKinds |-> k \in {DriveType, DriveSource, Drive9p}]
MCHolds == [k \in MCKinds |-> IF k = Tmp THEN {} ELSE MCPaths \ {<<"l", "a">>}]
=============================================================================
