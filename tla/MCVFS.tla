-------------------------------- MODULE MCVFS ---------------------------------
(* Boot without a disk, from a disk with PID 1 at its second path and an    *)
(* empty directory at its first one, from one whose /sbin/main is itself a  *)
(* directory, and from one without PID 1, where the shell types paths of    *)
(* files, directories and nothing until the heap has no room for a node.    *)
EXTENDS VFS

Entry(name, parent, dir, length) ==
  [name |-> name, parent |-> parent, dir |-> dir, length |-> length]
Top == Entry("/", RootInode, TRUE, 0)

NoImage == [k \in {} |-> Top]

InitInBin == 0 :> Top @@ 1 :> Entry("sbin", 0, TRUE, 0) @@ 2 :> Entry("bin", 0, TRUE, 0)
             @@ 3 :> Entry("main", 2, FALSE, 1) @@ 4 :> Entry("dev", 0, TRUE, 0)
InitIsDir == 0 :> Top @@ 1 :> Entry("sbin", 0, TRUE, 0) @@ 2 :> Entry("main", 1, TRUE, 1)
             @@ 3 :> Entry("bin", 0, TRUE, 0) @@ 4 :> Entry("main", 3, FALSE, 1)
InitIsJex == 0 :> Top @@ 1 :> Entry("sbin", 0, TRUE, 0) @@ 2 :> Entry("main.jex", 1, FALSE, 1)
NoInit == 0 :> Top @@ 1 :> Entry("bin", 0, TRUE, 0) @@ 2 :> Entry("dev", 0, TRUE, 1)
          @@ 3 :> Entry("bin", 1, FALSE, 2) @@ 4 :> Entry("note", 2, FALSE, 0)

MCImages == {NoImage, InitInBin, InitIsDir, InitIsJex, NoInit}
MCPaths == {<<>>, <<"dev">>, <<"bin", "bin">>, <<"bin">>, <<"dev", "note">>, <<"none">>,
            <<"dev", "none">>, <<"bin", "bin", "bin">>}
\* Slot 3 has one function, which answers to every number.
Function(slot, func, multi) == [slot |-> slot, func |-> func, multi |-> multi]
MCPciFunctions ==
  "00:00.0" :> Function(0, 0, FALSE) @@ "00:01.3" :> Function(1, 3, TRUE) @@ "00:01.0" :> Function(1, 0, TRUE)
  @@ "00:03.1" :> Function(3, 1, FALSE) @@ "00:03.0" :> Function(3, 0, FALSE)
==============================================================================
