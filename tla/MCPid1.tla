--------------------------------- MODULE MCPid1 --------------------------------
(* A file, a directory with a link to another directory, which has a file,   *)
(* and a second file system with a link to the first file.  Two commands of  *)
(* any kind, with a power failure anywhere.                                   *)
EXTENDS Pid1

MCPaths == {<<>>, <<"f">>, <<"d">>, <<"d", "x">>, <<"d", "l">>, <<"e">>, <<"e", "x">>, <<"m">>, <<"m", "x">>, <<"m", "k">>}
MCDisk == [p \in MCPaths |->
  CASE p \in {<<>>, <<"d">>, <<"e">>, <<"m">>} -> Dir
    [] p = <<"f">> -> File(<<1, 2>>)
    [] p = <<"d", "l">> -> Link(<<"e">>)
    [] p = <<"m", "k">> -> Link(<<"f">>)
    [] p = <<"e", "x">> -> File(<<3>>)
    [] OTHER -> None]
MCOperands == {<<"f">>, <<"d">>, <<"d", "x">>, <<"d", "l">>, <<"d", "l", "x">>, <<"m", "x">>, <<"m", "k">>}
MCMount == <<"m">>
================================================================================
