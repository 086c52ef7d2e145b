--------------------------------- MODULE Shell ---------------------------------
(***************************************************************************)
(* The commands of PID 1 in NoneCompiled/main.c that change files, one     *)
(* system call per step, and the search for programs of run_shell.         *)
(***************************************************************************)
EXTENDS Files, Text

CONSTANTS
  Operands,  \* the paths that are typed
  Disk,      \* the tree at first
  CMDS,      \* bound: commands typed
  SEARCH     \* names tried for a program: four directories, each plain and .jex

ASSUME ShellAssumption ==
  Operands \subseteq Seq(STRING) /\ Disk \in [Paths -> Nodes] /\ IsTree(Disk)

VARIABLES
  pc,        \* where the shell is
  cmd,       \* the command: [op, a, b]
  pos,       \* cp: lines copied; search: names tried
  err,       \* a write failed
  kept,      \* rm -r: the entries it could not remove
  ncmds,     \* commands typed
  before, scope   \* history: the tree when the command began, where it may change

cmdvars == <<disk, cmd, pos, err, kept, ncmds, before, scope>>

NoCmd == [op |-> "none", a |-> <<>>, b |-> <<>>]

ShellInit ==
  /\ disk = Disk /\ cmd = NoCmd /\ pos = 0 /\ err = FALSE /\ kept = {} /\ ncmds = 0
  /\ before = disk /\ scope = {}

-----------------------------------------------------------------------------
(* What a command may change.                                               *)
Tree(p) == {p} \cup Below(p)
Scope(op, a, b) ==
  CASE op = "cp" -> {Real(b)}
    [] op = "mv" -> Tree(Named(a)) \cup Tree(Named(b)) \cup {Real(b)}
    [] op = "rm-r" -> Tree(Named(a))
    [] op = "touch" -> {Real(a)}
    [] op \in {"rm", "rmdir", "mkdir"} -> {Named(a)}
    [] OTHER -> {}

Begin(op, a, b) ==
  /\ pc = "prompt" /\ ncmds < CMDS
  /\ ncmds' = ncmds + 1 /\ cmd' = [op |-> op, a |-> a, b |-> b]
  /\ before' = disk /\ scope' = Scope(op, a, b)
  /\ pos' = 0 /\ err' = FALSE /\ kept' = {}

InCommand == UNCHANGED <<cmd, ncmds, before, scope>>
Prompt == pc' = "prompt"

(* The commands that are one system call: whether it fails is printed.      *)
IfPossible(can, change) == Prompt /\ IF can THEN change ELSE UNCHANGED disk
cmd_mkdir(a) == Begin("mkdir", a, <<>>) /\ IfPossible(CanMake(Named(a)), Set(Named(a), Dir))
cmd_rmdir(a) == Begin("rmdir", a, <<>>) /\ IfPossible(CanRemoveDir(Named(a)), Set(Named(a), None))
cmd_touch(a) == Begin("touch", a, <<>>) /\ IfPossible(CanMake(Real(a)), Set(Real(a), File(<<>>)))
unlink(a) == IF CanUnlink(Named(a)) THEN Set(Named(a), None) ELSE UNCHANGED disk
cmd_rm(a) == Begin("rm", a, <<>>) /\ Prompt /\ unlink(a)

(* cmd_cp, also called by cmd_mv when rename fails.                         *)
cmd_cp(a, b) == Begin("cp", a, b) /\ pc' = "open" /\ UNCHANGED disk
cmd_mv(a, b) ==
  /\ Begin("mv", a, b) /\ Fits(Named(a), Named(b))
  /\ IF CanRename(Named(a), Named(b)) THEN Prompt /\ Rename(Named(a), Named(b))
     ELSE pc' = "open" /\ UNCHANGED disk

(* The two fopen: the second empties the destination, also when it is the   *)
(* source.  On the other file system it may fail for any file.              *)
OpenBoth ==
  /\ pc = "open" /\ InCommand /\ UNCHANGED <<pos, kept>>
  /\ \/ /\ CanRead(Real(cmd.a)) /\ CanWrite(Real(cmd.b))
        /\ Set(Real(cmd.b), File(<<>>)) /\ pc' = "copy" /\ UNCHANGED err
     \/ /\ ~CanRead(Real(cmd.a)) \/ ~CanWrite(Real(cmd.b)) \/ OnMount(Real(cmd.b))
        /\ pc' = "copied" /\ err' = TRUE /\ UNCHANGED disk

(* One turn of the loop: a failed write is not noticed.                     *)
SourceData == NodeAt(Real(cmd.a)).data
MoreIfFull == Len(SourceData) >= pos + 2   \* mutant: the last block is short and left out
More == Len(SourceData) >= pos + 1
CopyBlock ==
  /\ pc = "copy" /\ More /\ InCommand
  /\ \/ /\ Set(Real(cmd.b), File(Append(NodeAt(Real(cmd.b)).data, SourceData[pos + 1])))
        /\ UNCHANGED err
     \/ err' = TRUE /\ UNCHANGED disk
  /\ pos' = pos + 1 /\ UNCHANGED <<pc, kept>>

EndCopy ==
  /\ pc = "copy" /\ ~More /\ InCommand
  /\ pc' = "copied" /\ UNCHANGED <<disk, pos, err, kept>>

(* Back in cmd_mv the source is unlinked, whatever cp has done.             *)
Copied ==
  /\ pc = "copied" /\ InCommand /\ Prompt
  /\ IF cmd.op = "mv" THEN unlink(cmd.a) ELSE UNCHANGED disk
  /\ UNCHANGED <<pos, err, kept>>

(* rm -r: the entries of a directory in any order and then the directory;   *)
(* lstat does not follow a link.  Any entry may resist.                     *)
EntriesOfLinked(p) == UNION {Tree(disk[q].to) : q \in {q \in Tree(p) : NodeAt(q).kind = "link"}} \cup Tree(p)  \* mutant: stat
EntriesOf(p) == Tree(p)
cmd_rm_r(a) == Begin("rm-r", a, <<>>) /\ pc' = "remove" /\ UNCHANGED disk
Left == {q \in EntriesOf(Named(cmd.a)) \ kept : NodeAt(q).kind /= "none"}
rm_recursive ==
  /\ pc = "remove" /\ InCommand /\ UNCHANGED <<pos, err>>
  /\ \/ \E q \in Left :
          /\ Children(q) \cap Left = {} /\ UNCHANGED pc
          /\ \/ (CanUnlink(q) \/ CanRemoveDir(q)) /\ Set(q, None) /\ UNCHANGED kept
             \/ kept' = kept \cup {q} /\ UNCHANGED disk
     \/ Left = {} /\ Prompt /\ UNCHANGED <<disk, kept>>

(* tail -n 0 divides by zero, and a negative count indexes what malloc did  *)
(* not return: the handler ends PID 1.                                      *)
TailOfNone(a) ==
  /\ Begin("tail", a, <<>>) /\ UNCHANGED disk
  /\ pc' = IF NodeAt(Real(a)).data = <<>> THEN "prompt" ELSE "dead"

-----------------------------------------------------------------------------
(* A command that is no builtin: the names in their order.  A name that     *)
(* access accepts, a directory too, is executed by a child; when fork       *)
(* fails the search goes on.                                                *)
Program == Begin("program", <<>>, <<>>) /\ pc' = "search" /\ UNCHANGED disk

Search ==
  /\ pc = "search" /\ pos < SEARCH /\ InCommand
  /\ \E executed \in BOOLEAN : pc' = IF executed THEN "prompt" ELSE pc
  /\ pos' = pos + 1 /\ UNCHANGED <<disk, err, kept>>

NotFound ==
  /\ pc = "search" /\ pos = SEARCH /\ InCommand
  /\ Prompt /\ UNCHANGED <<disk, pos, err, kept>>

Command ==
  \/ \E a \in Operands : cmd_mkdir(a) \/ cmd_rmdir(a) \/ cmd_touch(a) \/ cmd_rm(a) \/ cmd_rm_r(a) \/ TailOfNone(a)
  \/ \E a, b \in Operands : cmd_cp(a, b) \/ cmd_mv(a, b)
  \/ OpenBoth \/ CopyBlock \/ EndCopy \/ Copied \/ rm_recursive
  \/ Program \/ Search \/ NotFound

-----------------------------------------------------------------------------
(* A command changes nothing but what its operands name: rm -r does not     *)
(* leave its directory through a link, and neither a failed mv nor a crash  *)
(* in the middle touches anything else (main.c:252-332).                    *)
CommandsStayInside == \A q \in Paths \ scope : disk[q] = before[q]

(* Unless a system call of it failed, a copy has the source's lines, with   *)
(* the source as it was unless both are the same file, and after a mv what  *)
(* the file contained is somewhere (main.c:252-288), but for a mv onto a    *)
(* link on another file system that leads back to the source: rename fails, *)
(* fopen empties the source, and unlink removes it.                         *)
LinksBack == NodeAt(Named(cmd.b)).kind = "link" /\ Real(cmd.b) = cmd.a
CopyExact ==
  ~err =>
    /\ pc = "copied" /\ Real(cmd.a) /= Real(cmd.b) =>
         /\ NodeAt(Real(cmd.b)).data = before[Real(cmd.a)].data
         /\ NodeAt(Real(cmd.a)) = before[Real(cmd.a)]
    /\ pc = "prompt" /\ cmd.op = "mv" /\ cmd.a \in Paths /\ before[cmd.a].kind = "file" =>
         \/ \E p \in Paths : disk[p].kind = "file" /\ disk[p].data = before[cmd.a].data
         \/ LinksBack

================================================================================
