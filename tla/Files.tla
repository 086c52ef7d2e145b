--------------------------------- MODULE Files ---------------------------------
(***************************************************************************)
(* The file system that the user programs call: a tree of directories,     *)
(* files and symbolic links with the rules of open, rename, unlink, rmdir  *)
(* and mkdir.  It is not in src/; these are the rules main.c relies on.    *)
(***************************************************************************)
EXTENDS Integers, Sequences, SequencesExt

CONSTANTS
  Paths,     \* the paths there can be: tuples of names, with the root <<>>
  Mount      \* what is below this path is another file system

(* There is a root, and the mount point is one of its directories.          *)
ASSUME FilesAssumption ==
  /\ Paths \subseteq Seq(STRING)
  /\ \A p \in Paths : \A k \in 0 .. Len(p) : SubSeq(p, 1, k) \in Paths
  /\ Mount \in Paths /\ Len(Mount) = 1

VARIABLE disk   \* the node at each path

None == [kind |-> "none", data |-> <<>>, to |-> <<>>]
Dir == [None EXCEPT !.kind = "dir"]
File(d) == [None EXCEPT !.kind = "file", !.data = d]
Link(p) == [None EXCEPT !.kind = "link", !.to = p]
Nodes == [kind : {"none", "dir", "file", "link"}, data : Seq(Nat), to : Seq(STRING)]

(* A tree: whatever is there is in a directory.                             *)
IsTree(d) ==
  /\ d[<<>>].kind = "dir" /\ d[Mount].kind = "dir"
  /\ \A p \in Paths : d[p].kind /= "none" => \A k \in 0 .. Len(p) - 1 : d[SubSeq(p, 1, k)].kind = "dir"

(* Where a path leads: the first link on the way, or at the end, is         *)
(* followed; links do not lead to links here.                               *)
Linked(p) == {k \in 1 .. Len(p) : SubSeq(p, 1, k) \in Paths /\ disk[SubSeq(p, 1, k)].kind = "link"}
Real(p) ==
  IF Linked(p) = {} THEN p
  ELSE LET k == Min(Linked(p))
       IN  disk[SubSeq(p, 1, k)].to \o SubSeq(p, k + 1, Len(p))
(* The last name itself is not followed by lstat, rename, unlink, rmdir.    *)
Named(p) == IF p = <<>> THEN p ELSE Append(Real(Front(p)), Last(p))

NodeAt(p) == IF p \in Paths THEN disk[p] ELSE None
Below(p) == {q \in Paths : Len(q) > Len(p) /\ SubSeq(q, 1, Len(p)) = p}
Children(p) == {q \in Below(p) : disk[q].kind /= "none"}
HasParent(p) == p /= <<>> /\ p \in Paths /\ NodeAt(Front(p)).kind = "dir"
OnMount(p) == p \in Below(Mount)

(* open for reading succeeds on a directory, whose read fails.              *)
CanRead(p) == NodeAt(p).kind \in {"file", "dir"}
CanWrite(p) == HasParent(p) /\ NodeAt(p).kind \in {"file", "none"}
CanUnlink(p) == NodeAt(p).kind \in {"file", "link"}
CanRemoveDir(p) == p /= <<>> /\ p /= Mount /\ NodeAt(p).kind = "dir" /\ Children(p) = {}
CanMake(p) == HasParent(p) /\ NodeAt(p).kind = "none"

Set(p, node) == disk' = [disk EXCEPT ![p] = node]

(* rename: within a file system, not into itself, and onto something of     *)
(* the same kind that is not a full directory.                              *)
Moved(p, from, to) == to \o SubSeq(p, Len(from) + 1, Len(p))
CanRename(from, to) ==
  /\ NodeAt(from).kind /= "none" /\ HasParent(to) /\ to \notin Below(from)
  /\ from \notin {<<>>, Mount} /\ to /= Mount
  /\ OnMount(from) <=> OnMount(to)
  /\ \/ NodeAt(to).kind = "none"
     \/ NodeAt(from).kind /= "dir" /\ NodeAt(to).kind /= "dir"
     \/ NodeAt(from).kind = "dir" /\ NodeAt(to).kind = "dir" /\ (from = to \/ Children(to) = {})
Rename(from, to) ==
  disk' = IF from = to THEN disk
          ELSE [q \in Paths |->
                 IF q = to \/ q \in Below(to)
                 THEN NodeAt(from \o SubSeq(q, Len(to) + 1, Len(q)))
                 ELSE IF q = from \/ q \in Below(from) THEN None ELSE disk[q]]

(* Bounds: no command uses a name there is no room for, or moves a link to  *)
(* where another one leads.                                                 *)
Fits(from, to) ==
  /\ \A q \in Children(from) : Moved(q, from, to) \in Paths
  /\ \A q \in {from} \cup Children(from) :
       NodeAt(q).kind = "link" =>
         \A r \in Paths : disk[r].kind = "link" => disk[r].to /= Moved(q, from, to)
================================================================================
