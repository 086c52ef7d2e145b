------------------------------ MODULE Pid1Proofs ------------------------------
(* What the commands of the shell change and keep, for any tree, any links   *)
(* and any number of commands, and the login after a setup that power        *)
(* failures cut short, for any number of them; what tail, uniq and sort      *)
(* print of any file.                                                        *)
EXTENDS Pid1, SequenceTheorems, FiniteSetTheorems, FunctionTheorems, WellFoundedInduction, TLAPS

Path == Seq(STRING)
Ops == {"none", "mkdir", "rmdir", "touch", "rm", "rm-r", "cp", "mv", "tail", "program"}
ShellType ==
  /\ disk \in [Paths -> Nodes] /\ before \in [Paths -> Nodes]
  /\ cmd \in [op : Ops, a : Path, b : Path] /\ pos \in Nat /\ err \in BOOLEAN

\* What a running command is going to change is in its scope.  When rm -r has
\* removed the link by which its directory was named, nothing has that name.
Copying == pc \in {"open", "copy", "copied"}
Gone(p) == \A q \in Tree(p) : NodeAt(q).kind = "none"
InScope ==
  /\ pc \in {"open", "copy"} => Real(cmd.b) \in scope
  /\ Copying /\ cmd.op = "mv" => Named(cmd.a) \in scope
  /\ pc = "remove" => cmd.op = "rm-r" /\ (Tree(Named(cmd.a)) \subseteq scope \/ Gone(Named(cmd.a)))

\* How far a copy has come.
SameLinks(d, e) == \A p \in Paths : d[p].kind = "link" \/ e[p].kind = "link" => d[p] = e[p]
CopiedSoFar ==
  LET a == Real(cmd.a)
      b == Real(cmd.b)
  IN  /\ a \in Paths /\ b \in Paths /\ disk[b].kind = "file"
      /\ a /= b => /\ disk[a] = before[a] /\ pos <= Len(before[a].data)
                   /\ disk[b].data = SubSeq(before[a].data, 1, pos)
CopyInv ==
  /\ Copying => cmd.op \in {"cp", "mv"} /\ SameLinks(disk, before)
  /\ pc = "open" => disk = before /\ pos = 0
  /\ pc = "copy" => Real(cmd.b) \in Paths /\ disk[Real(cmd.b)].kind = "file"
  /\ ~err /\ pc \in {"copy", "copied"} => CopiedSoFar
  /\ ~err /\ pc = "copied" => ~More

\* A file that is moved: it is its own name, and its destination is elsewhere.
MovesFile == ~err /\ cmd.op = "mv" /\ cmd.a \in Paths /\ before[cmd.a].kind = "file"
Saved == \E p \in Paths : disk[p].kind = "file" /\ disk[p].data = before[cmd.a].data
MoveInv ==
  MovesFile =>
    IF Copying THEN Real(cmd.a) = cmd.a /\ Named(cmd.a) = cmd.a /\ (Real(cmd.b) /= cmd.a \/ LinksBack)
               ELSE Saved \/ LinksBack

ShellInv == ShellType /\ IsTree(disk) /\ CommandsStayInside /\ InScope /\ CopyInv /\ MoveInv

-----------------------------------------------------------------------------
(* Paths. *)

LEMMA PathsAre == Paths \subseteq Path /\ \A p \in Paths : Len(p) \in Nat
BY FilesAssumption DEF Path

LEMMA RootIsPath == <<>> \in Paths
<1>1. Mount \in Paths /\ 0 \in 0 .. Len(Mount)
  BY FilesAssumption
<1>2. SubSeq(Mount, 1, 0) = <<>>
  BY SubSeqEmpty
<1> QED BY <1>1, <1>2, FilesAssumption

LEMMA PrefixFacts ==
  ASSUME NEW p \in Path, NEW k \in 0 .. Len(p)
  PROVE  /\ SubSeq(p, 1, k) \in Path /\ Len(SubSeq(p, 1, k)) = k
         /\ \A i \in 1 .. k : SubSeq(p, 1, k)[i] = p[i]
<1>1. Len(p) \in Nat /\ k \in Nat /\ \A i \in 1 .. k : p[i] \in STRING
  BY DEF Path
<1>2. /\ SubSeq(p, 1, k) \in Seq(STRING)
      /\ Len(SubSeq(p, 1, k)) = IF 1 <= k THEN k - 1 + 1 ELSE 0
      /\ \A i \in 1 .. k - 1 + 1 : SubSeq(p, 1, k)[i] = p[1 + i - 1]
  BY <1>1, SubSeqProperties
<1>3. Len(SubSeq(p, 1, k)) = k
  BY <1>1, <1>2
<1>4. ASSUME NEW i \in 1 .. k PROVE SubSeq(p, 1, k)[i] = p[i]
  <2>1. i \in 1 .. k - 1 + 1 /\ 1 + i - 1 = i
    BY <1>1
  <2> QED BY <1>2, <2>1
<1> QED BY <1>2, <1>3, <1>4 DEF Path

LEMMA PathsEqual ==
  ASSUME NEW p \in Path, NEW q \in Path, Len(p) = Len(q), \A i \in 1 .. Len(p) : p[i] = q[i]
  PROVE  p = q
BY SeqEqual DEF Path

LEMMA PrefixOfPrefix ==
  ASSUME NEW p \in Path, NEW k \in 0 .. Len(p), NEW j \in 0 .. k
  PROVE  SubSeq(SubSeq(p, 1, k), 1, j) = SubSeq(p, 1, j)
<1> DEFINE r == SubSeq(p, 1, k)
<1>1. r \in Path /\ Len(r) = k /\ \A i \in 1 .. k : r[i] = p[i]
  BY PrefixFacts
<1>2. Len(p) \in Nat /\ j \in 0 .. Len(p) /\ j \in 0 .. Len(r)
  BY <1>1 DEF Path
<1> HIDE DEF r
<1>3. /\ SubSeq(r, 1, j) \in Path /\ Len(SubSeq(r, 1, j)) = j
      /\ \A i \in 1 .. j : SubSeq(r, 1, j)[i] = r[i]
  BY <1>1, <1>2, PrefixFacts
<1>4. /\ SubSeq(p, 1, j) \in Path /\ Len(SubSeq(p, 1, j)) = j
      /\ \A i \in 1 .. j : SubSeq(p, 1, j)[i] = p[i]
  BY <1>2, PrefixFacts
<1>5. \A i \in 1 .. j : SubSeq(r, 1, j)[i] = SubSeq(p, 1, j)[i]
  BY <1>1, <1>3, <1>4
<1> QED BY <1>3, <1>4, <1>5, PathsEqual DEF r

\* Being in a tree, and what a path of it has for a prefix.
LEMMA TreeFacts ==
  ASSUME NEW p \in Path, NEW q \in Paths
  PROVE  q \in Tree(p) <=> Len(p) <= Len(q) /\ SubSeq(q, 1, Len(p)) = p
<1>1. q \in Path /\ Len(p) \in Nat /\ Len(q) \in Nat
  BY PathsAre DEF Path
<1>2. SubSeq(q, 1, Len(q)) = q
  BY <1>1, SubSeqFull DEF Path
<1>3. q = p => Len(p) <= Len(q) /\ SubSeq(q, 1, Len(p)) = p
  BY <1>1, <1>2
<1>4. Len(p) = Len(q) /\ SubSeq(q, 1, Len(p)) = p => q = p
  BY <1>1, <1>2
<1>5. q \in Tree(p) <=> q = p \/ (Len(q) > Len(p) /\ SubSeq(q, 1, Len(p)) = p)
  BY DEF Tree, Below
<1> QED BY <1>1, <1>3, <1>4, <1>5

LEMMA PrefixInTree ==
  ASSUME NEW p \in Path, NEW q \in Paths, NEW k \in 0 .. Len(q), SubSeq(q, 1, k) \in Tree(p)
  PROVE  q \in Tree(p)
<1>1. q \in Path /\ Len(p) \in Nat /\ Len(q) \in Nat /\ k \in Nat
  BY PathsAre DEF Path
<1>2. SubSeq(q, 1, k) \in Paths /\ Len(SubSeq(q, 1, k)) = k
  BY <1>1, PrefixFacts, FilesAssumption
<1>3. Len(p) <= k /\ SubSeq(SubSeq(q, 1, k), 1, Len(p)) = p
  BY <1>2, TreeFacts
<1>4. SubSeq(q, 1, Len(p)) = p
  BY <1>1, <1>3, PrefixOfPrefix
<1> QED BY <1>1, <1>3, <1>4, TreeFacts

\* The path q of the tree of `to' is a copy of a path of the tree of `from'.
Original(q, from, to) == from \o SubSeq(q, Len(to) + 1, Len(q))

LEMMA OriginalFacts ==
  ASSUME NEW from \in Path, NEW to \in Path, NEW q \in Path,
         Len(to) <= Len(q)
  PROVE  LET s == Original(q, from, to) IN
         /\ s \in Path /\ Len(s) = Len(from) + (Len(q) - Len(to))
         /\ \A i \in 1 .. Len(from) : s[i] = from[i]
         /\ \A i \in 1 .. Len(q) - Len(to) : s[Len(from) + i] = q[Len(to) + i]
<1> DEFINE lf == Len(from)
           lt == Len(to)
           lq == Len(q)
           rest == SubSeq(q, lt + 1, lq)
           s == Original(q, from, to)
<1>1. lf \in Nat /\ lt \in Nat /\ lq \in Nat /\ lt <= lq
  BY DEF Path
<1>2. \A i \in lt + 1 .. lq : q[i] \in STRING
  BY <1>1 DEF Path
<1> HIDE DEF lf, lt, lq
<1>3. /\ rest \in Seq(STRING)
      /\ Len(rest) = IF lt + 1 <= lq THEN lq - (lt + 1) + 1 ELSE 0
      /\ \A i \in 1 .. lq - (lt + 1) + 1 : rest[i] = q[lt + 1 + i - 1]
  BY <1>1, <1>2, SubSeqProperties
<1> HIDE DEF rest
<1>4. rest \in Path /\ Len(rest) = lq - lt
  BY <1>1, <1>3 DEF Path
<1>5. ASSUME NEW i \in 1 .. lq - lt PROVE rest[i] = q[lt + i]
  <2>1. i \in 1 .. lq - (lt + 1) + 1 /\ lt + 1 + i - 1 = lt + i
    BY <1>1
  <2> QED BY <1>1, <1>3, <2>1
<1>6. s = from \o rest
  BY DEF Original, rest, lt, lq
<1> HIDE DEF s
<1>7. /\ s \in Path /\ Len(s) = lf + (lq - lt)
      /\ \A i \in 1 .. lf + (lq - lt) : s[i] = IF i <= lf THEN from[i] ELSE rest[i - lf]
  <2>1. from \in Seq(STRING) /\ rest \in Seq(STRING)
    BY <1>4 DEF Path
  <2>2. /\ from \o rest \in Seq(STRING) /\ Len(from \o rest) = Len(from) + Len(rest)
        /\ \A i \in 1 .. Len(from) + Len(rest) :
             (from \o rest)[i] = IF i <= Len(from) THEN from[i] ELSE rest[i - Len(from)]
    BY <2>1, ConcatProperties
  <2>3. Len(from) = lf /\ Len(rest) = lq - lt
    BY <1>4 DEF lf
  <2> QED BY <1>6, <2>2, <2>3 DEF Path
<1>8. ASSUME NEW i \in 1 .. lf PROVE s[i] = from[i]
  BY <1>1, <1>7
<1>9. ASSUME NEW i \in 1 .. lq - lt PROVE s[lf + i] = q[lt + i]
  <2>1. lf + i \in 1 .. lf + (lq - lt) /\ ~(lf + i <= lf) /\ (lf + i) - lf = i
    BY <1>1
  <2> QED BY <1>5, <1>7, <2>1
<1> QED BY <1>7, <1>8, <1>9 DEF lf, lt, lq, s

PrefixCopied(q, k, from, to) ==
  /\ SubSeq(SubSeq(q, 1, k), 1, Len(to)) = to
  /\ Original(SubSeq(q, 1, k), from, to) = SubSeq(Original(q, from, to), 1, Len(from) + (k - Len(to)))
LEMMA OriginalOfPrefix ==
  ASSUME NEW from \in Path, NEW to \in Path, NEW q \in Path,
         Len(to) <= Len(q), SubSeq(q, 1, Len(to)) = to,
         NEW k \in Nat, Len(to) <= k, k <= Len(q)
  PROVE  PrefixCopied(q, k, from, to)
<1> DEFINE r == SubSeq(q, 1, k)
           n == Len(from) + (k - Len(to))
           s == Original(q, from, to)
           t == Original(r, from, to)
<1>1. Len(from) \in Nat /\ Len(to) \in Nat /\ Len(q) \in Nat /\ n \in Nat
  BY DEF Path
<1>2. k \in 0 .. Len(q) /\ Len(to) \in 0 .. k
  BY <1>1
<1>3. r \in Path /\ Len(r) = k /\ \A i \in 1 .. k : r[i] = q[i]
  BY <1>2, PrefixFacts
<1>4. SubSeq(r, 1, Len(to)) = to
  BY <1>2, PrefixOfPrefix
<1> HIDE DEF r
<1>5. /\ t \in Path /\ Len(t) = Len(from) + (Len(r) - Len(to))
      /\ \A i \in 1 .. Len(from) : t[i] = from[i]
      /\ \A i \in 1 .. Len(r) - Len(to) : t[Len(from) + i] = r[Len(to) + i]
  BY <1>3, <1>4, OriginalFacts
<1>6. /\ s \in Path /\ Len(s) = Len(from) + (Len(q) - Len(to))
      /\ \A i \in 1 .. Len(from) : s[i] = from[i]
      /\ \A i \in 1 .. Len(q) - Len(to) : s[Len(from) + i] = q[Len(to) + i]
  BY OriginalFacts
<1> HIDE DEF s, t
<1>7. n \in 0 .. Len(s)
  BY <1>1, <1>6
<1> HIDE DEF n
<1>8. /\ SubSeq(s, 1, n) \in Path /\ Len(SubSeq(s, 1, n)) = n
      /\ \A i \in 1 .. n : SubSeq(s, 1, n)[i] = s[i]
  BY <1>6, <1>7, PrefixFacts
<1>9. Len(t) = n
  BY <1>3, <1>5 DEF n
<1>10. ASSUME NEW i \in 1 .. n PROVE t[i] = s[i]
  <2>1. CASE i \in 1 .. Len(from)
    BY <1>5, <1>6, <2>1
  <2>2. CASE i \notin 1 .. Len(from)
    <3> DEFINE j == i - Len(from)
    <3>1. j \in Nat /\ j >= 1 /\ j <= k - Len(to)
      BY <1>1, <2>2 DEF n
    <3>2. i = Len(from) + j /\ j \in 1 .. k - Len(to) /\ j \in 1 .. Len(q) - Len(to)
          /\ Len(to) + j \in 1 .. k
      BY <1>1, <3>1
    <3>3. t[i] = r[Len(to) + j] /\ s[i] = q[Len(to) + j]
      BY <1>3, <1>5, <1>6, <3>2
    <3> QED BY <1>3, <3>2, <3>3
  <2> QED BY <2>1, <2>2
<1>11. t = SubSeq(s, 1, n)
  BY <1>5, <1>8, <1>9, <1>10, PathsEqual
<1> QED BY <1>4, <1>11 DEF PrefixCopied, r, s, t, n

-----------------------------------------------------------------------------
(* Where paths lead. *)

\* A non-empty set of numbers has a smallest one.
LEMMA LeastExists ==
  ASSUME NEW S \in SUBSET Nat, S /= {}
  PROVE  \E x \in S : \A y \in S : x <= y
<1>1. PICK x \in S : \A y \in S : ~ (<<y, x>> \in OpToRel(<, Nat))
  BY NatLessThanWellFounded, WFMin
<1>2. \A y \in S : y < x => <<y, x>> \in OpToRel(<, Nat)
  BY Zenon DEF OpToRel
<1>3. \A y \in S : x <= y
  <2> TAKE y \in S
  <2>1. ~(y < x)
    BY <1>1, <1>2
  <2> QED BY <2>1
<1> QED BY <1>3

LEMMA MinExists ==
  ASSUME NEW S \in SUBSET Nat, S /= {}
  PROVE  Min(S) \in S
BY LeastExists DEF Min

\* The first link on a path, if there is one.
LEMMA FirstLink ==
  ASSUME NEW p \in Path, Linked(p) /= {}
  PROVE  LET k == Min(Linked(p)) IN
         /\ k \in 1 .. Len(p) /\ SubSeq(p, 1, k) \in Paths /\ disk[SubSeq(p, 1, k)].kind = "link"
         /\ Real(p) = disk[SubSeq(p, 1, k)].to \o SubSeq(p, k + 1, Len(p))
<1>1. Linked(p) \in SUBSET Nat
  BY DEF Linked
<1>2. Min(Linked(p)) \in Linked(p)
  BY <1>1, MinExists
<1> QED BY <1>2 DEF Linked, Real

LEMMA NoLink ==
  ASSUME NEW p, Linked(p) = {}
  PROVE  Real(p) = p
BY DEF Real

LEMMA RestIsPath ==
  ASSUME NEW p \in Path, NEW k \in 1 .. Len(p)
  PROVE  SubSeq(p, k + 1, Len(p)) \in Path
<1>1. Len(p) \in Nat /\ k + 1 \in Int /\ \A i \in k + 1 .. Len(p) : p[i] \in STRING
  BY DEF Path
<1> QED BY <1>1, SubSeqProperties DEF Path

LEMMA RealType ==
  ASSUME disk \in [Paths -> Nodes], NEW p \in Path
  PROVE  Real(p) \in Path
<1>1. CASE Linked(p) = {}
  BY <1>1, NoLink
<1>2. CASE Linked(p) /= {}
  <2> DEFINE k == Min(Linked(p))
             to == disk[SubSeq(p, 1, k)].to
             rest == SubSeq(p, k + 1, Len(p))
  <2>1. k \in 1 .. Len(p) /\ SubSeq(p, 1, k) \in Paths /\ Real(p) = to \o rest
    BY <1>2, FirstLink
  <2>2. to \in Path
    BY <2>1 DEF Nodes, Path
  <2> HIDE DEF k
  <2>3. rest \in Path
    BY <2>1, RestIsPath
  <2> HIDE DEF to, rest
  <2> QED BY <2>1, <2>2, <2>3, ConcatProperties DEF Path
<1> QED BY <1>1, <1>2

\* A path that is not empty, without its last name.
LEMMA FrontFacts ==
  ASSUME NEW p \in Path, p /= <<>>
  PROVE  /\ Len(p) - 1 \in 0 .. Len(p) /\ Front(p) = SubSeq(p, 1, Len(p) - 1)
         /\ Front(p) \in Path /\ Len(Front(p)) = Len(p) - 1
         /\ Last(p) = p[Len(p)] /\ Last(p) \in STRING
<1>1. Len(p) \in Nat /\ Len(p) /= 0
  BY EmptySeq DEF Path
<1>2. Len(p) - 1 \in 0 .. Len(p) /\ Len(p) \in 1 .. Len(p)
  BY <1>1
<1>3. p[Len(p)] \in STRING
  BY <1>2 DEF Path
<1> QED BY <1>2, <1>3, PrefixFacts DEF Front, Last

LEMMA NamedType ==
  ASSUME disk \in [Paths -> Nodes], NEW p \in Path
  PROVE  Named(p) \in Path
<1>1. CASE p = <<>>
  BY <1>1 DEF Named
<1>2. CASE p /= <<>>
  <2>1. Real(Front(p)) \in Path /\ Last(p) \in STRING
    BY <1>2, FrontFacts, RealType
  <2> QED BY <1>2, <2>1, AppendProperties DEF Named, Path
<1> QED BY <1>1, <1>2

\* While the links stay, so does what paths lead to.
LEMMA SameReal ==
  ASSUME NEW p \in Path, SameLinks(disk', disk)
  PROVE  Real(p)' = Real(p)
<1>1. Linked(p)' = Linked(p)
  BY DEF Linked, SameLinks
<1>2. CASE Linked(p) = {}
  BY <1>1, <1>2 DEF Real
<1>3. CASE Linked(p) /= {}
  <2> DEFINE k == Min(Linked(p))
  <2>1. SubSeq(p, 1, k) \in Paths /\ disk[SubSeq(p, 1, k)].kind = "link"
    BY <1>3, FirstLink
  <2>2. disk'[SubSeq(p, 1, k)] = disk[SubSeq(p, 1, k)]
    BY <2>1 DEF SameLinks
  <2> QED BY <1>1, <1>3, <2>2 DEF Real
<1> QED BY <1>2, <1>3

LEMMA SameNamed ==
  ASSUME NEW p \in Path, SameLinks(disk', disk)
  PROVE  Named(p)' = Named(p)
<1>1. CASE p = <<>>
  BY <1>1 DEF Named
<1>2. CASE p /= <<>>
  <2>1. Real(Front(p))' = Real(Front(p))
    BY <1>2, FrontFacts, SameReal
  <2> QED BY <1>2, <2>1 DEF Named
<1> QED BY <1>1, <1>2

-----------------------------------------------------------------------------
(* The tree stays a tree. *)

LEMMA NodeFacts ==
  ASSUME disk \in [Paths -> Nodes], NEW p
  PROVE  /\ NodeAt(p) \in Nodes
         /\ p \in Paths => NodeAt(p) = disk[p]
         /\ NodeAt(p).kind /= "none" => p \in Paths
BY EmptySeq DEF NodeAt, Nodes, None

\* All directories above a path are there when the nearest is.
LEMMA ParentDirs ==
  ASSUME disk \in [Paths -> Nodes], IsTree(disk), NEW p, HasParent(p), NEW k \in 0 .. Len(p) - 1
  PROVE  p \in Paths /\ p /= <<>> /\ SubSeq(p, 1, k) \in Paths /\ disk[SubSeq(p, 1, k)].kind = "dir"
<1>1. p \in Paths /\ p /= <<>> /\ NodeAt(Front(p)).kind = "dir"
  BY DEF HasParent
<1>2. p \in Path /\ Len(p) \in Nat
  BY <1>1, PathsAre
<1>3. /\ Len(p) - 1 \in 0 .. Len(p) /\ Front(p) = SubSeq(p, 1, Len(p) - 1)
      /\ Len(Front(p)) = Len(p) - 1
  BY <1>1, <1>2, FrontFacts
<1>4. Front(p) \in Paths /\ disk[Front(p)].kind = "dir"
  BY <1>1, NodeFacts
<1>5. SubSeq(p, 1, k) \in Paths
  BY <1>1, <1>2, FilesAssumption
<1>6. CASE k = Len(p) - 1
  BY <1>1, <1>3, <1>4, <1>5, <1>6
<1>7. CASE k /= Len(p) - 1
  <2>1. k \in 0 .. Len(Front(p)) - 1 /\ k \in 0 .. Len(p) - 1
    BY <1>2, <1>3, <1>7
  <2>2. SubSeq(Front(p), 1, k) = SubSeq(p, 1, k)
    BY <1>2, <1>3, <2>1, PrefixOfPrefix
  <2>3. disk[SubSeq(Front(p), 1, k)].kind = "dir"
    BY <1>4, <2>1 DEF IsTree
  <2> QED BY <1>1, <1>5, <2>2, <2>3
<1> QED BY <1>6, <1>7

LEMMA NoChildren ==
  ASSUME disk \in [Paths -> Nodes], IsTree(disk), NEW p \in Paths, disk[p].kind /= "dir"
  PROVE  Children(p) = {} /\ p /= <<>> /\ p /= Mount
<1>1. ASSUME NEW q \in Children(p) PROVE FALSE
  <2>1. q \in Paths /\ Len(q) > Len(p) /\ SubSeq(q, 1, Len(p)) = p /\ disk[q].kind /= "none"
    BY <1>1 DEF Children, Below
  <2>2. Len(p) \in Nat /\ Len(q) \in Nat
    BY <2>1, PathsAre
  <2>3. Len(p) \in 0 .. Len(q) - 1
    BY <2>1, <2>2
  <2> QED BY <2>1, <2>3 DEF IsTree
<1> QED BY <1>1 DEF IsTree

\* A node is put where there is a directory around it and nothing below.
LEMMA SetTree ==
  ASSUME disk \in [Paths -> Nodes], IsTree(disk), NEW p \in Paths, NEW node \in Nodes, Set(p, node),
         Children(p) = {}, p /= <<>>, p /= Mount, node.kind /= "none" => HasParent(p)
  PROVE  disk' \in [Paths -> Nodes] /\ IsTree(disk')
<1>1. disk' = [disk EXCEPT ![p] = node]
  BY DEF Set
<1>2. disk' \in [Paths -> Nodes] /\ disk'[p] = node /\ \A q \in Paths : q /= p => disk'[q] = disk[q]
  BY <1>1
<1>3. disk'[<<>>].kind = "dir" /\ disk'[Mount].kind = "dir"
  BY <1>2, RootIsPath, FilesAssumption DEF IsTree
<1>4. ASSUME NEW q \in Paths, disk'[q].kind /= "none", NEW k \in 0 .. Len(q) - 1
      PROVE  disk'[SubSeq(q, 1, k)].kind = "dir"
  <2> DEFINE r == SubSeq(q, 1, k)
  <2>1. q \in Path /\ Len(q) \in Nat /\ k \in 0 .. Len(q) /\ k \in Nat /\ k < Len(q)
    BY PathsAre
  <2>2. r \in Paths /\ Len(r) = k
    BY <2>1, PrefixFacts, FilesAssumption
  <2>3. CASE q = p
    <3>1. disk[r].kind = "dir"
      BY <1>2, <1>4, <2>3, ParentDirs
    <3>2. r /= p
      BY <2>1, <2>2, <2>3
    <3> HIDE DEF r
    <3> QED BY <1>2, <2>2, <3>1, <3>2 DEF r
  <2>4. CASE q /= p
    <3>1. disk[q].kind /= "none"
      BY <1>2, <1>4, <2>4
    <3>2. disk[r].kind = "dir"
      BY <3>1 DEF IsTree
    <3>3. r /= p
      <4>1. r = p => q \in Children(p)
        BY <2>1, <2>2, <3>1 DEF Children, Below
      <4> QED BY <4>1
    <3> HIDE DEF r
    <3> QED BY <1>2, <2>2, <3>2, <3>3 DEF r
  <2> QED BY <2>3, <2>4
<1> QED BY <1>2, <1>3, <1>4 DEF IsTree

\* What rename leaves at each path.
LEMMA RenameNodes ==
  ASSUME disk \in [Paths -> Nodes], NEW from \in Path, NEW to \in Path, from /= to, Rename(from, to)
  PROVE  /\ disk' \in [Paths -> Nodes]
         /\ \A q \in Paths :
              disk'[q] = IF q \in Tree(to) THEN NodeAt(Original(q, from, to))
                         ELSE IF q \in Tree(from) THEN None ELSE disk[q]
<1>1. disk' = [q \in Paths |->
                 IF q \in Tree(to) THEN NodeAt(Original(q, from, to))
                 ELSE IF q \in Tree(from) THEN None ELSE disk[q]]
  BY Zenon DEF Rename, Tree, Original
<1>2. None \in Nodes
  BY EmptySeq DEF None, Nodes
<1>3. \A q : NodeAt(q) \in Nodes
  BY NodeFacts
<1>4. ASSUME NEW q \in Paths
      PROVE  (IF q \in Tree(to) THEN NodeAt(Original(q, from, to))
              ELSE IF q \in Tree(from) THEN None ELSE disk[q]) \in Nodes
  BY <1>2, <1>3
<1> HIDE DEF Original
<1> QED BY <1>1, <1>4

LEMMA RenameTree ==
  ASSUME disk \in [Paths -> Nodes], IsTree(disk), NEW from \in Path, NEW to \in Path,
         CanRename(from, to), Rename(from, to)
  PROVE  disk' \in [Paths -> Nodes] /\ IsTree(disk')
<1>1. CASE from = to
  BY <1>1 DEF Rename
<1>2. CASE from /= to
  <2>1. /\ disk' \in [Paths -> Nodes]
        /\ \A q \in Paths :
             disk'[q] = IF q \in Tree(to) THEN NodeAt(Original(q, from, to))
                        ELSE IF q \in Tree(from) THEN None ELSE disk[q]
    BY <1>2, RenameNodes
  <2>2. /\ HasParent(to) /\ to \in Paths /\ from \in Paths /\ to \notin Tree(from)
        /\ from \notin {<<>>, Mount} /\ to \notin {<<>>, Mount}
    <3>1. HasParent(to) /\ to \in Paths /\ to /= <<>>
      BY DEF CanRename, HasParent
    <3>2. from \in Paths /\ from \notin {<<>>, Mount} /\ to /= Mount
      <4>1. NodeAt(from).kind /= "none" /\ from \notin {<<>>, Mount} /\ to /= Mount
        BY DEF CanRename
      <4> QED BY <4>1, NodeFacts
    <3>3. to \notin Tree(from)
      BY <1>2 DEF CanRename, Tree
    <3> QED BY <3>1, <3>2, <3>3
  <2>3. Len(from) \in Nat /\ Len(to) \in Nat /\ Len(from) > 0 /\ Len(to) > 0
    BY <2>2, EmptySeq DEF Path
  \* The root and the mount point are in neither tree.
  <2>4. ASSUME NEW p \in {from, to} PROVE <<>> \notin Tree(p) /\ Mount \notin Tree(p)
    <3>1. Len(p) > 0 /\ p \in Path /\ p /= Mount /\ Len(p) \in Nat
      BY <2>2, <2>3
    <3>2. Len(<<>>) = 0
      BY EmptySeq
    <3>3. Mount \in Tree(p) => Len(p) <= Len(Mount) /\ SubSeq(Mount, 1, Len(p)) = p
      BY <3>1, TreeFacts, FilesAssumption
    <3>4. SubSeq(Mount, 1, 1) = Mount
      <4>1. Mount \in Seq(STRING) /\ Len(Mount) = 1
        BY FilesAssumption
      <4> QED BY <4>1, SubSeqFull
    <3>5. Len(p) <= Len(Mount) => Len(p) = 1
      <4>1. Len(Mount) = 1
        BY FilesAssumption
      <4> DEFINE l == Len(p)
      <4>2. l \in Nat /\ l > 0
        BY <3>1
      <4> HIDE DEF l
      <4>3. l <= 1 => l = 1
        BY <4>2
      <4> QED BY <4>1, <4>3 DEF l
    <3>6. <<>> \in Tree(p) => Len(p) <= Len(<<>>)
      BY <3>1, TreeFacts, RootIsPath
    <3> QED BY <3>1, <3>2, <3>3, <3>4, <3>5, <3>6
  <2>5. disk'[<<>>].kind = "dir" /\ disk'[Mount].kind = "dir"
    BY <2>1, <2>4, RootIsPath, FilesAssumption DEF IsTree
  <2>6. ASSUME NEW q \in Paths, disk'[q].kind /= "none", NEW k \in 0 .. Len(q) - 1
        PROVE  disk'[SubSeq(q, 1, k)].kind = "dir"
    <3> DEFINE r == SubSeq(q, 1, k)
    <3>1. q \in Path /\ Len(q) \in Nat /\ k \in 0 .. Len(q) /\ k \in Nat /\ k < Len(q)
      BY PathsAre
    <3>2. r \in Paths /\ Len(r) = k /\ r \in Path
      BY <3>1, PrefixFacts, FilesAssumption
    <3>3. CASE q \in Tree(to)
      <4>1. Len(to) <= Len(q) /\ SubSeq(q, 1, Len(to)) = to
        BY <3>3, TreeFacts
      <4> DEFINE s == Original(q, from, to)
                 n == Len(from) + (k - Len(to))
      <4>2. NodeAt(s).kind /= "none"
        BY <2>1, <2>6, <3>3
      <4>3. s \in Paths /\ disk[s].kind /= "none" /\ Len(s) = Len(from) + (Len(q) - Len(to))
        BY <3>1, <4>1, <4>2, NodeFacts, OriginalFacts
      <4>4. CASE Len(to) <= k
        <5>1. SubSeq(r, 1, Len(to)) = to /\ Original(r, from, to) = SubSeq(s, 1, n)
          <6>1. k \in Nat /\ k <= Len(q) /\ q \in Path
            BY <3>1
          <6>2. PrefixCopied(q, k, from, to)
            BY <4>1, <4>4, <6>1, OriginalOfPrefix
          <6> QED BY <6>2 DEF PrefixCopied
        <5>2. r \in Tree(to)
          BY <3>2, <4>4, <5>1, TreeFacts
        <5>3. n \in 0 .. Len(s) - 1 /\ n \in 0 .. Len(s)
          BY <2>3, <3>1, <4>3, <4>4
        <5>4. disk[SubSeq(s, 1, n)].kind = "dir" /\ SubSeq(s, 1, n) \in Paths
          BY <4>3, <5>3, FilesAssumption DEF IsTree
        <5>5. disk'[r] = NodeAt(Original(r, from, to))
          BY <2>1, <3>2, <5>2
        <5>6. NodeAt(SubSeq(s, 1, n)).kind = "dir"
          BY <5>4, NodeFacts
        <5> QED BY <5>1, <5>5, <5>6
      <4>5. CASE k < Len(to)
        <5>1. k \in 0 .. Len(to) - 1 /\ k \in 0 .. Len(to)
          BY <2>3, <3>1, <4>5
        <5>2. r = SubSeq(to, 1, k)
          BY <2>3, <3>1, <4>1, <5>1, PrefixOfPrefix
        <5>3. disk[r].kind = "dir"
          BY <2>2, <5>1, <5>2, ParentDirs
        <5>4. r \notin Tree(to)
          <6>1. r \in Tree(to) => Len(to) <= Len(r)
            BY <3>2, TreeFacts
          <6> HIDE DEF r
          <6> QED BY <2>3, <3>1, <3>2, <4>5, <6>1
        <5>5. r \notin Tree(from)
          BY <2>2, <5>1, <5>2, PrefixInTree
        <5> QED BY <2>1, <3>2, <5>3, <5>4, <5>5
      <4> QED BY <2>3, <3>1, <4>4, <4>5
    <3>4. CASE q \notin Tree(to)
      <4>1. q \notin Tree(from) /\ disk[q].kind /= "none"
        BY <2>1, <2>6, <3>4 DEF None
      <4>2. r \notin Tree(to) /\ r \notin Tree(from)
        BY <3>1, <3>4, <4>1, PrefixInTree
      <4>3. disk[r].kind = "dir"
        BY <4>1 DEF IsTree
      <4> QED BY <2>1, <3>2, <4>2, <4>3
    <3> QED BY <3>3, <3>4
  <2> QED BY <2>1, <2>5, <2>6 DEF IsTree
<1> QED BY <1>1, <1>2

-----------------------------------------------------------------------------
(* Files and directories are what their paths lead to. *)

\* The element that is below all others is the minimum.
LEMMA MinIs ==
  ASSUME NEW S \in SUBSET Nat, NEW k \in S, \A x \in S : k <= x
  PROVE  Min(S) = k
<1>1. \A x \in S : (\A y \in S : x <= y) => x = k
  OBVIOUS
<1> QED BY <1>1 DEF Min

LEMMA AppendFront ==
  ASSUME NEW p \in Path, p /= <<>>
  PROVE  Append(Front(p), Last(p)) = p
<1> DEFINE n == Len(p)
<1>1. n \in 1 .. Len(p) /\ n \in Nat
  BY EmptySeq DEF Path
<1>2. SubSeq(p, 1, n) = SubSeq(p, 1, n - 1) \o <<p[n]>>
  <2>1. p \in Seq(STRING) /\ 1 \in 1 .. Len(p) /\ n \in 1 .. Len(p)
    BY <1>1 DEF Path
  <2> HIDE DEF n
  <2> QED BY <2>1, SubSeqRecursiveSecond
<1>3. SubSeq(p, 1, n) = p
  BY SubSeqFull DEF Path
<1>4. Front(p) = SubSeq(p, 1, n - 1) /\ Last(p) = p[n] /\ Front(p) \in Seq(STRING) /\ Last(p) \in STRING
  BY FrontFacts DEF Path
<1> HIDE DEF n
<1>5. Append(Front(p), Last(p)) = Front(p) \o <<Last(p)>>
  BY <1>4, AppendIsConcat
<1> QED BY <1>2, <1>3, <1>4, <1>5

\* The links on the way to the directory of a path are those on its own way.
LEMMA FrontLinked ==
  ASSUME NEW p \in Path, p /= <<>>
  PROVE  Linked(Front(p)) = Linked(p) \ {Len(p)}
<1>1. Len(p) \in Nat /\ Len(Front(p)) = Len(p) - 1 /\ Front(p) = SubSeq(p, 1, Len(p) - 1) /\ Len(p) - 1 \in 0 .. Len(p)
  BY FrontFacts DEF Path
<1>2. ASSUME NEW k \in 1 .. Len(p) - 1
      PROVE  SubSeq(Front(p), 1, k) = SubSeq(p, 1, k)
  <2>1. k \in 0 .. Len(p) - 1
    BY <1>1
  <2> QED BY <1>1, <2>1, PrefixOfPrefix
<1>3. \A k : k \in 1 .. Len(p) - 1 <=> k \in 1 .. Len(p) /\ k /= Len(p)
  BY <1>1
<1> QED BY <1>1, <1>2, <1>3 DEF Linked

LEMMA AppendToConcat ==
  ASSUME NEW S, NEW s \in Seq(S), NEW t \in Seq(S), NEW x \in S
  PROVE  s \o Append(t, x) = Append(s \o t, x)
<1>1. s \o t \in Seq(S) /\ <<x>> \in Seq(S)
  BY ConcatProperties
<1>0. Append(t, x) = t \o <<x>>
  BY AppendIsConcat
<1>2. Append(s \o t, x) = (s \o t) \o <<x>>
  BY <1>1, AppendIsConcat
<1> QED BY <1>0, <1>1, <1>2, ConcatAssociative

LEMMA RestOfFront ==
  ASSUME NEW p \in Path, p /= <<>>, NEW k \in 1 .. Len(Front(p))
  PROVE  /\ SubSeq(p, k + 1, Len(p)) = Append(SubSeq(Front(p), k + 1, Len(Front(p))), Last(p))
         /\ SubSeq(Front(p), k + 1, Len(Front(p))) \in Path
<1> DEFINE n == Len(p)
           f == Front(p)
           m == k + 1
<1>1. /\ n \in Nat /\ Len(f) = n - 1 /\ f = SubSeq(p, 1, n - 1) /\ n - 1 \in 0 .. Len(p)
      /\ f \in Path /\ Last(p) = p[n] /\ p \in Seq(STRING) /\ Last(p) \in STRING
  BY FrontFacts DEF Path
<1>2. m \in 1 .. Len(p) /\ n \in m .. Len(p) /\ m \in Int /\ n - 1 \in Int /\ m >= 2
  BY <1>1
<1>3. SubSeq(p, m, n) = SubSeq(p, m, n - 1) \o <<p[n]>>
  <2> HIDE DEF m, n
  <2> QED BY <1>1, <1>2, SubSeqRecursiveSecond
<1>4. \A i \in 1 .. n - 1 : f[i] = p[i] /\ p[i] \in STRING
  <2> HIDE DEF m, n, f
  <2>1. \A i \in 1 .. n - 1 : f[i] = p[i]
    BY <1>1, PrefixFacts
  <2> QED BY <1>1, <2>1 DEF n
<1> HIDE DEF m, n, f
<1>5. /\ SubSeq(f, m, n - 1) \in Seq(STRING)
      /\ Len(SubSeq(f, m, n - 1)) = IF m <= n - 1 THEN (n - 1) - m + 1 ELSE 0
      /\ \A i \in 1 .. (n - 1) - m + 1 : SubSeq(f, m, n - 1)[i] = f[m + i - 1]
  <2>1. \A i \in m .. n - 1 : f[i] \in STRING
    BY <1>2, <1>4
  <2> QED BY <1>2, <2>1, SubSeqProperties
<1>6. /\ SubSeq(p, m, n - 1) \in Seq(STRING)
      /\ Len(SubSeq(p, m, n - 1)) = IF m <= n - 1 THEN (n - 1) - m + 1 ELSE 0
      /\ \A i \in 1 .. (n - 1) - m + 1 : SubSeq(p, m, n - 1)[i] = p[m + i - 1]
  <2>1. \A i \in m .. n - 1 : p[i] \in STRING
    BY <1>2, <1>4
  <2> QED BY <1>2, <2>1, SubSeqProperties
<1>7. SubSeq(f, m, n - 1) = SubSeq(p, m, n - 1)
  <2> DEFINE s == SubSeq(f, m, n - 1)
             t == SubSeq(p, m, n - 1)
  <2>1. Len(s) = Len(t) /\ s \in Seq(STRING) /\ t \in Seq(STRING)
    BY <1>5, <1>6
  <2>2. ASSUME NEW i \in 1 .. Len(s) PROVE s[i] = t[i]
    <3>1. i \in 1 .. (n - 1) - m + 1 /\ m + i - 1 \in 1 .. n - 1
      BY <1>1, <1>2, <1>5, <2>2
    <3> QED BY <1>4, <1>5, <1>6, <3>1
  <2> HIDE DEF s, t
  <2>3. s = t
    BY <2>1, <2>2, SeqEqual
  <2> QED BY <2>3 DEF s, t
<1>8. Append(SubSeq(p, m, n - 1), Last(p)) = SubSeq(p, m, n - 1) \o <<Last(p)>>
  BY <1>1, <1>6, AppendIsConcat
<1>9. SubSeq(p, m, n) = Append(SubSeq(f, m, n - 1), Last(p)) /\ SubSeq(f, m, n - 1) \in Path
  BY <1>1, <1>3, <1>5, <1>7, <1>8 DEF Path
<1>10. Len(f) = n - 1 /\ m = k + 1
  BY <1>1 DEF m
<1> QED BY <1>9, <1>10 DEF f, n

LEMMA SelfReal ==
  ASSUME disk \in [Paths -> Nodes], IsTree(disk), NEW p \in Paths, disk[p].kind \notin {"none", "link"}
  PROVE  Real(p) = p /\ Named(p) = p
<1>1. p \in Path /\ Len(p) \in Nat /\ SubSeq(p, 1, Len(p)) = p
  BY PathsAre, SubSeqFull DEF Path
<1>2. ASSUME NEW k \in Linked(p) PROVE FALSE
  <2>1. k \in 1 .. Len(p) /\ disk[SubSeq(p, 1, k)].kind = "link"
    BY <1>2 DEF Linked
  <2>2. k = Len(p) \/ k \in 0 .. Len(p) - 1
    <3> DEFINE n == Len(p)
    <3>1. n \in Nat /\ k \in 1 .. n
      BY <1>1, <2>1
    <3> HIDE DEF n
    <3>2. k = n \/ k \in 0 .. n - 1
      BY <3>1
    <3> QED BY <3>2 DEF n
  <2> QED BY <1>1, <2>1, <2>2 DEF IsTree
<1>3. Linked(p) = {}
  BY <1>2
<1>4. CASE p = <<>>
  BY <1>3, <1>4 DEF Named, Real
<1>5. CASE p /= <<>>
  <2>1. Linked(Front(p)) = {}
    BY <1>1, <1>3, <1>5, FrontLinked
  <2> QED BY <1>1, <1>3, <1>5, <2>1, NoLink, AppendFront DEF Named
<1> QED BY <1>4, <1>5

\* What is not named by a link is itself where its path leads.
LEMMA NamedIsReal ==
  ASSUME disk \in [Paths -> Nodes], NEW p \in Path, NodeAt(Named(p)).kind /= "link"
  PROVE  Real(p) = Named(p)
<1>1. CASE p = <<>>
  <2>1. Linked(p) = {}
    BY <1>1, EmptySeq DEF Linked
  <2> QED BY <1>1, <2>1 DEF Named, Real
<1>2. CASE p /= <<>> /\ Linked(Front(p)) = {}
  <2>1. Named(p) = p
    BY <1>2, NoLink, AppendFront DEF Named
  <2>2. Len(p) \notin Linked(p)
    <3>1. SubSeq(p, 1, Len(p)) = p
      BY SubSeqFull DEF Path
    <3> QED BY <2>1, <3>1 DEF Linked, NodeAt
  <2>3. Linked(p) = {}
    BY <1>2, <2>2, FrontLinked
  <2> QED BY <2>1, <2>3, NoLink
<1>3. CASE p /= <<>> /\ Linked(Front(p)) /= {}
  <2> DEFINE f == Front(p)
             k == Min(Linked(f))
             n == Len(p)
  <2>1. f \in Path /\ Len(f) = n - 1 /\ n \in Nat /\ Last(p) = p[n] /\ Last(p) \in STRING /\ f = SubSeq(p, 1, n - 1)
    BY <1>3, FrontFacts DEF Path
  <2>2. /\ k \in 1 .. Len(f) /\ SubSeq(f, 1, k) \in Paths
        /\ Real(f) = disk[SubSeq(f, 1, k)].to \o SubSeq(f, k + 1, Len(f))
    BY <1>3, <2>1, FirstLink
  <2>3. k \in Linked(f) /\ \A x \in Linked(f) : k <= x
    <3>1. Linked(f) \in SUBSET Nat
      BY DEF Linked
    <3>2. PICK x \in Linked(f) : \A y \in Linked(f) : x <= y
      BY <1>3, <3>1, LeastExists
    <3>3. k = x
      BY <3>1, <3>2, MinIs
    <3> HIDE DEF k
    <3> QED BY <3>2, <3>3
  <2>4. Min(Linked(p)) = k
    <3>1. Linked(f) = Linked(p) \ {n} /\ Linked(p) \in SUBSET Nat
      BY <1>3, FrontLinked DEF Linked
    <3>2. k \in Nat /\ k <= n
      BY <2>1, <2>2
    <3> HIDE DEF k, n, f
    <3>3. k \in Linked(p) /\ \A x \in Linked(p) : k <= x
      BY <2>3, <3>1, <3>2
    <3> QED BY <3>1, <3>3, MinIs
  <2>5. /\ k \in 1 .. Len(p)
        /\ Real(p) = disk[SubSeq(p, 1, k)].to \o SubSeq(p, k + 1, n)
    <3>1. Linked(p) /= {}
      BY <1>3, FrontLinked
    <3> QED BY <2>4, <3>1, FirstLink
  <2>6. SubSeq(f, 1, k) = SubSeq(p, 1, k)
    <3>1. k \in 0 .. n - 1 /\ n - 1 \in 0 .. Len(p)
      BY <2>1, <2>2
    <3> HIDE DEF k
    <3> QED BY <2>1, <3>1, PrefixOfPrefix
  <2>7. SubSeq(p, k + 1, n) = Append(SubSeq(f, k + 1, Len(f)), Last(p))
        /\ SubSeq(f, k + 1, Len(f)) \in Path
    <3>1. k \in 1 .. Len(Front(p))
      BY <2>2
    <3> HIDE DEF k
    <3> QED BY <1>3, <3>1, RestOfFront
  <2>8. disk[SubSeq(f, 1, k)].to \in Path
    BY <2>2 DEF Nodes, Path
  <2> DEFINE to == disk[SubSeq(p, 1, k)].to
             rest == SubSeq(f, k + 1, Len(f))
  <2>9. Real(p) = to \o Append(rest, Last(p)) /\ Named(p) = Append(to \o rest, Last(p))
    BY <1>3, <2>2, <2>5, <2>6, <2>7 DEF Named
  <2>10. to \in Seq(STRING) /\ rest \in Seq(STRING) /\ Last(p) \in STRING
    BY <2>1, <2>6, <2>7, <2>8 DEF Path
  <2> HIDE DEF to, rest, f, k, n
  <2>11. to \o Append(rest, Last(p)) = Append(to \o rest, Last(p))
    BY <2>10, AppendToConcat
  <2> QED BY <2>9, <2>11
<1> QED BY <1>1, <1>2, <1>3

-----------------------------------------------------------------------------
(* A command that is typed. *)

\* One step of a command that is over, or has changed nothing, with it.
LEMMA WholeCommand ==
  ASSUME ShellInv, NEW op \in Ops \ {"mv"}, NEW a \in Path, NEW b \in Path, Begin(op, a, b),
         pc' \in {"prompt", "search", "dead"}, disk' \in [Paths -> Nodes], IsTree(disk'),
         \A q \in Paths \ Scope(op, a, b) : disk'[q] = disk[q]
  PROVE  ShellInv'
<1>1. /\ cmd' = [op |-> op, a |-> a, b |-> b] /\ before' = disk /\ scope' = Scope(op, a, b)
      /\ pos' = 0 /\ err' = FALSE
  BY DEF Begin
<1>2. ShellType'
  BY <1>1 DEF ShellInv, ShellType
<1>3. IsTree(disk)'
  OBVIOUS
<1>4. CommandsStayInside'
  BY <1>1 DEF CommandsStayInside
<1>5. InScope'
  BY DEF InScope, Copying
<1>6. CopyInv'
  BY DEF CopyInv, Copying
<1>7. MoveInv'
  BY <1>1 DEF MoveInv, MovesFile
<1> QED BY <1>2, <1>3, <1>4, <1>5, <1>6, <1>7 DEF ShellInv

\* A command that puts a node somewhere, or does not.
LEMMA PutNode ==
  ASSUME ShellInv, NEW op \in Ops \ {"mv"}, NEW a \in Path, Begin(op, a, <<>>), pc' = "prompt",
         NEW p \in Path, NEW node \in Nodes, p \in Scope(op, a, <<>>),
         \/ UNCHANGED disk
         \/ /\ Set(p, node) /\ p \in Paths /\ Children(p) = {} /\ p /= <<>> /\ p /= Mount
            /\ node.kind /= "none" => HasParent(p)
  PROVE  ShellInv'
<1>1. disk \in [Paths -> Nodes] /\ IsTree(disk)
  BY DEF ShellInv, ShellType
<1>2. disk' \in [Paths -> Nodes] /\ IsTree(disk')
  BY <1>1, SetTree
<1>3. \A q \in Paths \ Scope(op, a, <<>>) : disk'[q] = disk[q]
  BY <1>1 DEF Set
<1>4. <<>> \in Path
  BY EmptySeq DEF Path
<1> QED BY <1>2, <1>3, <1>4, WholeCommand

LEMMA NodesAre ==
  /\ None \in Nodes /\ Dir \in Nodes /\ File(<<>>) \in Nodes
  /\ None.kind = "none" /\ Dir.kind = "dir" /\ File(<<>>).kind = "file" /\ File(<<>>).data = <<>>
<1>1. <<>> \in Seq(Nat) /\ <<>> \in Seq(STRING)
  BY EmptySeq
<1> QED BY <1>1 DEF None, Dir, File, Nodes

LEMMA MakeFacts ==
  ASSUME disk \in [Paths -> Nodes], IsTree(disk), NEW p, CanMake(p)
  PROVE  p \in Paths /\ Children(p) = {} /\ p /= <<>> /\ p /= Mount /\ HasParent(p)
<1>1. HasParent(p) /\ NodeAt(p).kind = "none" /\ p \in Paths
  BY DEF CanMake, HasParent
<1> QED BY <1>1, NodeFacts, NoChildren

LEMMA UnlinkFacts ==
  ASSUME disk \in [Paths -> Nodes], IsTree(disk), NEW p, CanUnlink(p) \/ CanRemoveDir(p)
  PROVE  p \in Paths /\ Children(p) = {} /\ p /= <<>> /\ p /= Mount /\ disk[p].kind /= "none"
<1>1. p \in Paths /\ NodeAt(p) = disk[p] /\ disk[p].kind /= "none"
  BY NodeFacts DEF CanUnlink, CanRemoveDir
<1>2. CASE CanUnlink(p)
  BY <1>1, <1>2, NoChildren DEF CanUnlink
<1>3. CASE CanRemoveDir(p)
  BY <1>1, <1>3 DEF CanRemoveDir
<1> QED BY <1>2, <1>3

LEMMA MkdirStep ==
  ASSUME ShellInv, NEW a \in Path, cmd_mkdir(a)
  PROVE  ShellInv'
<1>1. disk \in [Paths -> Nodes] /\ IsTree(disk)
  BY DEF ShellInv, ShellType
<1>2. Named(a) \in Path /\ Named(a) \in Scope("mkdir", a, <<>>) /\ "mkdir" \in Ops \ {"mv"}
  BY <1>1, NamedType DEF Scope, Ops
<1>3. Begin("mkdir", a, <<>>) /\ pc' = "prompt"
  BY DEF cmd_mkdir, IfPossible, Prompt
<1>4. UNCHANGED disk \/ (CanMake(Named(a)) /\ Set(Named(a), Dir))
  BY DEF cmd_mkdir, IfPossible
<1> QED BY <1>1, <1>2, <1>3, <1>4, MakeFacts, NodesAre, PutNode

LEMMA RmdirStep ==
  ASSUME ShellInv, NEW a \in Path, cmd_rmdir(a)
  PROVE  ShellInv'
<1>1. disk \in [Paths -> Nodes] /\ IsTree(disk)
  BY DEF ShellInv, ShellType
<1>2. Named(a) \in Path /\ Named(a) \in Scope("rmdir", a, <<>>) /\ "rmdir" \in Ops \ {"mv"}
  BY <1>1, NamedType DEF Scope, Ops
<1>3. Begin("rmdir", a, <<>>) /\ pc' = "prompt"
  BY DEF cmd_rmdir, IfPossible, Prompt
<1>4. UNCHANGED disk \/ (CanRemoveDir(Named(a)) /\ Set(Named(a), None))
  BY DEF cmd_rmdir, IfPossible
<1> QED BY <1>1, <1>2, <1>3, <1>4, UnlinkFacts, NodesAre, PutNode

LEMMA TouchStep ==
  ASSUME ShellInv, NEW a \in Path, cmd_touch(a)
  PROVE  ShellInv'
<1>1. disk \in [Paths -> Nodes] /\ IsTree(disk)
  BY DEF ShellInv, ShellType
<1>2. Real(a) \in Path /\ Real(a) \in Scope("touch", a, <<>>) /\ "touch" \in Ops \ {"mv"}
  BY <1>1, RealType DEF Scope, Ops
<1>3. Begin("touch", a, <<>>) /\ pc' = "prompt"
  BY DEF cmd_touch, IfPossible, Prompt
<1>4. UNCHANGED disk \/ (CanMake(Real(a)) /\ Set(Real(a), File(<<>>)))
  BY DEF cmd_touch, IfPossible
<1> QED BY <1>1, <1>2, <1>3, <1>4, MakeFacts, NodesAre, PutNode

LEMMA RmStep ==
  ASSUME ShellInv, NEW a \in Path, cmd_rm(a)
  PROVE  ShellInv'
<1>1. disk \in [Paths -> Nodes] /\ IsTree(disk)
  BY DEF ShellInv, ShellType
<1>2. Named(a) \in Path /\ Named(a) \in Scope("rm", a, <<>>) /\ "rm" \in Ops \ {"mv"}
  BY <1>1, NamedType DEF Scope, Ops
<1>3. Begin("rm", a, <<>>) /\ pc' = "prompt"
  BY DEF cmd_rm, Prompt
<1>4. UNCHANGED disk \/ (CanUnlink(Named(a)) /\ Set(Named(a), None))
  BY DEF cmd_rm, unlink
<1> QED BY <1>1, <1>2, <1>3, <1>4, UnlinkFacts, NodesAre, PutNode

\* tail and a name that is no builtin change no file.
LEMMA NoChange ==
  ASSUME ShellInv, NEW a \in Path, TailOfNone(a) \/ Program
  PROVE  ShellInv'
<1>1. disk \in [Paths -> Nodes] /\ IsTree(disk) /\ <<>> \in Path
  BY EmptySeq DEF ShellInv, ShellType, Path
<1>2. UNCHANGED disk
  BY DEF TailOfNone, Program
<1>3. CASE TailOfNone(a)
  <2>1. Begin("tail", a, <<>>) /\ pc' \in {"prompt", "search", "dead"} /\ "tail" \in Ops \ {"mv"}
    BY <1>3 DEF TailOfNone, Ops
  <2> QED BY <1>1, <1>2, <2>1, WholeCommand
<1>4. CASE Program
  <2>1. Begin("program", <<>>, <<>>) /\ pc' \in {"prompt", "search", "dead"} /\ "program" \in Ops \ {"mv"}
    BY <1>4 DEF Program, Ops
  <2> QED BY <1>1, <1>2, <2>1, WholeCommand
<1> QED BY <1>3, <1>4

LEMMA SameDisk ==
  ASSUME UNCHANGED disk, NEW p
  PROVE  Real(p)' = Real(p) /\ Named(p)' = Named(p) /\ NodeAt(p)' = NodeAt(p)
BY DEF Real, Named, Linked, NodeAt

LEMMA CpStep ==
  ASSUME ShellInv, NEW a \in Path, NEW b \in Path, cmd_cp(a, b)
  PROVE  ShellInv'
<1>1. /\ cmd' = [op |-> "cp", a |-> a, b |-> b] /\ before' = disk /\ scope' = {Real(b)}
      /\ pos' = 0 /\ err' = FALSE /\ pc' = "open" /\ UNCHANGED disk
  BY DEF cmd_cp, Begin, Scope
<1>2. ShellType'
  BY <1>1 DEF ShellInv, ShellType, Ops
<1>3. IsTree(disk)'
  BY <1>1 DEF ShellInv
<1>4. CommandsStayInside'
  BY <1>1 DEF CommandsStayInside
<1>5. InScope'
  <2>1. Real(b)' = Real(b)
    BY <1>1, SameDisk
  <2>2. (Real(cmd.b) \in scope)'
    BY <1>1, <2>1
  <2> QED BY <1>1, <2>2 DEF InScope
<1>6. CopyInv'
  BY <1>1 DEF CopyInv, SameLinks
<1>7. MoveInv'
  BY <1>1 DEF MoveInv, MovesFile
<1> QED BY <1>2, <1>3, <1>4, <1>5, <1>6, <1>7 DEF ShellInv

\* rename takes the file to where it is to go.
LEMMA RenameSaves ==
  ASSUME disk \in [Paths -> Nodes], IsTree(disk), NEW from \in Paths, NEW to \in Path,
         disk[from].kind = "file", CanRename(from, to), Rename(from, to)
  PROVE  \E p \in Paths : disk'[p] = disk[from]
<1>1. CASE from = to
  BY <1>1 DEF Rename
<1>2. CASE from /= to
  <2>1. to \in Paths /\ from \in Path
    BY PathsAre DEF CanRename, HasParent
  <2>2. disk'[to] = NodeAt(Original(to, from, to))
    BY <1>2, <2>1, RenameNodes DEF Tree
  <2>3. Original(to, from, to) = from
    <3>1. Len(to) \in Int /\ Len(to) + 1 \in Int /\ Len(to) < Len(to) + 1
      BY DEF Path
    <3>2. SubSeq(to, Len(to) + 1, Len(to)) = <<>>
      BY <3>1, SubSeqEmpty
    <3> QED BY <2>1, <3>2, ConcatEmptySeq DEF Original, Path
  <2> QED BY <2>1, <2>2, <2>3, NodeFacts
<1> QED BY <1>1, <1>2

\* What is there, and is not the root, is in a directory.
LEMMA ParentOf ==
  ASSUME disk \in [Paths -> Nodes], IsTree(disk), NEW p \in Paths, p /= <<>>, disk[p].kind /= "none"
  PROVE  HasParent(p)
<1>1. p \in Path
  BY PathsAre
<1>2. Len(p) - 1 \in 0 .. Len(p) /\ Front(p) = SubSeq(p, 1, Len(p) - 1) /\ Len(p) - 1 \in 0 .. Len(p) - 1
  <2>1. Len(p) - 1 \in 0 .. Len(p) /\ Front(p) = SubSeq(p, 1, Len(p) - 1) /\ Len(p) \in Nat
    BY <1>1, FrontFacts DEF Path
  <2> QED BY <2>1
<1>3. Front(p) \in Paths /\ disk[Front(p)].kind = "dir"
  BY <1>2, FilesAssumption DEF IsTree
<1> QED BY <1>3, NodeFacts DEF HasParent

\* A file can be renamed to itself.
LEMMA RenameSelf ==
  ASSUME disk \in [Paths -> Nodes], IsTree(disk), NEW p \in Paths, disk[p].kind = "file"
  PROVE  CanRename(p, p)
<1>1. p /= <<>> /\ p /= Mount /\ NodeAt(p) = disk[p] /\ p \in Path
  BY NoChildren, NodeFacts, PathsAre
<1>3. HasParent(p)
  BY <1>1, ParentOf
<1>4. p \notin Below(p)
  <2>1. Len(p) \in Nat
    BY <1>1 DEF Path
  <2> QED BY <2>1 DEF Below
<1> QED BY <1>1, <1>3, <1>4 DEF CanRename

LEMMA MvStep ==
  ASSUME ShellInv, NEW a \in Path, NEW b \in Path, cmd_mv(a, b)
  PROVE  ShellInv'
<1> DEFINE from == Named(a)
           to == Named(b)
<1>1. disk \in [Paths -> Nodes] /\ IsTree(disk)
  BY DEF ShellInv, ShellType
<1>2. /\ cmd' = [op |-> "mv", a |-> a, b |-> b] /\ before' = disk
      /\ scope' = Tree(from) \cup Tree(to) \cup {Real(b)}
      /\ pos' = 0 /\ err' = FALSE
  BY DEF cmd_mv, Begin, Scope
<1>3. from \in Path /\ to \in Path
  BY <1>1, NamedType
<1> HIDE DEF from, to
<1>4. ASSUME a \in Paths, disk[a].kind = "file" PROVE from = a /\ Real(a) = a
  BY <1>1, <1>4, SelfReal DEF from
<1>5. CASE CanRename(from, to)
  <2>1. Rename(from, to) /\ pc' = "prompt"
    BY <1>5 DEF cmd_mv, Prompt, from, to
  <2>2. disk' \in [Paths -> Nodes] /\ IsTree(disk')
    BY <1>1, <1>3, <1>5, <2>1, RenameTree
  <2>3. ShellType'
    BY <1>2, <2>2 DEF ShellType, ShellInv, Ops
  <2>4. \A q \in Paths \ (Tree(from) \cup Tree(to)) : disk'[q] = disk[q]
    <3>1. CASE from = to
      BY <2>1, <3>1 DEF Rename
    <3>2. CASE from /= to
      BY <1>1, <1>3, <2>1, <3>2, RenameNodes
    <3> QED BY <3>1, <3>2
  <2>5. CommandsStayInside'
    BY <1>2, <2>4 DEF CommandsStayInside
  <2>6. InScope' /\ CopyInv'
    BY <2>1 DEF InScope, CopyInv, Copying
  <2>7. MoveInv'
    <3>1. a \in Paths /\ disk[a].kind = "file" => \E p \in Paths : disk'[p] = disk[a]
      BY <1>1, <1>3, <1>4, <1>5, <2>1, RenameSaves
    <3>2. MovesFile' => Saved'
      BY <1>2, <3>1 DEF MovesFile, Saved
    <3> QED BY <2>1, <3>2 DEF MoveInv, Copying
  <2> QED BY <2>2, <2>3, <2>5, <2>6, <2>7 DEF ShellInv
<1>6. CASE ~CanRename(from, to)
  <2>1. UNCHANGED disk /\ pc' = "open"
    BY <1>6 DEF cmd_mv, from, to
  <2>2. ShellType' /\ IsTree(disk)'
    BY <1>1, <1>2, <2>1 DEF ShellType, ShellInv, Ops
  <2>3. CommandsStayInside'
    BY <1>2, <2>1 DEF CommandsStayInside
  <2>4. Real(a)' = Real(a) /\ Real(b)' = Real(b) /\ Named(a)' = from /\ Named(b)' = to
    BY <2>1, SameDisk DEF from, to
  <2>5. InScope'
    <3>1. (Real(cmd.b) \in scope)' /\ (Named(cmd.a) \in scope)'
      BY <1>2, <2>4 DEF Tree
    <3> QED BY <2>1, <3>1 DEF InScope
  <2>6. CopyInv'
    BY <1>2, <2>1 DEF CopyInv, SameLinks
  <2>7. MoveInv'
    <3> SUFFICES ASSUME MovesFile' PROVE (Real(cmd.a) = cmd.a /\ Named(cmd.a) = cmd.a /\ (Real(cmd.b) /= cmd.a \/ LinksBack))'
      BY <2>1 DEF MoveInv, Copying
    <3>1. a \in Paths /\ disk[a].kind = "file"
      BY <1>2 DEF MovesFile
    <3>2. from = a /\ Real(a) = a
      BY <1>4, <3>1
    <3>3. Real(b) /= a \/ NodeAt(to).kind = "link"
      <4>1. NodeAt(to).kind /= "link" => Real(b) = to
        BY <1>1, NamedIsReal DEF to
      <4>2. CanRename(a, a)
        BY <1>1, <3>1, RenameSelf
      <4> QED BY <1>6, <3>2, <4>1, <4>2
    <3>4. (Real(cmd.a) = cmd.a)' /\ (Named(cmd.a) = cmd.a)'
      BY <1>2, <2>4, <3>2
    <3>5. (Real(cmd.b) /= cmd.a)' \/ LinksBack'
      <4>1. (Named(cmd.b))' = to /\ (Real(cmd.b))' = Real(b) /\ cmd'.a = a
        BY <1>2, <2>4
      <4>2. NodeAt(to).kind = "link" => (NodeAt(Named(cmd.b)).kind = "link")'
        BY <2>1, <4>1 DEF NodeAt
      <4> QED BY <3>3, <4>1, <4>2 DEF LinksBack
    <3> QED BY <3>4, <3>5
  <2> QED BY <2>2, <2>3, <2>5, <2>6, <2>7 DEF ShellInv
<1> QED BY <1>5, <1>6

-----------------------------------------------------------------------------
(* A command that goes on. *)

\* The operands of a command lead where they led while the links stay.
LEMMA SameOperands ==
  ASSUME ShellType, InCommand, SameLinks(disk', disk)
  PROVE  /\ Real(cmd.a)' = Real(cmd.a) /\ Real(cmd.b)' = Real(cmd.b)
         /\ Named(cmd.a)' = Named(cmd.a) /\ Named(cmd.b)' = Named(cmd.b)
         /\ LinksBack => LinksBack'
<1>1. cmd.a \in Path /\ cmd.b \in Path /\ cmd' = cmd
  BY DEF ShellType, InCommand
<1>2. \A p \in Path : Real(p)' = Real(p) /\ Named(p)' = Named(p)
  BY SameReal, SameNamed
<1>3. /\ Real(cmd.a)' = Real(cmd.a) /\ Real(cmd.b)' = Real(cmd.b)
      /\ Named(cmd.a)' = Named(cmd.a) /\ Named(cmd.b)' = Named(cmd.b)
  BY <1>1, <1>2
<1>4. LinksBack => LinksBack'
  <2> SUFFICES ASSUME LinksBack PROVE LinksBack'
    OBVIOUS
  <2>1. NodeAt(Named(cmd.b)).kind = "link" /\ Real(cmd.b) = cmd.a
    BY DEF LinksBack
  <2>2. (NodeAt(Named(cmd.b)).kind = "link")'
    BY <1>3, <2>1 DEF NodeAt, SameLinks, None
  <2> QED BY <1>1, <1>3, <2>1, <2>2 DEF LinksBack
<1> QED BY <1>3, <1>4

\* Setting what is no link to what is no link keeps the links.
LEMMA SetLinks ==
  ASSUME disk \in [Paths -> Nodes], NEW p \in Paths, NEW node \in Nodes, Set(p, node),
         disk[p].kind /= "link", node.kind /= "link"
  PROVE  SameLinks(disk', disk)
BY DEF Set, SameLinks

LEMMA InCommandFacts ==
  ASSUME ShellInv, InCommand
  PROVE  /\ disk \in [Paths -> Nodes] /\ IsTree(disk) /\ ShellType
         /\ Real(cmd.a) \in Path /\ Real(cmd.b) \in Path /\ Named(cmd.a) \in Path
         /\ cmd' = cmd /\ before' = before /\ scope' = scope
BY RealType, NamedType DEF ShellInv, ShellType, InCommand

LEMMA OpenSucceeds ==
  ASSUME ShellInv, OpenBoth, pc' = "copy"
  PROVE  ShellInv'
<1>1. /\ disk \in [Paths -> Nodes] /\ IsTree(disk) /\ ShellType /\ InCommand
      /\ Real(cmd.a) \in Path /\ Real(cmd.b) \in Path
      /\ cmd' = cmd /\ before' = before /\ scope' = scope /\ pos' = pos /\ err' = err
  BY InCommandFacts DEF OpenBoth
<1> DEFINE a == Real(cmd.a)
           b == Real(cmd.b)
<1>2. pc = "open" /\ CanRead(a) /\ CanWrite(b) /\ Set(b, File(<<>>))
  BY DEF OpenBoth
<1>3. disk = before /\ pos = 0 /\ cmd.op \in {"cp", "mv"} /\ b \in scope
  BY <1>2 DEF ShellInv, CopyInv, InScope, Copying
<1>4. a \in Paths /\ b \in Paths /\ HasParent(b) /\ disk[b].kind \in {"file", "none"}
  BY <1>1, <1>2, NodeFacts DEF CanRead, CanWrite, HasParent
<1>5. SameLinks(disk', disk) /\ disk' \in [Paths -> Nodes] /\ IsTree(disk')
  <2>1. Children(b) = {} /\ b /= <<>> /\ b /= Mount
    BY <1>1, <1>4, NoChildren
  <2> HIDE DEF b
  <2>2. SameLinks(disk', disk)
    BY <1>1, <1>2, <1>4, NodesAre, SetLinks
  <2> QED BY <1>1, <1>2, <1>4, <2>1, <2>2, NodesAre, SetTree
<1>6. disk'[b] = File(<<>>) /\ \A q \in Paths : q /= b => disk'[q] = disk[q]
  BY <1>1, <1>2, <1>4 DEF Set
<1>7. /\ Real(cmd.a)' = a /\ Real(cmd.b)' = b /\ Named(cmd.a)' = Named(cmd.a)
      /\ LinksBack => LinksBack'
  BY <1>1, <1>5, SameOperands
<1> HIDE DEF a, b
<1>8. ShellType'
  BY <1>1, <1>5 DEF ShellType
<1>9. CommandsStayInside'
  BY <1>1, <1>3, <1>6 DEF CommandsStayInside
<1>10. InScope'
  <2>1. cmd.op = "mv" => Named(cmd.a) \in scope
    BY <1>2 DEF ShellInv, InScope, Copying
  <2> QED BY <1>1, <1>3, <1>7, <2>1 DEF InScope
<1>11. CopyInv'
  <2>1. disk'[b].kind = "file" /\ disk'[b].data = <<>>
    BY <1>6, NodesAre
  <2>2. a /= b => disk'[a] = before[a]
    BY <1>3, <1>4, <1>6
  <2>3. 0 <= Len(before[a].data) /\ SubSeq(before[a].data, 1, 0) = <<>>
    <3>1. before[a].data \in Seq(Nat)
      BY <1>1, <1>4 DEF ShellType, Nodes
    <3> HIDE DEF a
    <3>2. SubSeq(before[a].data, 1, 0) = <<>>
      BY SubSeqEmpty
    <3> QED BY <3>1, <3>2
  <2>4. CopiedSoFar'
    BY <1>1, <1>3, <1>4, <1>7, <2>1, <2>2, <2>3 DEF CopiedSoFar
  <2>5. (Real(cmd.b) \in Paths /\ disk[Real(cmd.b)].kind = "file")'
    BY <1>4, <1>7, <2>1
  <2>6. SameLinks(disk', before')
    BY <1>1, <1>3, <1>5
  <2> QED BY <1>1, <1>3, <2>4, <2>5, <2>6 DEF CopyInv
<1>12. MoveInv'
  <2>1. MovesFile' => MovesFile
    BY <1>1 DEF MovesFile
  <2>2. MovesFile => a = cmd.a /\ Named(cmd.a) = cmd.a /\ (b /= cmd.a \/ LinksBack)
    BY <1>2 DEF ShellInv, MoveInv, Copying, a, b
  <2> QED BY <1>1, <1>7, <2>1, <2>2 DEF MoveInv, Copying
<1> QED BY <1>5, <1>8, <1>9, <1>10, <1>11, <1>12 DEF ShellInv

LEMMA OpenFails ==
  ASSUME ShellInv, OpenBoth, pc' = "copied"
  PROVE  ShellInv'
<1>1. ShellType /\ InCommand /\ IsTree(disk) /\ UNCHANGED <<disk, pos>> /\ err' = TRUE /\ pc = "open"
  BY DEF OpenBoth, ShellInv
<1>2. cmd' = cmd /\ before' = before /\ scope' = scope
  BY <1>1 DEF InCommand
<1>3. ShellType' /\ IsTree(disk)' /\ CommandsStayInside'
  BY <1>1, <1>2 DEF ShellType, ShellInv, CommandsStayInside
<1>4. Real(cmd.b)' = Real(cmd.b) /\ Named(cmd.a)' = Named(cmd.a)
  <2>1. SameLinks(disk', disk)
    BY <1>1 DEF SameLinks
  <2> QED BY <1>1, <2>1, SameOperands
<1>5. InScope'
  BY <1>1, <1>2, <1>4 DEF ShellInv, InScope, Copying
<1>6. CopyInv'
  BY <1>1, <1>2 DEF ShellInv, CopyInv, Copying, SameLinks
<1>7. MoveInv'
  BY <1>1 DEF MoveInv, MovesFile
<1> QED BY <1>3, <1>5, <1>6, <1>7 DEF ShellInv

LEMMA OneMore ==
  ASSUME NEW d \in Seq(Nat), NEW n \in Nat, n + 1 <= Len(d)
  PROVE  Append(SubSeq(d, 1, n), d[n + 1]) = SubSeq(d, 1, n + 1) /\ d[n + 1] \in Nat
<1> DEFINE m == n + 1
<1>1. m \in 1 .. Len(d) /\ 1 \in 1 .. Len(d) /\ m \in 1 .. Len(d) /\ m - 1 = n /\ d[m] \in Nat
  BY LenProperties
<1>2. SubSeq(d, 1, n) \in Seq(Nat)
  <2>1. \A i \in 1 .. n : d[i] \in Nat
    BY <1>1
  <2> QED BY <2>1, SubSeqProperties
<1> HIDE DEF m
<1>3. SubSeq(d, 1, m) = SubSeq(d, 1, n) \o <<d[m]>>
  BY <1>1, SubSeqRecursiveSecond
<1>4. Append(SubSeq(d, 1, n), d[m]) = SubSeq(d, 1, n) \o <<d[m]>>
  BY <1>1, <1>2, AppendIsConcat
<1> QED BY <1>1, <1>3, <1>4 DEF m

LEMMA FileOf ==
  ASSUME NEW d \in Seq(Nat)
  PROVE  File(d) \in Nodes /\ File(d).kind = "file" /\ File(d).data = d
BY EmptySeq DEF File, None, Nodes

\* A line is written, or the write fails unnoticed.
LEMMA CopyStep ==
  ASSUME ShellInv, CopyBlock
  PROVE  ShellInv'
<1>1. /\ disk \in [Paths -> Nodes] /\ IsTree(disk) /\ ShellType /\ InCommand
      /\ Real(cmd.a) \in Path /\ Real(cmd.b) \in Path
      /\ cmd' = cmd /\ before' = before /\ scope' = scope /\ pc = "copy" /\ pc' = "copy"
  BY InCommandFacts DEF CopyBlock
<1> DEFINE a == Real(cmd.a)
           b == Real(cmd.b)
           next == Append(NodeAt(b).data, SourceData[pos + 1])
<1>2. pos' = pos + 1 /\ pos \in Nat /\ pos + 1 \in Nat /\ Len(SourceData) >= pos + 1
  BY <1>1 DEF CopyBlock, ShellType, More
<1>3. /\ b \in Paths /\ disk[b].kind = "file" /\ cmd.op \in {"cp", "mv"} /\ SameLinks(disk, before)
      /\ b \in scope /\ (cmd.op = "mv" => Named(cmd.a) \in scope)
  BY <1>1 DEF ShellInv, CopyInv, InScope, Copying
<1>4. (err' = err /\ Set(b, File(next))) \/ (err' = TRUE /\ UNCHANGED disk)
  BY DEF CopyBlock
<1>5. SourceData \in Seq(Nat) /\ NodeAt(b).data \in Seq(Nat) /\ SourceData = NodeAt(a).data
  <2>1. \A p : NodeAt(p) \in Nodes
    BY <1>1, NodeFacts
  <2> QED BY <2>1 DEF SourceData, Nodes
<1>6. next \in Seq(Nat)
  <2>1. SourceData[pos + 1] \in Nat
    BY <1>2, <1>5, OneMore
  <2> HIDE DEF b
  <2> QED BY <1>5, <2>1, AppendProperties
<1> HIDE DEF next
<1>7. SameLinks(disk', disk) /\ disk' \in [Paths -> Nodes] /\ IsTree(disk')
  <2>1. CASE UNCHANGED disk
    BY <1>1, <2>1 DEF SameLinks
  <2>2. CASE Set(b, File(next))
    <3>1. Children(b) = {} /\ b /= <<>> /\ b /= Mount
      BY <1>1, <1>3, NoChildren
    <3>2. File(next) \in Nodes /\ File(next).kind = "file"
      BY <1>6, FileOf
    <3>3. HasParent(b)
      BY <1>1, <1>3, <3>1, ParentOf
    <3> HIDE DEF b
    <3>4. SameLinks(disk', disk)
      BY <1>1, <1>3, <2>2, <3>2, SetLinks
    <3> QED BY <1>1, <1>3, <2>2, <3>1, <3>2, <3>3, <3>4, SetTree
  <2> QED BY <1>4, <2>1, <2>2
<1>8. \A q \in Paths : q /= b => disk'[q] = disk[q]
  BY <1>1, <1>4 DEF Set
<1>9. /\ Real(cmd.a)' = a /\ Real(cmd.b)' = b /\ Named(cmd.a)' = Named(cmd.a)
      /\ LinksBack => LinksBack'
  BY <1>1, <1>7, SameOperands
<1>10. disk'[b].kind = "file" /\ (err' = err => disk'[b] = disk[b] \/ disk'[b].data = next)
  BY <1>1, <1>3, <1>4, <1>6, FileOf DEF Set
<1>11. ShellType'
  BY <1>1, <1>2, <1>4, <1>7 DEF ShellType
<1>12. CommandsStayInside'
  BY <1>1, <1>3, <1>8 DEF CommandsStayInside, ShellInv
<1>13. InScope'
  BY <1>1, <1>3, <1>9 DEF InScope
<1>14. ASSUME ~err' PROVE CopiedSoFar'
  <2>1. ~err /\ disk'[b].data = next
    BY <1>1, <1>3, <1>4, <1>6, <1>14, FileOf DEF Set, ShellType
  <2>2. /\ a \in Paths
        /\ a /= b => /\ disk[a] = before[a] /\ disk[b].data = SubSeq(before[a].data, 1, pos)
    BY <1>1, <2>1 DEF ShellInv, CopyInv, CopiedSoFar
  <2>3. ASSUME a /= b
        PROVE  /\ disk'[a] = before[a] /\ pos + 1 <= Len(before[a].data)
               /\ disk'[b].data = SubSeq(before[a].data, 1, pos + 1)
    <3>1. SourceData = before[a].data /\ NodeAt(b) = disk[b]
      BY <1>1, <1>3, <1>5, <2>2, <2>3, NodeFacts
    <3>2. next = Append(SubSeq(before[a].data, 1, pos), before[a].data[pos + 1])
      BY <2>2, <2>3, <3>1 DEF next
    <3>3. pos + 1 <= Len(before[a].data) /\ before[a].data \in Seq(Nat)
      BY <1>2, <1>5, <3>1
    <3>4. next = SubSeq(before[a].data, 1, pos + 1)
      BY <1>2, <3>2, <3>3, OneMore
    <3> QED BY <1>8, <2>1, <2>2, <2>3, <3>3, <3>4
  <2> HIDE DEF a, b
  <2> QED BY <1>1, <1>2, <1>3, <1>9, <1>10, <2>2, <2>3 DEF CopiedSoFar
<1>15. CopyInv'
  <2>1. (Real(cmd.b) \in Paths /\ disk[Real(cmd.b)].kind = "file")'
    BY <1>3, <1>9, <1>10
  <2>2. SameLinks(disk', before')
    BY <1>1, <1>3, <1>7 DEF SameLinks
  <2> QED BY <1>1, <1>3, <1>14, <2>1, <2>2 DEF CopyInv
<1>16. MoveInv'
  <2>1. MovesFile' => MovesFile
    BY <1>1, <1>4 DEF MovesFile
  <2>2. MovesFile => a = cmd.a /\ Named(cmd.a) = cmd.a /\ (b /= cmd.a \/ LinksBack)
    BY <1>1 DEF ShellInv, MoveInv, Copying, a, b
  <2> QED BY <1>1, <1>9, <2>1, <2>2 DEF MoveInv, Copying
<1> QED BY <1>7, <1>11, <1>12, <1>13, <1>15, <1>16 DEF ShellInv

LEMMA EndStep ==
  ASSUME ShellInv, EndCopy
  PROVE  ShellInv'
<1>1. ShellType /\ InCommand /\ UNCHANGED <<disk, cmd, before, scope, pos, err>> /\ pc = "copy" /\ pc' = "copied" /\ ~More
  BY DEF EndCopy, ShellInv, InCommand
<1>2. ShellType' /\ IsTree(disk)' /\ CommandsStayInside'
  BY <1>1 DEF ShellType, ShellInv, CommandsStayInside
<1>3. /\ Real(cmd.a)' = Real(cmd.a) /\ Real(cmd.b)' = Real(cmd.b) /\ Named(cmd.a)' = Named(cmd.a)
      /\ LinksBack => LinksBack'
  <2>1. SameLinks(disk', disk)
    BY <1>1 DEF SameLinks
  <2> QED BY <1>1, <2>1, SameOperands
<1>4. InScope'
  BY <1>1, <1>3 DEF ShellInv, InScope, Copying
<1>5. (CopiedSoFar => CopiedSoFar') /\ (~More)'
  <2>1. CopiedSoFar => CopiedSoFar'
    BY <1>1, <1>3 DEF CopiedSoFar
  <2>2. (NodeAt(Real(cmd.a)))' = NodeAt(Real(cmd.a))
    BY <1>1, <1>3 DEF NodeAt, None
  <2> QED BY <1>1, <2>1, <2>2 DEF More, SourceData
<1>6. CopyInv'
  BY <1>1, <1>5 DEF ShellInv, CopyInv, Copying
<1>7. MoveInv'
  <2>1. MovesFile' => MovesFile
    BY <1>1 DEF MovesFile
  <2> QED BY <1>1, <1>3, <2>1 DEF ShellInv, MoveInv, Copying
<1> QED BY <1>2, <1>4, <1>6, <1>7 DEF ShellInv

\* What a copy that went well has copied when it is at its end.
LEMMA CopyIsWhole ==
  ASSUME ShellInv, pc = "copied", ~err, Real(cmd.a) /= Real(cmd.b)
  PROVE  /\ Real(cmd.a) \in Paths /\ Real(cmd.b) \in Paths
         /\ disk[Real(cmd.b)].kind = "file" /\ disk[Real(cmd.b)].data = before[Real(cmd.a)].data
         /\ disk[Real(cmd.a)] = before[Real(cmd.a)]
<1> DEFINE a == Real(cmd.a)
           b == Real(cmd.b)
           d == before[a].data
<1>1. /\ a \in Paths /\ b \in Paths /\ disk[b].kind = "file" /\ disk[a] = before[a]
      /\ pos <= Len(d) /\ disk[b].data = SubSeq(d, 1, pos) /\ ~More
  BY DEF ShellInv, CopyInv, CopiedSoFar
<1>2. before[a] \in Nodes /\ disk \in [Paths -> Nodes] /\ pos \in Nat
  BY <1>1 DEF ShellInv, ShellType
<1>3. d \in Seq(Nat)
  BY <1>2 DEF Nodes
<1>4. SourceData = d
  BY <1>1, <1>2, NodeFacts DEF SourceData
<1> HIDE DEF a, b, d
<1>5. pos = Len(d)
  BY <1>1, <1>2, <1>3, <1>4 DEF More
<1>6. SubSeq(d, 1, pos) = d
  BY <1>3, <1>5, SubSeqFull
<1> QED BY <1>1, <1>6 DEF a, b, d

\* mv removes the source; what it contained has been copied or, with a link
\* back to the source, is lost.
LEMMA CopiedStep ==
  ASSUME ShellInv, Copied
  PROVE  ShellInv'
<1>1. /\ disk \in [Paths -> Nodes] /\ IsTree(disk) /\ ShellType /\ InCommand
      /\ Named(cmd.a) \in Path /\ Real(cmd.b) \in Path
      /\ cmd' = cmd /\ before' = before /\ scope' = scope
      /\ pc = "copied" /\ pc' = "prompt" /\ pos' = pos /\ err' = err
  BY InCommandFacts DEF Copied, Prompt
<1> DEFINE a == Named(cmd.a)
<1>2. UNCHANGED disk \/ (cmd.op = "mv" /\ CanUnlink(a) /\ Set(a, None))
  BY DEF Copied, unlink
<1>3. cmd.op = "mv" => a \in scope
  BY <1>1 DEF ShellInv, InScope, Copying
<1>4. disk' \in [Paths -> Nodes] /\ IsTree(disk')
  <2>1. CASE UNCHANGED disk
    BY <1>1, <2>1
  <2>2. CASE CanUnlink(a) /\ Set(a, None)
    <3> HIDE DEF a
    <3> QED BY <1>1, <2>2, UnlinkFacts, NodesAre, SetTree
  <2> QED BY <1>2, <2>1, <2>2
<1>5. \A q \in Paths : (cmd.op = "mv" => q /= a) => disk'[q] = disk[q]
  BY <1>1, <1>2 DEF Set
<1>6. ShellType'
  BY <1>1, <1>4 DEF ShellType
<1>7. CommandsStayInside'
  BY <1>1, <1>3, <1>5 DEF ShellInv, CommandsStayInside
<1>8. InScope' /\ CopyInv'
  BY <1>1 DEF InScope, CopyInv, Copying
<1>9. MoveInv'
  <2> SUFFICES ASSUME MovesFile' PROVE Saved' \/ LinksBack'
    BY <1>1 DEF MoveInv, Copying
  <2>1. MovesFile /\ ~err /\ cmd.op = "mv" /\ cmd.a \in Paths /\ before[cmd.a].kind = "file"
    BY <1>1 DEF MovesFile
  <2>2. a = cmd.a /\ Real(cmd.a) = cmd.a /\ (Real(cmd.b) /= cmd.a \/ LinksBack)
    BY <1>1, <2>1 DEF ShellInv, MoveInv, Copying
  <2>3. CASE Real(cmd.b) /= cmd.a
    <3> DEFINE b == Real(cmd.b)
    <3>1. b \in Paths /\ disk[b].kind = "file" /\ disk[b].data = before[cmd.a].data
      BY <1>1, <2>1, <2>2, <2>3, CopyIsWhole
    <3>2. disk'[b] = disk[b]
      BY <1>5, <2>2, <2>3, <3>1
    <3> HIDE DEF b
    <3>3. \E p \in Paths : disk'[p].kind = "file" /\ disk'[p].data = before[cmd.a].data
      BY <3>1, <3>2
    <3> QED BY <1>1, <3>3 DEF Saved
  <2>4. CASE LinksBack
    <3>1. disk[cmd.a].kind /= "link"
      BY <1>1, <2>1 DEF ShellInv, CopyInv, Copying, SameLinks
    <3>2. SameLinks(disk', disk)
      <4>1. CASE UNCHANGED disk
        BY <4>1 DEF SameLinks
      <4>2. CASE Set(a, None)
        BY <1>1, <2>1, <2>2, <3>1, <4>2, NodesAre, SetLinks
      <4> QED BY <1>2, <4>1, <4>2
    <3> QED BY <1>1, <2>4, <3>2, SameOperands
  <2> QED BY <2>2, <2>3, <2>4
<1> QED BY <1>4, <1>6, <1>7, <1>8, <1>9 DEF ShellInv

LEMMA SearchStep ==
  ASSUME ShellInv, Search \/ NotFound
  PROVE  ShellInv'
<1>1. /\ UNCHANGED <<disk, cmd, before, scope, err>> /\ pos' \in {pos, pos + 1}
      /\ pc = "search" /\ pc' \in {"search", "prompt"}
  BY DEF Search, NotFound, Prompt, InCommand
<1>2. ShellType' /\ IsTree(disk)' /\ CommandsStayInside'
  BY <1>1 DEF ShellType, ShellInv, CommandsStayInside
<1>3. InScope' /\ CopyInv'
  BY <1>1 DEF InScope, CopyInv, Copying
<1>4. MoveInv'
  <2>1. LinksBack => LinksBack'
    BY <1>1 DEF LinksBack, NodeAt, Named, Real, Linked
  <2>2. Saved => Saved'
    BY <1>1 DEF Saved
  <2>3. MovesFile' => MovesFile
    BY <1>1 DEF MovesFile
  <2> QED BY <1>1, <2>1, <2>2, <2>3 DEF ShellInv, MoveInv, Copying
<1> QED BY <1>2, <1>3, <1>4 DEF ShellInv

\* When a link is removed, a path that led through it leads nowhere.
LEMMA NamedAfterRemoval ==
  ASSUME disk \in [Paths -> Nodes], IsTree(disk), disk' \in [Paths -> Nodes], IsTree(disk'),
         NEW q \in Paths, disk[q].kind = "link", Set(q, None), NEW p \in Path, p /= <<>>
  PROVE  Named(p)' = Named(p) \/ (Named(p)' = p /\ \A r \in Tree(p) : NodeAt(r)'.kind = "none")
<1> DEFINE f == Front(p)
<1>1. /\ f \in Path /\ Len(f) = Len(p) - 1 /\ Len(p) \in Nat /\ f = SubSeq(p, 1, Len(p) - 1)
      /\ Len(p) - 1 \in 0 .. Len(p)
  BY FrontFacts DEF Path
<1>2. disk'[q].kind = "none" /\ \A r \in Paths : r /= q => disk'[r] = disk[r]
  BY NodesAre DEF Set
<1>3. Linked(f)' = {i \in Linked(f) : SubSeq(f, 1, i) /= q}
  BY <1>2 DEF Linked
<1>4. CASE \A i \in Linked(f) : SubSeq(f, 1, i) /= q
  <2>1. Linked(f)' = Linked(f)
    BY <1>3, <1>4
  <2>2. Real(f)' = Real(f)
    <3>1. CASE Linked(f) = {}
      BY <2>1, <3>1 DEF Real
    <3>2. CASE Linked(f) /= {}
      <4> DEFINE k == Min(Linked(f))
      <4>1. k \in Linked(f)
        <5>1. Linked(f) \in SUBSET Nat
          BY DEF Linked
        <5> QED BY <3>2, <5>1, MinExists
      <4>2. SubSeq(f, 1, k) \in Paths /\ SubSeq(f, 1, k) /= q
        BY <1>4, <4>1 DEF Linked
      <4>3. disk'[SubSeq(f, 1, k)] = disk[SubSeq(f, 1, k)]
        BY <1>2, <4>2
      <4> QED BY <2>1, <3>2, <4>3 DEF Real
    <3> QED BY <3>1, <3>2
  <2> QED BY <2>2 DEF Named
<1>5. CASE \E i \in Linked(f) : SubSeq(f, 1, i) = q
  <2>1. PICK i \in Linked(f) : SubSeq(f, 1, i) = q
    BY <1>5
  <2>2. i \in 1 .. Len(f) /\ i \in Nat
    BY <2>1 DEF Linked
  <2> DEFINE n == Len(f)
  <2>3. i \in 1 .. n /\ i \in Nat /\ n \in Nat /\ n = Len(p) - 1
    BY <1>1, <2>2
  \* There is no other link on that path: a link is no directory.
  <2>4. ASSUME NEW j \in Linked(f), SubSeq(f, 1, j) /= q PROVE FALSE
    <3>1. j \in 1 .. n /\ j /= i /\ SubSeq(f, 1, j) \in Paths /\ disk[SubSeq(f, 1, j)].kind = "link"
      BY <2>1, <2>4 DEF Linked
    <3> HIDE DEF n
    <3>2. CASE j < i
      <4>1. j \in 0 .. Len(q) - 1 /\ SubSeq(q, 1, j) = SubSeq(f, 1, j)
        <5>1. i \in 0 .. Len(f) /\ j \in 0 .. i /\ j \in 0 .. i - 1
          BY <2>3, <3>1, <3>2 DEF n
        <5>2. Len(SubSeq(f, 1, i)) = i
          BY <1>1, <5>1, PrefixFacts
        <5>3. SubSeq(SubSeq(f, 1, i), 1, j) = SubSeq(f, 1, j)
          BY <1>1, <5>1, PrefixOfPrefix
        <5> QED BY <2>1, <5>1, <5>2, <5>3
      <4>2. disk[SubSeq(q, 1, j)].kind = "dir"
        BY <4>1 DEF IsTree
      <4> QED BY <3>1, <4>1, <4>2
    <3>3. CASE i < j
      <4> DEFINE r == SubSeq(f, 1, j)
      <4>1. i \in 0 .. Len(r) - 1 /\ SubSeq(r, 1, i) = SubSeq(f, 1, i)
        <5>1. j \in 0 .. Len(f) /\ i \in 0 .. j /\ i \in 0 .. j - 1
          BY <2>3, <3>1, <3>3 DEF n
        <5>2. Len(SubSeq(f, 1, j)) = j
          BY <1>1, <5>1, PrefixFacts
        <5>3. SubSeq(SubSeq(f, 1, j), 1, i) = SubSeq(f, 1, i)
          BY <1>1, <5>1, PrefixOfPrefix
        <5> QED BY <5>1, <5>2, <5>3
      <4>2. r \in Paths /\ disk[r].kind /= "none"
        BY <3>1
      <4> HIDE DEF r
      <4>3. disk[SubSeq(r, 1, i)].kind = "dir"
        BY <4>1, <4>2 DEF IsTree
      <4> QED BY <2>1, <4>1, <4>3
    <3> QED BY <2>3, <3>1, <3>2, <3>3
  <2>5. Linked(f)' = {}
    BY <1>3, <2>4
  <2>6. Named(p)' = p
    <3>1. Real(f)' = f
      BY <2>5 DEF Real
    <3> QED BY <3>1, AppendFront DEF Named
  <2>7. ASSUME NEW r \in Tree(p) PROVE NodeAt(r)'.kind = "none"
    <3>1. CASE r \notin Paths
      BY <3>1, NodesAre DEF NodeAt
    <3>2. CASE r \in Paths /\ disk'[r].kind /= "none"
      <4>1. Len(p) <= Len(r) /\ SubSeq(r, 1, Len(p)) = p /\ Len(r) \in Nat /\ r \in Path
        BY <3>2, TreeFacts, PathsAre
      <4> DEFINE lp == Len(p)
                 lr == Len(r)
      <4>2. lp \in Nat /\ lr \in Nat /\ lp <= lr /\ n = lp - 1
        BY <1>1, <2>3, <4>1
      <4> HIDE DEF lp, lr, n
      <4>3. i \in 0 .. lr - 1 /\ i \in 0 .. lp /\ lp \in 0 .. lr /\ i \in 0 .. n /\ n \in 0 .. lp
        BY <2>3, <4>2
      <4>4. SubSeq(r, 1, i) = SubSeq(p, 1, i)
        <5>1. SubSeq(SubSeq(r, 1, lp), 1, i) = SubSeq(r, 1, i)
          BY <4>1, <4>3, PrefixOfPrefix DEF lr
        <5> QED BY <4>1, <5>1 DEF lp
      <4>5. SubSeq(f, 1, i) = SubSeq(p, 1, i)
        <5>1. SubSeq(SubSeq(p, 1, n), 1, i) = SubSeq(p, 1, i)
          BY <4>3, PrefixOfPrefix DEF lp
        <5>2. f = SubSeq(p, 1, n)
          BY <1>1, <4>2 DEF lp
        <5> QED BY <5>1, <5>2
      <4>6. disk'[SubSeq(r, 1, i)].kind = "dir"
        BY <3>2, <4>3 DEF IsTree, lr
      <4> QED BY <1>2, <2>1, <4>4, <4>5, <4>6
    <3>3. CASE r \in Paths /\ disk'[r].kind = "none"
      BY <3>3 DEF NodeAt
    <3> QED BY <3>1, <3>2, <3>3
  <2> QED BY <2>6, <2>7
<1> QED BY <1>4, <1>5

LEMMA RmrStep ==
  ASSUME ShellInv, NEW a \in Path, cmd_rm_r(a)
  PROVE  ShellInv'
<1>1. /\ cmd' = [op |-> "rm-r", a |-> a, b |-> <<>>] /\ before' = disk /\ scope' = Tree(Named(a))
      /\ pos' = 0 /\ err' = FALSE /\ pc' = "remove" /\ UNCHANGED disk
  BY DEF cmd_rm_r, Begin, Scope
<1>2. ShellType'
  <2>1. <<>> \in Path
    BY EmptySeq DEF Path
  <2> QED BY <1>1, <2>1 DEF ShellInv, ShellType, Ops
<1>3. IsTree(disk)'
  BY <1>1 DEF ShellInv
<1>4. CommandsStayInside'
  BY <1>1 DEF CommandsStayInside
<1>5. InScope'
  <2>1. Named(a)' = Named(a)
    BY <1>1, SameDisk
  <2>2. (Named(cmd.a))' = Named(a)
    BY <1>1, <2>1
  <2>3. (Tree(Named(cmd.a)) \subseteq scope)'
    BY <1>1, <2>2 DEF Tree
  <2> QED BY <1>1, <2>3 DEF InScope, Copying
<1>6. CopyInv'
  BY <1>1 DEF CopyInv, Copying
<1>7. MoveInv'
  BY <1>1 DEF MoveInv, MovesFile
<1> QED BY <1>2, <1>3, <1>4, <1>5, <1>6, <1>7 DEF ShellInv

\* rm -r removes an entry of its directory, or skips it, or is at its end.
LEMMA RemoveStep ==
  ASSUME ShellInv, rm_recursive
  PROVE  ShellInv'
<1>1. /\ disk \in [Paths -> Nodes] /\ IsTree(disk) /\ ShellType /\ InCommand /\ CommandsStayInside
      /\ cmd.a \in Path /\ Named(cmd.a) \in Path
      /\ cmd' = cmd /\ before' = before /\ scope' = scope
      /\ pc = "remove" /\ pc' \in {"remove", "prompt"} /\ pos' = pos /\ err' = err
  BY InCommandFacts DEF rm_recursive, Prompt, ShellType, ShellInv
<1>2. cmd.op = "rm-r" /\ (Tree(Named(cmd.a)) \subseteq scope \/ Gone(Named(cmd.a)))
  BY <1>1 DEF ShellInv, InScope
<1>3. MoveInv'
  BY <1>1, <1>2 DEF MoveInv, MovesFile
<1>4. CASE UNCHANGED disk
  <2>1. ShellType' /\ IsTree(disk)' /\ CommandsStayInside'
    BY <1>1, <1>4 DEF ShellType, CommandsStayInside
  <2>2. InScope' /\ CopyInv'
    <3>1. Named(cmd.a)' = Named(cmd.a) /\ (Gone(Named(cmd.a)) => Gone(Named(cmd.a))')
      <4>1. Named(cmd.a)' = Named(cmd.a)
        BY <1>1, <1>4, SameDisk
      <4> QED BY <1>4, <4>1 DEF Gone, NodeAt
    <3>2. (Tree(Named(cmd.a)) \subseteq scope \/ Gone(Named(cmd.a)))'
      BY <1>1, <1>2, <3>1
    <3> QED BY <1>1, <1>2, <3>2 DEF InScope, CopyInv, Copying
  <2> QED BY <1>3, <2>1, <2>2 DEF ShellInv
<1>5. ASSUME NEW q \in Left, CanUnlink(q) \/ CanRemoveDir(q), Set(q, None), pc' = "remove"
      PROVE  ShellInv'
  <2>1. q \in Tree(Named(cmd.a)) /\ NodeAt(q).kind /= "none" /\ q \in Paths
    BY <1>1, <1>5, NodeFacts DEF Left, EntriesOf
  <2>2. Tree(Named(cmd.a)) \subseteq scope /\ q \in scope
    BY <1>2, <2>1 DEF Gone
  <2>3. disk' \in [Paths -> Nodes] /\ IsTree(disk')
    BY <1>1, <1>5, <2>1, UnlinkFacts, NodesAre, SetTree
  <2>4. \A r \in Paths : r /= q => disk'[r] = disk[r]
    BY <1>1, <1>5 DEF Set
  <2>5. ShellType' /\ IsTree(disk)' /\ CommandsStayInside'
    BY <1>1, <2>2, <2>3, <2>4 DEF ShellType, CommandsStayInside
  <2>6. (Tree(Named(cmd.a)) \subseteq scope \/ Gone(Named(cmd.a)))'
    <3>1. CASE Named(cmd.a)' = Named(cmd.a)
      BY <1>1, <2>2, <3>1 DEF Tree
    <3>2. CASE Named(cmd.a)' /= Named(cmd.a)
      <4>1. disk[q].kind = "link"
        <5>1. disk[q].kind /= "link" => SameLinks(disk', disk)
          BY <1>1, <1>5, <2>1, NodesAre, SetLinks
        <5> QED BY <1>1, <3>2, <5>1, SameOperands
      <4>2. cmd.a /= <<>>
        <5>1. cmd.a = <<>> => Named(cmd.a)' = Named(cmd.a)
          BY <1>1 DEF Named
        <5> QED BY <3>2, <5>1
      <4>3. Named(cmd.a)' = cmd.a /\ \A r \in Tree(cmd.a) : NodeAt(r)'.kind = "none"
        <5>1. \A p \in Path : p /= <<>> => Named(p)' = Named(p) \/ (Named(p)' = p /\ \A r \in Tree(p) : NodeAt(r)'.kind = "none")
          BY <1>1, <1>5, <2>1, <2>3, <4>1, NamedAfterRemoval
        <5> QED BY <1>1, <3>2, <4>2, <5>1
      <4> QED BY <1>1, <4>3 DEF Gone, Tree, Below
    <3> QED BY <3>1, <3>2
  <2>7. InScope' /\ CopyInv'
    BY <1>1, <1>2, <1>5, <2>6 DEF InScope, CopyInv, Copying
  <2> QED BY <1>3, <2>5, <2>7 DEF ShellInv
<1> QED BY <1>4, <1>5 DEF rm_recursive

LEMMA CommandStep ==
  ASSUME ShellInv, Command
  PROVE  ShellInv'
<1>1. Operands \subseteq Path
  BY ShellAssumption DEF Path
<1>2. <<>> \in Path
  BY EmptySeq DEF Path
<1>3. ASSUME NEW a \in Operands,
             cmd_mkdir(a) \/ cmd_rmdir(a) \/ cmd_touch(a) \/ cmd_rm(a) \/ cmd_rm_r(a) \/ TailOfNone(a)
      PROVE  ShellInv'
  BY <1>1, <1>3, MkdirStep, RmdirStep, TouchStep, RmStep, RmrStep, NoChange
<1>4. ASSUME NEW a \in Operands, NEW b \in Operands, cmd_cp(a, b) \/ cmd_mv(a, b)
      PROVE  ShellInv'
  BY <1>1, <1>4, CpStep, MvStep
<1>5. CASE OpenBoth
  <2>1. pc' = "copy" \/ pc' = "copied"
    BY <1>5 DEF OpenBoth
  <2> QED BY <1>5, <2>1, OpenSucceeds, OpenFails
<1>6. CASE CopyBlock \/ EndCopy \/ Copied
  BY <1>6, CopyStep, EndStep, CopiedStep
<1>7. CASE rm_recursive
  BY <1>7, RemoveStep
<1>8. CASE Program \/ Search \/ NotFound
  BY <1>2, <1>8, NoChange, SearchStep
<1> QED BY <1>3, <1>4, <1>5, <1>6, <1>7, <1>8 DEF Command

LEMMA InitShellInv == Init => ShellInv
<1> SUFFICES ASSUME Init PROVE ShellInv
  OBVIOUS
<1>1. /\ disk = Disk /\ before = disk /\ cmd = [op |-> "none", a |-> <<>>, b |-> <<>>]
      /\ pos = 0 /\ err = FALSE /\ pc = "boot"
  BY DEF Init, ShellInit, NoCmd
<1>2. ShellType
  <2>1. <<>> \in Path
    BY EmptySeq DEF Path
  <2> QED BY <1>1, <2>1, ShellAssumption DEF ShellType, Ops
<1>3. IsTree(disk) /\ CommandsStayInside
  BY <1>1, ShellAssumption DEF CommandsStayInside
<1>4. InScope /\ CopyInv /\ MoveInv
  BY <1>1 DEF InScope, CopyInv, MoveInv, MovesFile, Copying
<1> QED BY <1>2, <1>3, <1>4 DEF ShellInv

-----------------------------------------------------------------------------
(* The setup and the login. *)

\* Where the shell is, with a command and without.
ShellPc == {"prompt", "open", "copy", "copied", "remove", "search", "dead"}
SetupPc == {"setup", "files", "written", "files2", "written2"}

AuthFile == {<<>>, <<Empty>>} \cup (Names \X (Passwords \cup {NoPassword}))
TypeInv ==
  /\ pc \in ShellPc \cup SetupPc \cup {"boot", "login"}
  /\ marker \in Names \cup {Absent, Empty} /\ auth \in [Names -> AuthFile]
  /\ user \in Names /\ password \in Passwords \cup {NoPassword}
  /\ setup \in BOOLEAN /\ full \in BOOLEAN

\* What the setup has written so far, if no write of it failed, and whose
\* name the program uses.
Written(n) == auth[n] = <<n, password>>
Begun ==
  /\ pc \in SetupPc \ {"written2"} => marker = Absent
  /\ pc = "files2" => full \/ Written(user)
  /\ pc = "written2" => marker = Empty /\ (full \/ Written(user))
Done == marker \notin {Absent, Empty} => full \/ Written(marker)
KnownUser ==
  /\ pc = "login" => ~setup
  /\ pc \in SetupPc => setup
  /\ pc \notin SetupPc \cup {"boot"} /\ ~setup => marker /= Absent /\ (marker = Empty \/ user = marker)
IInv == TypeInv /\ Begun /\ Done /\ KnownUser

files == <<marker, auth, user, password, setup, full, fails>>

\* The commands of the shell stay in the shell and leave the setup alone.
LEMMA CommandFacts ==
  ASSUME pc \in ShellPc \cup SetupPc \cup {"boot", "login"}, Command
  PROVE  pc \in ShellPc /\ pc' \in ShellPc
<1>1. ASSUME NEW op, NEW a, NEW b, Begin(op, a, b) PROVE pc = "prompt"
  BY <1>1 DEF Begin
<1>2. ASSUME NEW a,
             cmd_mkdir(a) \/ cmd_rmdir(a) \/ cmd_touch(a) \/ cmd_rm(a) \/ cmd_rm_r(a) \/ TailOfNone(a)
      PROVE  pc \in ShellPc /\ pc' \in ShellPc
  BY <1>1, <1>2 DEF cmd_mkdir, cmd_rmdir, cmd_touch, cmd_rm, cmd_rm_r, TailOfNone, IfPossible, Prompt, ShellPc
<1>3. ASSUME NEW a, NEW b, cmd_cp(a, b) \/ cmd_mv(a, b)
      PROVE  pc \in ShellPc /\ pc' \in ShellPc
  BY <1>1, <1>3 DEF cmd_cp, cmd_mv, Prompt, ShellPc
<1>4. CASE OpenBoth \/ CopyBlock \/ EndCopy \/ Copied
  BY <1>4 DEF OpenBoth, CopyBlock, EndCopy, Copied, Prompt, ShellPc
<1>5. CASE rm_recursive
  BY <1>5 DEF rm_recursive, Prompt, ShellPc
<1>6. CASE Program \/ Search \/ NotFound
  BY <1>1, <1>6 DEF Program, Search, NotFound, Prompt, ShellPc
<1> QED BY <1>2, <1>3, <1>4, <1>5, <1>6 DEF Command

\* The four steps that write the two files.
LEMMA StepFacts ==
  /\ Step(1) = "files" /\ Step(2) = "written" /\ Step(3) = "files2" /\ Step(4) = "written2"
  /\ After(1) = "written" /\ After(2) = "files2" /\ After(3) = "written2" /\ After(4) = "prompt"
BY DEF Step, After

LEMMA FileFacts ==
  /\ SetupFiles[(1 + 1) \div 2] = "auth" /\ SetupFiles[2 \div 2] = "auth"
  /\ SetupFiles[(3 + 1) \div 2] = "marker" /\ SetupFiles[4 \div 2] = "marker"
<1>1. (1 + 1) \div 2 = 1 /\ 2 \div 2 = 1 /\ (3 + 1) \div 2 = 2 /\ 4 \div 2 = 2
  OBVIOUS
<1> QED BY <1>1 DEF SetupFiles

LEMMA InitIInv == Init => IInv
BY Pid1Assumption DEF Init, IInv, TypeInv, Begun, Done, KnownUser, AuthFile, SetupPc, Absent, Empty

LEMMA OpenStep ==
  ASSUME IInv, NEW k \in 1 .. 4, OpenFile(k)
  PROVE  IInv'
<1> USE DEF IInv, TypeInv, Begun, Done, KnownUser, Written, SetupPc, ShellPc, Absent, Empty
<1>1. UNCHANGED <<user, password, setup, fails>>
  BY DEF OpenFile
<1>2. CASE k = 1
  <2>1. pc = "files" /\ marker = Absent
    BY <1>2, StepFacts DEF OpenFile
  <2>2. CASE pc' = "written" /\ auth' = [auth EXCEPT ![user] = <<Empty>>] /\ UNCHANGED <<marker, full>>
    <3>1. auth' \in [Names -> AuthFile]
      BY <2>2 DEF AuthFile
    <3> QED BY <1>1, <2>1, <2>2, <3>1
  <2>3. CASE pc' = "files2" /\ full' = TRUE /\ UNCHANGED <<marker, auth>>
    BY <1>1, <2>1, <2>3
  <2> QED BY <1>2, <2>2, <2>3, StepFacts, FileFacts DEF OpenFile, Goto, Write
<1>3. CASE k = 3
  <2>1. pc = "files2" /\ marker = Absent /\ (full \/ Written(user))
    BY <1>3, StepFacts DEF OpenFile
  <2>2. CASE pc' = "written2" /\ marker' = Empty /\ UNCHANGED <<auth, full>>
    BY <1>1, <2>1, <2>2
  <2>3. CASE pc' = "prompt" /\ full' = TRUE /\ UNCHANGED <<marker, auth>>
    BY <1>1, <2>1, <2>3
  <2> QED BY <1>3, <2>2, <2>3, StepFacts, FileFacts DEF OpenFile, Goto, Write
<1> QED BY <1>2, <1>3 DEF OpenFile

LEMMA WriteStep ==
  ASSUME IInv, NEW k \in 1 .. 4, WriteFile(k)
  PROVE  IInv'
<1> USE DEF IInv, TypeInv, Begun, Done, KnownUser, Written, SetupPc, ShellPc, Absent, Empty
<1>1. UNCHANGED <<user, password, setup, fails>>
  BY DEF WriteFile
<1>2. CASE k = 2
  <2>1. pc = "written" /\ marker = Absent /\ pc' = "files2"
    BY <1>2, StepFacts DEF WriteFile, Goto
  <2>2. CASE auth' = [auth EXCEPT ![user] = <<user, password>>] /\ UNCHANGED <<marker, full>>
    <3>1. auth' \in [Names -> AuthFile] /\ auth'[user] = <<user, password>>
      BY <2>2 DEF AuthFile
    <3> QED BY <1>1, <2>1, <2>2, <3>1
  <2>3. CASE full' = TRUE /\ UNCHANGED <<marker, auth>>
    BY <1>1, <2>1, <2>3
  <2> QED BY <1>2, <2>2, <2>3, FileFacts DEF WriteFile, Write
<1>3. CASE k = 4
  <2>1. pc = "written2" /\ marker = Empty /\ (full \/ Written(user)) /\ pc' = "prompt"
    BY <1>3, StepFacts DEF WriteFile, Goto
  <2>2. CASE marker' = user /\ UNCHANGED <<auth, full>>
    BY <1>1, <2>1, <2>2
  <2>3. CASE full' = TRUE /\ UNCHANGED <<marker, auth>>
    BY <1>1, <2>1, <2>3
  <2> QED BY <1>3, <2>2, <2>3, FileFacts DEF WriteFile, Write
<1> QED BY <1>2, <1>3 DEF WriteFile

LEMMA StepIInv == IInv /\ [Next]_vars => IInv'
<1> SUFFICES ASSUME IInv, [Next]_vars PROVE IInv'
  OBVIOUS
<1> USE DEF IInv, TypeInv, Begun, Done, KnownUser, Written, SetupPc, ShellPc
<1>1. CASE UNCHANGED <<pc, files>>
  BY <1>1 DEF files
<1>2. CASE Boot
  <2>1. CASE marker = Absent
    BY <1>2, <2>1 DEF Boot, Goto
  <2>2. CASE marker /= Absent
    BY <1>2, <2>2, Pid1Assumption DEF Boot, Goto, ReadName, Absent, Empty
  <2> QED BY <2>1, <2>2
<1>3. ASSUME NEW n \in ChosenNames, NEW p \in ChosenPasswords \cup {NoPassword}, Choose(n, p)
      PROVE  IInv'
  BY <1>3, Pid1Assumption DEF Choose, Goto
<1>4. ASSUME NEW p, Login(p) PROVE IInv'
  BY <1>4 DEF Login, Goto
<1>5. CASE Logout
  BY <1>5 DEF Logout, Goto
<1>6. CASE Exit
  BY <1>6 DEF Exit, Goto
<1>7. CASE PowerFails
  BY <1>7, Pid1Assumption DEF PowerFails
<1>8. CASE Command /\ UNCHANGED files
  <2>1. pc \in ShellPc /\ pc' \in ShellPc
    BY <1>8, CommandFacts
  <2> QED BY <1>8, <2>1 DEF files
<1> QED BY <1>1, <1>2, <1>3, <1>4, <1>5, <1>6, <1>7, <1>8, OpenStep, WriteStep DEF Next, vars, files

\* A setup that was finished lets its user in, with the password that was
\* chosen and, but for the empty one, no other, whenever and however often the
\* power failed (main.c:954-964, 987-1009).
THEOREM LoginHolds == Spec => []LoginAsChosen
<1>1. IInv => LoginAsChosen
  <2> SUFFICES ASSUME IInv, pc = "login", marker /= Empty, ~full
               PROVE  marker = user /\ {p \in Passwords : Accepts(p)} = {password} \cap Passwords
    BY DEF LoginAsChosen
  <2>1. marker = user /\ auth[user] = <<user, password>>
    BY DEF IInv, Done, KnownUser, Written, SetupPc
  <2>2. ASSUME NEW p \in Passwords PROVE Accepts(p) <=> p = password
    BY <2>1, Pid1Assumption DEF Accepts
  <2> QED BY <2>1, <2>2
<1> QED BY <1>1, InitIInv, StepIInv, PTL DEF Spec

-----------------------------------------------------------------------------
(* The commands, whatever else happens. *)

\* The setup and the login leave the tree and the command alone, and a command
\* that a power failure cuts short is forgotten.
LEMMA OtherStep ==
  ASSUME ShellInv, pc \notin {"open", "copy", "copied", "remove"}, pc' \notin {"open", "copy", "copied", "remove"},
         UNCHANGED cmdvars
  PROVE  ShellInv'
<1>1. UNCHANGED <<disk, cmd, before, scope, pos, err>>
  BY DEF cmdvars
<1>2. ShellType' /\ IsTree(disk)' /\ CommandsStayInside'
  BY <1>1 DEF ShellType, ShellInv, CommandsStayInside
<1>3. InScope' /\ CopyInv'
  BY DEF InScope, CopyInv, Copying
<1>4. MoveInv'
  <2>1. LinksBack => LinksBack'
    BY <1>1 DEF LinksBack, NodeAt, Named, Real, Linked
  <2>2. (Saved => Saved') /\ (MovesFile' => MovesFile)
    BY <1>1 DEF Saved, MovesFile
  <2> QED BY <2>1, <2>2 DEF ShellInv, MoveInv, Copying
<1> QED BY <1>2, <1>3, <1>4 DEF ShellInv

LEMMA PowerStep ==
  ASSUME ShellInv, PowerFails
  PROVE  ShellInv'
<1>1. /\ cmd' = [op |-> "none", a |-> <<>>, b |-> <<>>] /\ pos' = 0 /\ err' = FALSE
      /\ before' = disk /\ UNCHANGED disk /\ pc' = "boot"
  BY DEF PowerFails, NoCmd
<1>2. ShellType'
  <2>1. <<>> \in Path
    BY EmptySeq DEF Path
  <2> QED BY <1>1, <2>1 DEF ShellInv, ShellType, Ops
<1>3. IsTree(disk)' /\ CommandsStayInside'
  BY <1>1 DEF ShellInv, CommandsStayInside
<1>4. InScope' /\ CopyInv' /\ MoveInv'
  BY <1>1 DEF InScope, CopyInv, MoveInv, MovesFile, Copying
<1> QED BY <1>2, <1>3, <1>4 DEF ShellInv

LEMMA StepShellInv == ShellInv /\ [Next]_vars => ShellInv'
<1> SUFFICES ASSUME ShellInv, [Next]_vars PROVE ShellInv'
  OBVIOUS
<1> DEFINE Running == {"open", "copy", "copied", "remove"}
<1>1. CASE UNCHANGED vars
  <2>1. UNCHANGED <<pc, disk, cmd, pos, err, before, scope>>
    BY <1>1 DEF vars, cmdvars
  <2>2. /\ ShellType' = ShellType /\ IsTree(disk)' = IsTree(disk) /\ CommandsStayInside' = CommandsStayInside
        /\ InScope' = InScope
    BY <2>1 DEF ShellType, CommandsStayInside, InScope, Copying, Gone, Tree, Below, Named, Real, Linked, NodeAt
  <2>3. CopyInv' = CopyInv
    BY <2>1 DEF CopyInv, Copying, CopiedSoFar, SameLinks, More, SourceData, NodeAt, Real, Linked
  <2>4. MoveInv' = MoveInv
    BY <2>1 DEF MoveInv, MovesFile, Saved, Copying, LinksBack, NodeAt, Named, Real, Linked
  <2> QED BY <2>2, <2>3, <2>4 DEF ShellInv
<1>2. CASE Boot \/ Logout \/ Exit
  <2>1. UNCHANGED cmdvars /\ pc \notin Running /\ pc' \notin Running
    BY <1>2 DEF Boot, Logout, Exit, Goto
  <2> QED BY <2>1, OtherStep
<1>3. CASE PowerFails
  BY <1>3, PowerStep
<1>4. ASSUME NEW n, NEW p, Choose(n, p) PROVE ShellInv'
  <2>1. UNCHANGED cmdvars /\ pc \notin Running /\ pc' \notin Running
    BY <1>4 DEF Choose, Goto
  <2> QED BY <2>1, OtherStep
<1>5. ASSUME NEW k \in 1 .. 4, OpenFile(k) \/ WriteFile(k) PROVE ShellInv'
  <2>1. Step(k) \notin Running /\ After(k) \notin Running /\ Step(3) \notin Running
    <3>1. k = 1 \/ k = 2 \/ k = 3 \/ k = 4
      OBVIOUS
    <3> QED BY <3>1, StepFacts
  <2>2. UNCHANGED cmdvars /\ pc \notin Running /\ pc' \notin Running
    BY <1>5, <2>1 DEF OpenFile, WriteFile, Goto
  <2> QED BY <2>2, OtherStep
<1>6. ASSUME NEW p, Login(p) PROVE ShellInv'
  <2>1. UNCHANGED cmdvars /\ pc \notin Running /\ pc' \notin Running
    BY <1>6 DEF Login, Goto
  <2> QED BY <2>1, OtherStep
<1>7. CASE Command
  BY <1>7, CommandStep
<1> QED BY <1>1, <1>2, <1>3, <1>4, <1>5, <1>6, <1>7 DEF Next

\* The tree stays a tree of nodes, with the root and the mount point, whatever
\* commands are typed and whenever the power fails.
THEOREM TreeStays == Spec => [](ShellType /\ IsTree(disk))
<1>1. ShellInv => ShellType /\ IsTree(disk)
  BY DEF ShellInv
<1> QED BY <1>1, InitShellInv, StepShellInv, PTL DEF Spec

\* No command changes anything outside what its operands name, at no moment of
\* it: rm -r does not leave its directory through a link, and a failed rename
\* of mv touches nothing but the source and the destination (main.c:252-332).
THEOREM StaysInside == Spec => []CommandsStayInside
<1>1. ShellInv => CommandsStayInside
  BY DEF ShellInv
<1> QED BY <1>1, InitShellInv, StepShellInv, PTL DEF Spec

\* A copy whose system calls went well has every line of the source, and after
\* such an mv what the file contained is somewhere, unless the destination is a
\* link back to the source on another file system (main.c:252-288).
THEOREM CopyIsExact == Spec => []CopyExact
<1>1. ShellInv => CopyExact
  <2> SUFFICES ASSUME ShellInv, ~err PROVE CopyExact
    BY DEF CopyExact
  <2>1. ASSUME pc = "copied", Real(cmd.a) /= Real(cmd.b)
        PROVE  /\ NodeAt(Real(cmd.b)).data = before[Real(cmd.a)].data
               /\ NodeAt(Real(cmd.a)) = before[Real(cmd.a)]
    <3>1. disk \in [Paths -> Nodes]
      BY DEF ShellInv, ShellType
    <3> QED BY <2>1, <3>1, CopyIsWhole, NodeFacts
  <2>2. ASSUME pc = "prompt", cmd.op = "mv", cmd.a \in Paths, before[cmd.a].kind = "file"
        PROVE  \/ \E p \in Paths : disk[p].kind = "file" /\ disk[p].data = before[cmd.a].data
               \/ LinksBack
    BY <2>2 DEF ShellInv, MoveInv, MovesFile, Saved, Copying
  <2> QED BY <2>1, <2>2 DEF CopyExact
<1> QED BY <1>1, InitShellInv, StepShellInv, PTL DEF Spec

-----------------------------------------------------------------------------
(* The loops of the text commands. *)

\* A loop of L steps: the recursive function that stands for it exists.
Runs(S, s, L, step) == \E f \in [0 .. L -> S] : f[0] = s /\ \A k \in 1 .. L : f[k] = step[<<f[k - 1], k>>]
LEMMA Loop ==
  ASSUME NEW S, NEW s \in S, NEW L \in Nat, NEW step \in [S \X (1 .. L) -> S]
  PROVE  Runs(S, s, L, step)
<1> DEFINE Good(m) == \E f \in [0 .. m -> S] : f[0] = s /\ \A k \in 1 .. m : f[k] = step[<<f[k - 1], k>>]
           D == {m \in Nat : m <= L /\ ~Good(m)}
<1>1. SUFFICES ASSUME D /= {} PROVE FALSE
  <2> HIDE DEF Good
  <2>1. L \notin D => Good(L)
    OBVIOUS
  <2> QED BY <2>1 DEF Good, Runs
<1>2. PICK m \in D : \A l \in D : m <= l
  <2>1. D \in SUBSET Nat
    OBVIOUS
  <2> HIDE DEF D
  <2> QED BY <1>1, <2>1, LeastExists
<1>3. Good(0)
  <2> DEFINE f == [k \in 0 .. 0 |-> s]
  <2>1. f \in [0 .. 0 -> S] /\ f[0] = s /\ \A k \in 1 .. 0 : f[k] = step[<<f[k - 1], k>>]
    OBVIOUS
  <2> QED BY <2>1
<1>4. m \in Nat /\ m <= L /\ m /= 0
  BY <1>2, <1>3
<1>5. Good(m - 1)
  BY <1>2, <1>4
<1>6. PICK f \in [0 .. m - 1 -> S] : f[0] = s /\ \A k \in 1 .. m - 1 : f[k] = step[<<f[k - 1], k>>]
  BY <1>5
<1> DEFINE v == step[<<f[m - 1], m>>]
           g == [k \in 0 .. m |-> IF k = m THEN v ELSE f[k]]
<1>7. v \in S
  <2>1. f[m - 1] \in S /\ m \in 1 .. L
    BY <1>4, <1>6
  <2> QED BY <2>1
<1>8. g \in [0 .. m -> S] /\ g[0] = s
  <2> HIDE DEF v
  <2> QED BY <1>4, <1>6, <1>7
<1>9. ASSUME NEW k \in 1 .. m PROVE g[k] = step[<<g[k - 1], k>>]
  <2>1. g[k - 1] = f[k - 1]
    BY <1>4
  <2>2. CASE k = m
    <3>1. g[k] = v /\ v = step[<<f[k - 1], k>>]
      BY <1>4, <2>2
    <3> QED BY <2>1, <3>1
  <2>3. CASE k /= m
    <3>1. k \in 1 .. m - 1 /\ g[k] = f[k]
      BY <1>4, <2>3
    <3> QED BY <1>6, <2>1, <3>1
  <2> QED BY <2>2, <2>3
<1>10. Good(m)
  <2> HIDE DEF g
  <2> QED BY <1>8, <1>9
<1> QED BY <1>2, <1>10

-----------------------------------------------------------------------------
(* tail. *)

LEMMA Remainder == ASSUME NEW a \in Nat, NEW n \in Nat, n > 0
  PROVE /\ a % n \in Nat /\ a % n < n /\ a \div n \in Nat /\ a = n * (a \div n) + (a % n)
OBVIOUS

LEMMA RemainderIs ==
  ASSUME NEW a \in Nat, NEW n \in Nat, n > 0, NEW q \in Nat, NEW r \in Nat, r < n, a = n * q + r
  PROVE  a % n = r
OBVIOUS

LEMMA RemainderOnward ==
  ASSUME NEW a \in Nat, NEW n \in Nat, n > 0
  PROVE  (a + n) % n = a % n
<1>1. PICK q \in Nat : q = a \div n
  BY Remainder
<1>2. PICK r \in Nat : r = a % n /\ r < n
  BY Remainder
<1>3. a = n * q + r
  BY <1>1, <1>2, Remainder
<1>4. a + n \in Nat /\ q + 1 \in Nat /\ a + n = n * (q + 1) + r
  BY <1>3
<1> QED BY <1>2, <1>4, RemainderIs

\* Fewer than n lines one after the other are in different slots.
LEMMA RemaindersDiffer ==
  ASSUME NEW a \in Nat, NEW b \in Nat, NEW n \in Nat, n > 0, a < b, b < a + n
  PROVE  a % n /= b % n
<1>1. SUFFICES ASSUME a % n = b % n PROVE FALSE
  OBVIOUS
<1>2. PICK r \in Nat : r = a % n /\ r < n
  BY Remainder
<1>3. PICK q \in Nat : q = a \div n
  BY Remainder
<1>4. PICK p \in Nat : p = b \div n
  BY Remainder
<1>5. a = n * q + r
  BY <1>2, <1>3, Remainder
<1>6. b = n * p + r
  BY <1>1, <1>2, <1>4, Remainder
<1>7. b - a = n * (p - q) /\ p - q \in Int
  BY <1>5, <1>6
<1>8. CASE p <= q
  BY <1>7, <1>8
<1>9. CASE p >= q + 1
  BY <1>7, <1>9
<1> QED BY <1>8, <1>9

LEMMA RemainderPlus ==
  ASSUME NEW a \in Nat, NEW b \in Nat, NEW n \in Nat, n > 0
  PROVE  ((a % n) + b) % n = (a + b) % n
<1>1. PICK r \in Nat : r = a % n /\ r < n
  BY Remainder
<1>2. PICK q \in Nat : q = a \div n
  BY Remainder
<1>3. a = n * q + r
  BY <1>1, <1>2, Remainder
<1>4. PICK c \in Nat : c = r + b
  OBVIOUS
<1>5. PICK u \in Nat : u = c % n /\ u < n
  BY Remainder
<1>6. PICK t \in Nat : t = c \div n
  BY Remainder
<1>7. c = n * t + u
  BY <1>5, <1>6, Remainder
<1>8. a + b \in Nat /\ q + t \in Nat /\ a + b = n * (q + t) + u
  BY <1>3, <1>4, <1>7
<1>9. (a + b) % n = u
  BY <1>5, <1>8, RemainderIs
<1> QED BY <1>1, <1>4, <1>5, <1>9

\* The ring is filled one line after the other.
Kept(lines, n, f) ==
  f = [k \in 0 .. Len(lines) |->
        IF k = 0 THEN [i \in 0 .. n - 1 |-> 0] ELSE [f[k - 1] EXCEPT ![(k - 1) % n] = lines[k]]]

LEMMA RingIs ==
  ASSUME NEW lines \in Seq(Nat), NEW n \in Nat, n > 0
  PROVE  \E f \in [0 .. Len(lines) -> [0 .. n - 1 -> Nat]] :
           /\ \A k \in 1 .. Len(lines) : f[k] = [f[k - 1] EXCEPT ![(k - 1) % n] = lines[k]]
           /\ Ring(lines, n) = f[Len(lines)]
<1> DEFINE S == [0 .. n - 1 -> Nat]
           s == [i \in 0 .. n - 1 |-> 0]
           L == Len(lines)
           Put(r, k) == [r EXCEPT ![(k - 1) % n] = lines[k]]
           step == [x \in S \X (1 .. L) |-> Put(x[1], x[2])]
<1>1. L \in Nat /\ s \in S
  OBVIOUS
<1>2. step \in [S \X (1 .. L) -> S]
  <2>1. ASSUME NEW x \in S \X (1 .. L) PROVE Put(x[1], x[2]) \in S
    <3>1. x[1] \in S /\ x[2] \in 1 .. L
      OBVIOUS
    <3>2. lines[x[2]] \in Nat
      BY <3>1
    <3> QED BY <3>1, <3>2
  <2> HIDE DEF Put
  <2> QED BY <2>1
<1>3. PICK f \in [0 .. L -> S] : f[0] = s /\ \A k \in 1 .. L : f[k] = step[<<f[k - 1], k>>]
  <2> HIDE DEF S, s, L, step, Put
  <2>1. Runs(S, s, L, step)
    BY <1>1, <1>2, Loop, Zenon
  <2> QED BY <2>1 DEF Runs
<1>4. ASSUME NEW k \in 1 .. L PROVE f[k] = Put(f[k - 1], k)
  <2> HIDE DEF Put
  <2>1. f[k - 1] \in S
    <3>1. k - 1 \in 0 .. L
      BY <1>1
    <3> HIDE DEF S
    <3> QED BY <3>1
  <2>2. step[<<f[k - 1], k>>] = Put(f[k - 1], k)
    BY <2>1
  <2> QED BY <1>3, <2>2
<1>5. Kept(lines, n, f)
  <2>1. ASSUME NEW k \in 0 .. L PROVE f[k] = IF k = 0 THEN s ELSE Put(f[k - 1], k)
    <3> HIDE DEF S, s, step, Put
    <3>1. CASE k = 0
      BY <1>3, <3>1
    <3>2. CASE k /= 0
      BY <1>1, <1>4, <3>2
    <3> QED BY <3>1, <3>2
  <2>2. f = [k \in 0 .. L |-> f[k]]
    OBVIOUS
  <2>3. f = [k \in 0 .. L |-> IF k = 0 THEN s ELSE Put(f[k - 1], k)]
    <3> HIDE DEF S, s, step, Put
    <3> QED BY <2>1, <2>2
  <2> QED BY <2>3 DEF Kept
<1> DEFINE g == CHOOSE g : Kept(lines, n, g)
<1>6. g = [k \in 0 .. L |-> IF k = 0 THEN s ELSE Put(g[k - 1], k)]
  <2>1. Kept(lines, n, g)
    BY <1>5
  <2> QED BY <2>1 DEF Kept
<1>7. Ring(lines, n) = g[L]
  BY DEF Ring, Kept
<1>8. g = f
  <2> HIDE DEF S, s, step, Put, g
  <2>1. \A k \in 0 .. L : g[k] = IF k = 0 THEN s ELSE Put(g[k - 1], k)
    BY <1>6
  <2> DEFINE D == {k \in Nat : k <= L /\ g[k] /= f[k]}
  <2>2. D = {}
    <3> SUFFICES ASSUME D /= {} PROVE FALSE
      OBVIOUS
    <3>1. PICK k \in D : \A j \in D : k <= j
      BY LeastExists
    <3>2. k /= 0
      BY <1>1, <1>3, <2>1, <3>1
    <3>3. k \in 1 .. L /\ k \in 0 .. L
      BY <1>1, <3>1, <3>2
    <3>4. k - 1 \in Nat /\ k - 1 <= L /\ k - 1 \notin D
      BY <1>1, <3>1, <3>3
    <3>5. g[k - 1] = f[k - 1]
      BY <3>4
    <3>6. g[k] = Put(g[k - 1], k)
      BY <2>1, <3>2, <3>3
    <3>7. f[k] = Put(f[k - 1], k)
      BY <1>4, <3>3
    <3>8. g[k] = f[k]
      BY <3>5, <3>6, <3>7, Zenon
    <3> QED BY <3>1, <3>8
  <2>3. g = [k \in 0 .. L |-> g[k]]
    BY <1>6
  <2>4. \A k \in 0 .. L : g[k] = f[k]
    BY <1>1, <2>2
  <2>5. f = [k \in 0 .. L |-> f[k]]
    OBVIOUS
  <2> QED BY <2>3, <2>4, <2>5
<1> QED BY <1>4, <1>7, <1>8

\* After k lines the ring holds the last n of them.
Holds(r, k, lines, n) == \A m \in 1 .. k : k < m + n => r[(m - 1) % n] = lines[m]

LEMMA RingHolds ==
  ASSUME NEW lines \in Seq(Nat), NEW n \in Nat, n > 0
  PROVE  Holds(Ring(lines, n), Len(lines), lines, n)
<1> DEFINE L == Len(lines)
<1>1. L \in Nat
  OBVIOUS
<1>2. PICK f \in [0 .. L -> [0 .. n - 1 -> Nat]] :
        /\ \A k \in 1 .. L : f[k] = [f[k - 1] EXCEPT ![(k - 1) % n] = lines[k]]
        /\ Ring(lines, n) = f[L]
  BY RingIs
<1> HIDE DEF L
<1> DEFINE D == {k \in Nat : k <= L /\ ~Holds(f[k], k, lines, n)}
<1>3. D = {}
  <2> SUFFICES ASSUME D /= {} PROVE FALSE
    OBVIOUS
  <2>1. PICK k \in D : \A j \in D : k <= j
    BY LeastExists
  <2>2. k \in Nat /\ k <= L /\ k /= 0
    <3>1. Holds(f[0], 0, lines, n)
      BY DEF Holds
    <3> QED BY <2>1, <3>1
  <2>3. PICK j \in Nat : j = k - 1
    BY <2>2
  <2>4. Holds(f[j], j, lines, n)
    <3>1. j <= L /\ ~(k <= j)
      BY <1>1, <2>2, <2>3
    <3> HIDE DEF D
    <3>2. j \notin D
      BY <2>1, <3>1
    <3> QED BY <3>1, <3>2 DEF D
  <2>5. ASSUME NEW m \in 1 .. k, k < m + n PROVE f[k][(m - 1) % n] = lines[m]
    <3>1. PICK u : u = j % n /\ u \in 0 .. n - 1
      BY Remainder
    <3>2. PICK w : w = (m - 1) % n /\ w \in 0 .. n - 1
      <4>1. m - 1 \in Nat
        OBVIOUS
      <4> QED BY <4>1, Remainder
    <3>3. f[k] = [f[j] EXCEPT ![u] = lines[k]]
      <4>1. k \in 1 .. L
        BY <1>1, <2>2
      <4>2. f[k] = [f[k - 1] EXCEPT ![(k - 1) % n] = lines[k]]
        BY <1>2, <4>1, Zenon
      <4> QED BY <2>3, <3>1, <4>2, Zenon
    <3>4. f[j] \in [0 .. n - 1 -> Nat]
      <4>1. j \in 0 .. L
        BY <1>1, <2>2, <2>3
      <4> QED BY <4>1, Zenon
    <3>5. CASE m = k
      <4>1. w = u
        BY <2>3, <3>1, <3>2, <3>5
      <4>2. f[k][w] = lines[k]
        BY <3>1, <3>3, <3>4, <4>1
      <4> QED BY <3>2, <3>5, <4>2
    <3>6. CASE m /= k
      <4>1. m - 1 \in Nat /\ m - 1 < j /\ j < (m - 1) + n /\ m \in 1 .. j /\ j < m + n
        BY <2>2, <2>3, <2>5, <3>6
      <4>2. w /= u
        BY <3>1, <3>2, <4>1, RemaindersDiffer
      <4>3. f[k][w] = f[j][w]
        BY <3>2, <3>3, <3>4, <4>2
      <4>4. f[j][w] = lines[m]
        BY <2>4, <3>2, <4>1 DEF Holds
      <4> QED BY <3>2, <4>3, <4>4
    <3> QED BY <3>5, <3>6
  <2>6. Holds(f[k], k, lines, n)
    BY <2>5 DEF Holds
  <2> QED BY <2>1, <2>6
<1>4. Holds(f[L], L, lines, n)
  <2>1. L \notin D
    BY <1>3, Zenon
  <2>2. L <= L
    BY <1>1
  <2> HIDE DEF Holds
  <2> QED BY <1>1, <2>1, <2>2
<1> QED BY <1>2, <1>4 DEF L

\* tail prints the last n pieces of a file, or all of a shorter one, in order, for
\* every n but 0 and the negative ones: those end PID 1 (main.c:433-453).
THEOREM TailKeepsLast ==
  ASSUME NEW lines \in Seq(Nat), NEW n \in Nat, n > 0
  PROVE  KeepsLast(cmd_tail(lines, n), lines, n)
<1>1. PICK total \in Nat : total = Len(lines)
  OBVIOUS
<1>2. PICK shown \in Nat : shown = IF total < n THEN total ELSE n
  OBVIOUS
<1>3. shown <= total /\ shown <= n /\ (total < n => shown = total) /\ (total >= n => shown = n)
  BY <1>2
<1> DEFINE out == [i \in 1 .. shown |-> Ring(lines, n)[(Oldest(total, n) + i - 1) % n]]
<1>4. cmd_tail(lines, n) = out
  BY <1>1, <1>2 DEF cmd_tail
<1>5. ASSUME NEW i \in 1 .. shown
      PROVE  Ring(lines, n)[(Oldest(total, n) + i - 1) % n] = lines[i + (total - shown)]
  <2>1. PICK m \in Nat : m = i + (total - shown)
    BY <1>3
  <2>2. m \in 1 .. total /\ total < m + n /\ m - 1 \in Nat
    BY <1>3, <2>1
  <2>3. (Oldest(total, n) + i - 1) % n = (m - 1) % n
    <3>1. CASE total < n
      <4>1. Oldest(total, n) = 0 /\ m = i
        BY <1>3, <2>1, <3>1 DEF Oldest
      <4>2. Oldest(total, n) + i - 1 = m - 1
        BY <4>1
      <4> QED BY <4>2
    <3>2. CASE total >= n
      <4>1. PICK r \in Nat : r = total % n
        BY Remainder
      <4>2. Oldest(total, n) = r
        BY <3>2, <4>1 DEF Oldest
      <4>3. PICK b \in Nat : b = i - 1
        OBVIOUS
      <4>4. PICK a \in Nat : a = m - 1
        BY <2>2
      <4>5. total + b = a + n
        BY <1>3, <2>1, <3>2, <4>3, <4>4
      <4>6. (r + b) % n = (total + b) % n
        <5>1. ((total % n) + b) % n = (total + b) % n
          BY RemainderPlus
        <5> QED BY <4>1, <5>1, Zenon
      <4>7. (a + n) % n = a % n
        BY RemainderOnward
      <4>8. Oldest(total, n) + i - 1 = r + b
        BY <4>2, <4>3
      <4> QED BY <4>4, <4>5, <4>6, <4>7, <4>8
    <3> QED BY <3>1, <3>2
  <2>4. Ring(lines, n)[(m - 1) % n] = lines[m]
    <3>1. Holds(Ring(lines, n), total, lines, n)
      BY <1>1, RingHolds
    <3> QED BY <2>2, <3>1 DEF Holds
  <2> QED BY <2>1, <2>3, <2>4
<1>6. out = [i \in 1 .. shown |-> lines[i + (total - shown)]]
  BY <1>5
<1> HIDE DEF out
<1>7. PICK k \in 0 .. total : k = total - shown
  BY <1>3
<1>8. out = SubSeq(lines, k + 1, total)
  <2> DEFINE s == SubSeq(lines, k + 1, total)
  <2>1. s \in Seq(Nat) /\ Len(s) = shown /\ \A i \in 1 .. shown : s[i] = lines[i + k]
    <3>1. k + 1 \in 1 .. Len(lines) + 1 /\ total \in k .. Len(lines) /\ k \in Nat /\ k = total - shown
      BY <1>1, <1>3, <1>7
    <3>2. s \in Seq(Nat) /\ Len(s) = total - k /\ \A i \in 1 .. total - k : s[i] = lines[(k + 1) + i - 1]
      <4>1. k + 1 <= total + 1 /\ total - (k + 1) + 1 = total - k
        BY <3>1
      <4>2. \A i \in 1 .. total : i \in 1 .. Len(lines)
        BY <1>1
      <4>3. k + 1 \in 1 .. Len(lines) + 1 /\ total \in (k + 1) - 1 .. Len(lines)
        BY <3>1
      <4> QED BY <4>1, <4>2, <4>3, SubSeqProperties
    <3>3. ASSUME NEW i \in 1 .. shown PROVE s[i] = lines[i + k]
      <4>1. i \in 1 .. total - k /\ (k + 1) + i - 1 = i + k
        BY <1>3, <3>1
      <4> HIDE DEF s
      <4> QED BY <3>2, <4>1
    <3>4. Len(s) = shown
      <4> HIDE DEF s
      <4> QED BY <1>3, <3>1, <3>2
    <3> HIDE DEF s
    <3> QED BY <3>2, <3>3, <3>4
  <2>2. s = [i \in 1 .. shown |-> s[i]]
    <3> HIDE DEF s
    <3> QED BY <2>1
  <2> HIDE DEF s
  <2>3. s = [i \in 1 .. shown |-> lines[i + k]]
    BY <2>1, <2>2
  <2>4. s = out
    BY <1>6, <1>7, <2>3
  <2> QED BY <2>4 DEF s
<1>9. Len(out) = shown
  BY <1>6
<1> QED BY <1>1, <1>2, <1>4, <1>7, <1>8, <1>9 DEF KeepsLast

-----------------------------------------------------------------------------
(* uniq. *)

\* What is printed grows line by line.
Printed(lines, f) == f = [k \in 0 .. Len(lines) |-> IF k = 0 THEN <<>> ELSE Seen(f[k - 1], lines[k])]

LEMMA SeenType == ASSUME NEW out \in Seq(Nat), NEW l \in Nat PROVE Seen(out, l) \in Seq(Nat)
<1>1. Append(out, l) \in Seq(Nat)
  OBVIOUS
<1> QED BY <1>1, Zenon DEF Seen

LEMMA UniqIs ==
  ASSUME NEW lines \in Seq(Nat)
  PROVE  \E f \in [0 .. Len(lines) -> Seq(Nat)] :
           /\ f[0] = <<>> /\ \A k \in 1 .. Len(lines) : f[k] = Seen(f[k - 1], lines[k])
           /\ cmd_uniq(lines) = f[Len(lines)]
<1> DEFINE S == Seq(Nat)
           L == Len(lines)
           step == [x \in S \X (1 .. L) |-> Seen(x[1], lines[x[2]])]
<1>1. L \in Nat
  OBVIOUS
<1>2. <<>> \in S
  OBVIOUS
<1>3. step \in [S \X (1 .. L) -> S]
  <2>1. ASSUME NEW x \in S \X (1 .. L) PROVE Seen(x[1], lines[x[2]]) \in S
    <3>1. x[1] \in S /\ x[2] \in 1 .. L
      OBVIOUS
    <3>2. lines[x[2]] \in Nat
      BY <3>1
    <3> QED BY <3>1, <3>2, SeenType
  <2> HIDE DEF S, L
  <2> QED BY <2>1
<1>4. PICK f \in [0 .. L -> S] : f[0] = <<>> /\ \A k \in 1 .. L : f[k] = step[<<f[k - 1], k>>]
  <2> HIDE DEF S, L, step
  <2>1. Runs(S, <<>>, L, step)
    BY <1>1, <1>2, <1>3, Loop, Zenon
  <2> QED BY <2>1 DEF Runs
<1>5. ASSUME NEW k \in 1 .. L PROVE f[k] = Seen(f[k - 1], lines[k])
  <2>1. f[k - 1] \in S
    <3>1. k - 1 \in 0 .. L
      BY <1>1
    <3> HIDE DEF S
    <3> QED BY <3>1
  <2>2. step[<<f[k - 1], k>>] = Seen(f[k - 1], lines[k])
    <3> HIDE DEF S
    <3> QED BY <2>1
  <2> QED BY <1>4, <2>2
<1> HIDE DEF S, step
<1>6. Printed(lines, f)
  <2>1. ASSUME NEW k \in 0 .. L PROVE f[k] = IF k = 0 THEN <<>> ELSE Seen(f[k - 1], lines[k])
    <3>1. CASE k = 0
      BY <1>4, <3>1
    <3>2. CASE k /= 0
      <4>1. k \in 1 .. L
        BY <1>1, <3>2
      <4>2. f[k] = Seen(f[k - 1], lines[k])
        BY <1>5, <4>1
      <4> QED BY <3>2, <4>2
    <3> QED BY <3>1, <3>2
  <2>2. f = [k \in 0 .. L |-> f[k]]
    OBVIOUS
  <2> HIDE DEF L
  <2>3. f = [k \in 0 .. L |-> IF k = 0 THEN <<>> ELSE Seen(f[k - 1], lines[k])]
    BY <2>1, <2>2
  <2> QED BY <2>3 DEF Printed, L
<1> DEFINE g == CHOOSE g : Printed(lines, g)
<1>7. g = [k \in 0 .. L |-> IF k = 0 THEN <<>> ELSE Seen(g[k - 1], lines[k])]
  <2>1. Printed(lines, g)
    BY <1>6
  <2> QED BY <2>1 DEF Printed
<1>8. cmd_uniq(lines) = g[L]
  BY DEF cmd_uniq, Printed
<1>9. g = f
  <2> HIDE DEF g, L
  <2>1. \A k \in 0 .. L : g[k] = IF k = 0 THEN <<>> ELSE Seen(g[k - 1], lines[k])
    BY <1>7
  <2> DEFINE D == {k \in Nat : k <= L /\ g[k] /= f[k]}
  <2>2. D = {}
    <3> SUFFICES ASSUME D /= {} PROVE FALSE
      OBVIOUS
    <3>1. PICK k \in D : \A j \in D : k <= j
      BY LeastExists
    <3>2. k /= 0
      BY <1>1, <1>4, <2>1, <3>1
    <3>3. k \in 1 .. L /\ k \in 0 .. L
      BY <1>1, <3>1, <3>2
    <3>4. k - 1 \in Nat /\ k - 1 <= L /\ k - 1 \notin D
      BY <1>1, <3>1, <3>3
    <3>5. g[k - 1] = f[k - 1]
      BY <3>4
    <3>6. g[k] = Seen(g[k - 1], lines[k])
      BY <2>1, <3>2, <3>3
    <3>7. f[k] = Seen(f[k - 1], lines[k])
      BY <1>5, <3>3
    <3>8. g[k] = f[k]
      BY <3>5, <3>6, <3>7, Zenon
    <3> QED BY <3>1, <3>8
  <2>3. g = [k \in 0 .. L |-> g[k]]
    BY <1>7
  <2>4. \A k \in 0 .. L : g[k] = f[k]
    BY <1>1, <2>2
  <2>5. f = [k \in 0 .. L |-> f[k]]
    OBVIOUS
  <2> QED BY <2>3, <2>4, <2>5
<1>10. f \in [0 .. L -> Seq(Nat)]
  BY DEF S
<1> QED BY <1>4, <1>5, <1>8, <1>9, <1>10

\* The lines that are not a repeat, counted.
LEMMA FreshCounts ==
  ASSUME NEW lines, NEW k \in Nat
  PROVE  /\ IsFiniteSet(Fresh(lines, k)) /\ Cardinality(Fresh(lines, k)) \in Nat
         /\ Cardinality(Fresh(lines, 0)) = 0
         /\ k + 1 \in Fresh(lines, k + 1) =>
              /\ Fresh(lines, k + 1) = Fresh(lines, k) \cup {k + 1}
              /\ Cardinality(Fresh(lines, k + 1)) = Cardinality(Fresh(lines, k)) + 1
         /\ k + 1 \notin Fresh(lines, k + 1) => Fresh(lines, k + 1) = Fresh(lines, k)
<1>1. IsFiniteSet(Fresh(lines, k)) /\ Cardinality(Fresh(lines, k)) \in Nat
  <2>1. Fresh(lines, k) \in SUBSET (1 .. k)
    BY DEF Fresh
  <2>2. IsFiniteSet(1 .. k)
    BY FS_Interval
  <2>3. IsFiniteSet(Fresh(lines, k))
    BY <2>1, <2>2, FS_Subset
  <2> QED BY <2>3, FS_CardinalityType
<1>2. Fresh(lines, 0) = {}
  BY DEF Fresh
<1>3. Cardinality(Fresh(lines, 0)) = 0
  BY <1>2, FS_EmptySet, Zenon
<1>4. ASSUME k + 1 \in Fresh(lines, k + 1)
      PROVE  /\ Fresh(lines, k + 1) = Fresh(lines, k) \cup {k + 1}
             /\ Cardinality(Fresh(lines, k + 1)) = Cardinality(Fresh(lines, k)) + 1
  <2>1. Fresh(lines, k + 1) = Fresh(lines, k) \cup {k + 1} /\ k + 1 \notin Fresh(lines, k)
    BY <1>4 DEF Fresh
  <2>2. Cardinality(Fresh(lines, k) \cup {k + 1}) = Cardinality(Fresh(lines, k)) + 1
    BY <1>1, <2>1, FS_AddElement
  <2> QED BY <2>1, <2>2
<1>5. ASSUME k + 1 \notin Fresh(lines, k + 1) PROVE Fresh(lines, k + 1) = Fresh(lines, k)
  BY <1>5 DEF Fresh
<1> QED BY <1>1, <1>3, <1>4, <1>5

\* What uniq has printed after k lines: it ends with the last of them.
PrintedOf(out, k, lines) ==
  /\ Len(out) = Cardinality(Fresh(lines, k))
  /\ k > 0 => out /= <<>> /\ Last(out) = lines[k]
  /\ \A i \in Fresh(lines, k) :
       Cardinality(Fresh(lines, i)) \in 1 .. Len(out) /\ out[Cardinality(Fresh(lines, i))] = lines[i]

LEMMA SeenPrints ==
  ASSUME NEW lines \in Seq(Nat), NEW k \in Nat, k < Len(lines), NEW out \in Seq(Nat), PrintedOf(out, k, lines)
  PROVE  PrintedOf(Seen(out, lines[k + 1]), k + 1, lines)
<1> DEFINE c(i) == Cardinality(Fresh(lines, i))
<1>1. PICK l \in Nat : l = lines[k + 1]
  OBVIOUS
<1>2. Len(out) = c(k) /\ (k > 0 => out /= <<>> /\ Last(out) = lines[k])
  BY DEF PrintedOf
<1>3. \A i \in Fresh(lines, k) : c(i) \in 1 .. Len(out) /\ out[c(i)] = lines[i]
  BY DEF PrintedOf
<1>4. k + 1 \in Fresh(lines, k + 1) <=> k = 0 \/ l /= lines[k]
  BY <1>1 DEF Fresh
<1> HIDE DEF c
<1>5. Len(out) \in Nat
  OBVIOUS
<1>6. CASE k + 1 \in Fresh(lines, k + 1)
  <2>1. Fresh(lines, k + 1) = Fresh(lines, k) \cup {k + 1} /\ c(k + 1) = c(k) + 1
    BY <1>6, FreshCounts DEF c
  <2>2. Seen(out, l) = Append(out, l)
    <3>1. out = <<>> \/ Last(out) /= l
      <4>1. k = 0 => out = <<>>
        <5>1. Cardinality(Fresh(lines, 0)) = 0
          BY FreshCounts
        <5> QED BY <1>2, <5>1 DEF c
      <4> QED BY <1>2, <1>4, <1>6, <4>1
    <3> QED BY <3>1, Zenon DEF Seen
  <2>3. PICK more \in Seq(Nat) : more = Append(out, l)
    <3>1. Append(out, l) \in Seq(Nat)
      OBVIOUS
    <3> QED BY <3>1, Zenon
  <2>4. Len(more) = Len(out) + 1 /\ more[Len(out) + 1] = l /\ \A j \in 1 .. Len(out) : more[j] = out[j]
    BY <2>3
  <2>5. Len(more) = c(k + 1)
    BY <1>2, <2>1, <2>4
  <2>6. more /= <<>> /\ Last(more) = l
    BY <1>5, <2>4 DEF Last
  <2>7. \A i \in Fresh(lines, k + 1) : c(i) \in 1 .. Len(more) /\ more[c(i)] = lines[i]
    <3> TAKE i \in Fresh(lines, k + 1)
    <3>1. CASE i = k + 1
      <4>1. c(i) = Len(out) + 1
        BY <1>2, <2>1, <3>1
      <4> QED BY <1>1, <1>5, <2>4, <3>1, <4>1
    <3>2. CASE i /= k + 1
      <4>1. i \in Fresh(lines, k)
        BY <2>1, <3>2
      <4>2. c(i) \in 1 .. Len(out) /\ out[c(i)] = lines[i]
        BY <1>3, <4>1
      <4> QED BY <1>5, <2>4, <4>2
    <3> QED BY <3>1, <3>2
  <2>8. PrintedOf(more, k + 1, lines)
    BY <1>1, <2>5, <2>6, <2>7 DEF PrintedOf, c
  <2> QED BY <1>1, <2>2, <2>3, <2>8
<1>7. CASE k + 1 \notin Fresh(lines, k + 1)
  <2>1. Fresh(lines, k + 1) = Fresh(lines, k) /\ c(k + 1) = c(k)
    BY <1>7, FreshCounts DEF c
  <2>2. k > 0 /\ out /= <<>> /\ Last(out) = l
    BY <1>2, <1>4, <1>7
  <2>3. Seen(out, l) = out
    BY <2>2, Zenon DEF Seen
  <2>4. PrintedOf(out, k + 1, lines)
    BY <1>1, <1>2, <1>3, <2>1, <2>2 DEF PrintedOf, c
  <2> QED BY <1>1, <2>3, <2>4
<1> QED BY <1>6, <1>7

\* uniq prints a piece once however often it is repeated, and every other line
\* in order (main.c:551-555).
THEOREM UniqDropsRepeats ==
  ASSUME NEW lines \in Seq(Nat)
  PROVE  DropsRepeats(cmd_uniq(lines), lines)
<1> DEFINE L == Len(lines)
<1>1. L \in Nat
  OBVIOUS
<1>2. PICK f \in [0 .. L -> Seq(Nat)] :
        /\ f[0] = <<>> /\ \A k \in 1 .. L : f[k] = Seen(f[k - 1], lines[k])
        /\ cmd_uniq(lines) = f[L]
  BY UniqIs
<1> DEFINE D == {k \in Nat : k <= L /\ ~PrintedOf(f[k], k, lines)}
<1>3. D = {}
  <2> SUFFICES ASSUME D /= {} PROVE FALSE
    OBVIOUS
  <2>1. PICK k \in D : \A j \in D : k <= j
    BY LeastExists
  <2>2. k \in Nat /\ k <= L /\ k /= 0
    <3>1. Cardinality(Fresh(lines, 0)) = 0
      BY FreshCounts
    <3>2. Fresh(lines, 0) = {}
      BY DEF Fresh
    <3>3. PrintedOf(<<>>, 0, lines)
      BY <3>1, <3>2 DEF PrintedOf
    <3>4. PrintedOf(f[0], 0, lines)
      BY <1>2, <3>3, Zenon
    <3> QED BY <2>1, <3>4
  <2>3. PICK j \in Nat : j = k - 1
    BY <2>2
  <2>4. j < L /\ j <= L /\ ~(k <= j) /\ j + 1 = k /\ j \in 0 .. L /\ k \in 1 .. L
    BY <1>1, <2>2, <2>3
  <2>5. PrintedOf(f[j], j, lines)
    <3> HIDE DEF D
    <3>1. j \notin D
      BY <2>1, <2>4
    <3> QED BY <2>4, <3>1 DEF D
  <2>6. f[j] \in Seq(Nat)
    BY <2>4, Zenon
  <2>7. PrintedOf(Seen(f[j], lines[j + 1]), j + 1, lines)
    BY <2>4, <2>5, <2>6, SeenPrints
  <2>8. f[k] = Seen(f[j], lines[k])
    BY <1>2, <2>3, <2>4
  <2>9. PrintedOf(f[k], k, lines)
    BY <2>4, <2>7, <2>8, Zenon
  <2> QED BY <2>1, <2>9
<1>4. PrintedOf(f[L], L, lines)
  <2>1. L \notin D
    BY <1>3, Zenon
  <2>2. L <= L
    BY <1>1
  <2> QED BY <1>1, <2>1, <2>2
<1> QED BY <1>2, <1>4 DEF PrintedOf, DropsRepeats

-----------------------------------------------------------------------------
(* sort. *)

\* A line's place: how many lines are not after it, of two equal ones the
\* first being before the second.
UpTo(lines, i) == {j \in 1 .. Len(lines) : lines[j] < lines[i] \/ (lines[j] = lines[i] /\ j <= i)}
Place(lines) == [i \in 1 .. Len(lines) |-> Cardinality(UpTo(lines, i))]

LEMMA PlaceIs ==
  ASSUME NEW lines \in Seq(Nat), NEW i \in 1 .. Len(lines)
  PROVE  IsFiniteSet(UpTo(lines, i)) /\ Cardinality(UpTo(lines, i)) \in 1 .. Len(lines)
<1>1. PICK n \in Nat : n = Len(lines)
  OBVIOUS
<1>2. IsFiniteSet(1 .. n) /\ Cardinality(1 .. n) = n
  <2>1. 1 \in Int /\ n \in Int
    OBVIOUS
  <2>2. IsFiniteSet(1 .. n) /\ Cardinality(1 .. n) = IF 1 > n THEN 0 ELSE n - 1 + 1
    BY <2>1, FS_Interval
  <2> QED BY <2>2
<1>3. UpTo(lines, i) \in SUBSET (1 .. n) /\ i \in UpTo(lines, i)
  BY <1>1 DEF UpTo
<1>4. IsFiniteSet(UpTo(lines, i)) /\ Cardinality(UpTo(lines, i)) <= n
  BY <1>2, <1>3, FS_Subset
<1>5. Cardinality(UpTo(lines, i)) \in Nat /\ Cardinality(UpTo(lines, i)) /= 0
  BY <1>3, <1>4, FS_CardinalityType, FS_EmptySet
<1> QED BY <1>1, <1>4, <1>5

LEMMA PlaceGrows ==
  ASSUME NEW lines \in Seq(Nat), NEW i \in 1 .. Len(lines), NEW j \in 1 .. Len(lines),
         lines[i] < lines[j] \/ (lines[i] = lines[j] /\ i < j)
  PROVE  Cardinality(UpTo(lines, i)) < Cardinality(UpTo(lines, j))
<1>1. lines[i] \in Nat /\ lines[j] \in Nat /\ \A k \in 1 .. Len(lines) : lines[k] \in Nat
  OBVIOUS
<1>2. UpTo(lines, i) \in SUBSET UpTo(lines, j)
  BY <1>1 DEF UpTo
<1>3. j \in UpTo(lines, j) /\ j \notin UpTo(lines, i)
  BY <1>1 DEF UpTo
<1>4. IsFiniteSet(UpTo(lines, j))
  BY PlaceIs
<1>5. Cardinality(UpTo(lines, i)) \in Nat /\ Cardinality(UpTo(lines, j)) \in Nat
  <2>1. Cardinality(UpTo(lines, i)) \in 1 .. Len(lines) /\ Cardinality(UpTo(lines, j)) \in 1 .. Len(lines)
    BY PlaceIs
  <2> HIDE DEF UpTo
  <2> QED BY <2>1
<1>6. Cardinality(UpTo(lines, i)) <= Cardinality(UpTo(lines, j))
  BY <1>2, <1>4, FS_Subset
<1>7. Cardinality(UpTo(lines, i)) /= Cardinality(UpTo(lines, j))
  <2>1. Cardinality(UpTo(lines, j)) = Cardinality(UpTo(lines, i)) => UpTo(lines, j) = UpTo(lines, i)
    BY <1>2, <1>4, FS_Subset
  <2> QED BY <1>3, <2>1
<1> QED BY <1>5, <1>6, <1>7

LEMMA PlaceBijective ==
  ASSUME NEW lines \in Seq(Nat)
  PROVE  Place(lines) \in Bijection(1 .. Len(lines), 1 .. Len(lines))
<1> DEFINE N == 1 .. Len(lines)
<1>1. Place(lines) \in [N -> N]
  BY PlaceIs DEF Place
<1>2. ASSUME NEW i \in N, NEW j \in N, i /= j PROVE Place(lines)[i] /= Place(lines)[j]
  <2>1. lines[i] \in Nat /\ lines[j] \in Nat
    OBVIOUS
  <2>2. Place(lines)[i] = Cardinality(UpTo(lines, i)) /\ Place(lines)[j] = Cardinality(UpTo(lines, j))
    BY DEF Place
  <2>3. Cardinality(UpTo(lines, i)) \in Nat /\ Cardinality(UpTo(lines, j)) \in Nat
    BY PlaceIs
  <2>4. CASE lines[i] < lines[j] \/ (lines[i] = lines[j] /\ i < j)
    <3>1. Cardinality(UpTo(lines, i)) < Cardinality(UpTo(lines, j))
      BY <2>4, PlaceGrows
    <3> QED BY <2>2, <2>3, <3>1
  <2>5. CASE lines[j] < lines[i] \/ (lines[j] = lines[i] /\ j < i)
    <3>1. Cardinality(UpTo(lines, j)) < Cardinality(UpTo(lines, i))
      BY <2>5, PlaceGrows
    <3> QED BY <2>2, <2>3, <3>1
  <2> QED BY <1>2, <2>1, <2>4, <2>5
<1>3. IsFiniteSet(N)
  BY FS_Interval
<1> HIDE DEF N
<1>4. Place(lines) \in Injection(N, N)
  BY <1>1, <1>2 DEF Injection, IsInjective
<1>5. Place(lines) \in Surjection(N, N)
  BY <1>3, <1>4, FS_Injection
<1>6. Place(lines) \in Bijection(N, N)
  BY <1>4, <1>5 DEF Bijection
<1> QED BY <1>6 DEF N

LEMMA OrderExists ==
  ASSUME NEW lines \in Seq(Nat)
  PROVE  \E p \in [1 .. Len(lines) -> 1 .. Len(lines)] : Orders(p, lines)
<1> DEFINE N == 1 .. Len(lines)
           q == Place(lines)
           p == [k \in N |-> CHOOSE i \in N : q[i] = k]
<1>1. q \in [N -> N] /\ \A k \in N : \E i \in N : q[i] = k
  BY PlaceBijective DEF Bijection, Surjection
<1>2. \A i, j \in N : q[i] = q[j] => i = j
  BY PlaceBijective DEF Bijection, Injection, IsInjective
<1>3. \A i \in N : q[i] = Cardinality(UpTo(lines, i)) /\ lines[i] \in Nat
  BY DEF Place
<1>4. \A i \in N : q[i] \in Nat
  <2> TAKE i \in N
  <2>1. q[i] \in N
    BY <1>1
  <2>2. Len(lines) \in Nat
    OBVIOUS
  <2> HIDE DEF q
  <2> QED BY <2>1, <2>2
<1> HIDE DEF q
<1>5. \A k \in N : p[k] \in N /\ q[p[k]] = k
  BY <1>1
<1>6. p \in [N -> N]
  BY <1>5
<1> HIDE DEF p
<1>7. \A j \in N : \E i \in N : p[i] = j
  <2> TAKE j \in N
  <2>1. q[j] \in N /\ p[q[j]] \in N /\ q[p[q[j]]] = q[j]
    BY <1>1, <1>5
  <2>2. p[q[j]] = j
    BY <1>2, <2>1
  <2> QED BY <2>1, <2>2
<1>8. ASSUME NEW i \in N, NEW j \in N, i < j PROVE lines[p[i]] <= lines[p[j]]
  <2>1. PICK a \in N : a = p[i] /\ q[a] = i
    BY <1>5
  <2>2. PICK b \in N : b = p[j] /\ q[b] = j
    BY <1>5
  <2>3. lines[a] \in Nat /\ lines[b] \in Nat
    BY <1>3
  <2>4. ASSUME lines[b] < lines[a] PROVE FALSE
    <3>1. Cardinality(UpTo(lines, b)) < Cardinality(UpTo(lines, a))
      BY <2>4, PlaceGrows
    <3>2. q[b] < q[a]
      BY <1>3, <3>1
    <3> QED BY <1>8, <2>1, <2>2, <3>2
  <2> QED BY <2>1, <2>2, <2>3, <2>4
<1> QED BY <1>6, <1>7, <1>8 DEF Orders

LEMMA QsortIs ==
  ASSUME NEW lines \in Seq(Nat)
  PROVE  \E p \in [1 .. Len(lines) -> 1 .. Len(lines)] :
           Orders(p, lines) /\ qsort(lines) = [i \in 1 .. Len(lines) |-> lines[p[i]]]
<1> DEFINE N == 1 .. Len(lines)
           p == CHOOSE p \in [N -> N] : Orders(p, lines)
<1>1. p \in [N -> N] /\ Orders(p, lines)
  BY OrderExists, Zenon
<1>2. qsort(lines) = [i \in N |-> lines[p[i]]]
  BY Zenon DEF qsort
<1> HIDE DEF p
<1> QED BY <1>1, <1>2

\* The same lines, each as often.
LEMMA OrderCounts ==
  ASSUME NEW lines \in Seq(Nat), NEW p \in [1 .. Len(lines) -> 1 .. Len(lines)], Orders(p, lines), NEW l
  PROVE  Cardinality({i \in 1 .. Len(lines) : lines[p[i]] = l}) = Times(lines, l)
<1> DEFINE N == 1 .. Len(lines)
           A == {i \in N : lines[p[i]] = l}
           B == {i \in N : lines[i] = l}
           f == [i \in A |-> p[i]]
<1>1. IsFiniteSet(N)
  BY FS_Interval
<1>2. p \in Surjection(N, N)
  BY DEF Orders, Surjection
<1>3. \A i, j \in N : p[i] = p[j] => i = j
  <2> HIDE DEF N
  <2>1. p \in Injection(N, N)
    BY <1>1, <1>2, FS_SurjSameCardinalityImpliesInj
  <2> QED BY <2>1 DEF Injection, IsInjective
<1>4. \A j \in N : \E i \in N : p[i] = j
  BY DEF Orders
<1> HIDE DEF N
<1>5. p \in [N -> N]
  BY DEF N
<1>6. f \in [A -> B]
  BY <1>5
<1>7. \A i, j \in A : f[i] = f[j] => i = j
  BY <1>3
<1>8. \A j \in B : \E i \in A : f[i] = j
  BY <1>4
<1>9. IsFiniteSet(A)
  BY <1>1, FS_Subset
<1> HIDE DEF A, B, f
<1>10. f \in Bijection(A, B)
  BY <1>6, <1>7, <1>8 DEF Bijection, Injection, Surjection, IsInjective
<1>11. Cardinality(B) = Cardinality(A)
  BY <1>9, <1>10, FS_Bijection DEF ExistsBijection
<1> QED BY <1>11 DEF Times, A, B, N

\* sort prints its pieces in order, each as often as the first MAXSORT pieces of
\* the file have it, and what comes after those not at all (main.c:525-533).
THEOREM SortSortsFirst ==
  ASSUME NEW lines \in Seq(Nat)
  PROVE  SortsFirst(cmd_sort(lines), lines)
<1> DEFINE m == IF Len(lines) < MAXSORT THEN Len(lines) ELSE MAXSORT
           part == ReadBySort(lines)
<1>1. m \in Nat /\ m <= Len(lines)
  BY TextAssumption
<1>2. part \in Seq(Nat)
  <2>1. part = SubSeq(lines, 1, m)
    BY DEF ReadBySort
  <2> HIDE DEF m, part
  <2> QED BY <1>1, <2>1
<1> HIDE DEF m
<1>3. cmd_sort(lines) = qsort(part)
  BY DEF cmd_sort
<1> HIDE DEF part
<1>4. PICK p \in [1 .. Len(part) -> 1 .. Len(part)] :
        Orders(p, part) /\ qsort(part) = [i \in 1 .. Len(part) |-> part[p[i]]]
  BY <1>2, QsortIs
<1> DEFINE out == qsort(part)
<1>5. Len(out) = Len(part) /\ \A i \in 1 .. Len(part) : out[i] = part[p[i]]
  <2>1. Len(part) \in Nat
    BY <1>2
  <2> HIDE DEF out
  <2>2. out = [i \in 1 .. Len(part) |-> part[p[i]]]
    BY <1>4 DEF out
  <2> QED BY <2>1, <2>2
<1> HIDE DEF out
<1>6. \A i, j \in 1 .. Len(out) : i < j => out[i] <= out[j]
  BY <1>4, <1>5 DEF Orders
<1>7. ASSUME NEW l PROVE Times(out, l) = Times(part, l)
  <2>1. {i \in 1 .. Len(out) : out[i] = l} = {i \in 1 .. Len(part) : part[p[i]] = l}
    BY <1>5
  <2>2. Cardinality({i \in 1 .. Len(part) : part[p[i]] = l}) = Times(part, l)
    BY <1>2, <1>4, OrderCounts
  <2> QED BY <2>1, <2>2 DEF Times
<1>8. cmd_sort(lines) = out
  BY <1>3 DEF out
<1> QED BY <1>6, <1>7, <1>8 DEF SortsFirst, part
==============================================================================
