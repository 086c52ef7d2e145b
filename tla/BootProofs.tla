----------------------------- MODULE BootProofs -----------------------------
(* Two parts of the boot.  The page tables under the loader, the stacks and  *)
(* the segments of programs, for any memory, any tables of the boot loader,  *)
(* any number of levels, pages and programs; then the file systems under the *)
(* root, the choice of the first program, the listings and the tree of       *)
(* devices, for any image, bus and commands.                                 *)
EXTENDS Loader, VFS, FiniteSetTheorems, FunctionTheorems, WellFoundedInduction, TLAPS

Dom == RAM \cup DOMAIN BootTables
Ways == {Tuple[v] : v \in OwnPages}

LEMMA Levels ==
  /\ LEVELS \in Nat /\ LEVELS >= 2 /\ LEVELS \in 1 .. LEVELS
  /\ Ways \subseteq [1 .. LEVELS -> Indices]
  /\ \A v \in VPages : v \in Nat /\ Tuple[v] \in [1 .. LEVELS -> Indices]
<1>1. Tuple \in [VPages -> [1 .. LEVELS -> Indices]] /\ LEVELS \in Nat \ {0, 1} /\ VPages \subseteq Nat
  BY VmmAssumption
<1>2. \A v \in VPages : v \in Nat /\ Tuple[v] \in [1 .. LEVELS -> Indices]
  BY <1>1
<1>3. Ways \subseteq [1 .. LEVELS -> Indices]
  BY <1>2 DEF Ways, OwnPages
<1> QED BY <1>1, <1>2, <1>3

LEMMA PagesFacts ==
  /\ RAM \subseteq Nat /\ 0 \in RAM /\ Given \subseteq RAM \ {0}
  /\ Root \in DOMAIN BootTables /\ Root \notin RAM /\ Root /= 0
  /\ \A p \in DOMAIN BootTables : p \notin RAM /\ p /= 0 /\ p \in Nat
BY VmmAssumption

LEMMA BootPages == \A p \in DOMAIN BootTables : BootTables[p] = [i \in Indices |-> BootTables[p][i]]
BY VmmAssumption

LEMMA WordFacts ==
  /\ ~IsPresent(Zero) /\ IsPresent(Junk)
  /\ \A p : IsPresent(Entry(p)) /\ To(Entry(p)) = p /\ Entry(p) /= Zero /\ Entry(p).kind /= "large"
  /\ \A p : IsPresent(Large(p)) /\ To(Large(p)) = p /\ Large(p) /= Zero
BY DEF Zero, Junk, Entry, Large, IsPresent, To

-----------------------------------------------------------------------------
(* The way through the tables, as a function of their contents.             *)

\* Where an entry leads.
Target(T, p, i) == IF p = 0 \/ ~IsPresent(T[p][i]) THEN 0 ELSE To(T[p][i])
Following(T, v, t) == [n \in 1 .. LEVELS |-> IF n = 1 THEN Root ELSE Target(T, t[n - 1], v[n - 1])]
Path(T, v) == CHOOSE t : t = Following(T, v, t)

LEMMA PathIsTablesIn == ASSUME NEW T, NEW v PROVE TablesIn(T, v) = Path(T, Tuple[v])
BY DEF TablesIn, Path, Following, Target

\* The smallest number of a set.
LEMMA LeastExists ==
  ASSUME NEW S \in SUBSET Nat, S /= {}
  PROVE  \E x \in S : \A y \in S : x <= y
<1>1. PICK x \in S : \A y \in S : ~ (<<y, x>> \in OpToRel(<, Nat))
  BY NatLessThanWellFounded, WFMin
<1>2. \A y \in S : y < x => <<y, x>> \in OpToRel(<, Nat)
  BY Zenon DEF OpToRel
<1> QED
  <2>1. \A y \in S : x <= y
    <3> TAKE y \in S
    <3>1. ~(y < x)
      BY <1>1, <1>2
    <3> QED BY <3>1
  <2> QED BY <2>1

\* The way exists: it is made one level after the other.
Begins(T, v, m) == \E f : f = [n \in 1 .. m |-> IF n = 1 THEN Root ELSE Target(T, f[n - 1], v[n - 1])]

LEMMA BeginsOne == ASSUME NEW T, NEW v PROVE Begins(T, v, 1)
<1> DEFINE f == [n \in 1 .. 1 |-> Root]
<1>1. f = [n \in 1 .. 1 |-> IF n = 1 THEN Root ELSE Target(T, f[n - 1], v[n - 1])]
  OBVIOUS
<1> QED BY <1>1 DEF Begins

LEMMA BeginsMore ==
  ASSUME NEW T, NEW v, NEW m \in Nat, m >= 1, Begins(T, v, m)
  PROVE  Begins(T, v, m + 1)
<1>1. PICK f : f = [n \in 1 .. m |-> IF n = 1 THEN Root ELSE Target(T, f[n - 1], v[n - 1])]
  BY DEF Begins
<1> DEFINE g == [n \in 1 .. m + 1 |-> IF n <= m THEN f[n] ELSE Target(T, f[m], v[m])]
<1>2. ASSUME NEW n \in 1 .. m + 1
      PROVE  g[n] = IF n = 1 THEN Root ELSE Target(T, g[n - 1], v[n - 1])
  <2>1. CASE n = 1
    BY <1>1, <2>1
  <2>2. CASE n > 1 /\ n <= m
    <3>1. n - 1 \in 1 .. m + 1 /\ n - 1 <= m /\ n \in 1 .. m
      BY <2>2
    <3>2. g[n] = f[n] /\ g[n - 1] = f[n - 1]
      BY <3>1
    <3>3. f[n] = Target(T, f[n - 1], v[n - 1])
      BY <1>1, <2>2, <3>1
    <3> QED BY <2>2, <3>2, <3>3
  <2>3. CASE n = m + 1
    <3>1. g[n] = Target(T, f[m], v[m]) /\ g[m] = f[m] /\ n - 1 = m /\ n /= 1
      BY <2>3
    <3> QED BY <3>1
  <2> QED BY <2>1, <2>2, <2>3
<1>3. g = [n \in 1 .. m + 1 |-> IF n = 1 THEN Root ELSE Target(T, g[n - 1], v[n - 1])]
  BY <1>2
<1> QED BY <1>3 DEF Begins

LEMMA BeginsAll == ASSUME NEW T, NEW v PROVE Begins(T, v, LEVELS)
<1> DEFINE S == {m \in Nat : m >= 1 /\ ~Begins(T, v, m)}
<1>1. SUFFICES ASSUME S /= {} PROVE FALSE
  BY Levels
<1>2. PICK m \in S : \A k \in S : m <= k
  BY <1>1, LeastExists
<1>3. m /= 1
  BY <1>2, BeginsOne
<1>4. m - 1 \in Nat /\ m - 1 >= 1 /\ m - 1 \notin S
  BY <1>2, <1>3
<1>5. Begins(T, v, m - 1)
  BY <1>4
<1>6. Begins(T, v, (m - 1) + 1)
  BY <1>4, <1>5, BeginsMore
<1>7. (m - 1) + 1 = m
  BY <1>2
<1> QED BY <1>2, <1>6, <1>7

LEMMA PathExists == ASSUME NEW T, NEW v PROVE Path(T, v) = Following(T, v, Path(T, v))
<1>1. PICK f : f = [n \in 1 .. LEVELS |-> IF n = 1 THEN Root ELSE Target(T, f[n - 1], v[n - 1])]
  <2>1. Begins(T, v, LEVELS)
    BY BeginsAll
  <2> QED BY <2>1 DEF Begins
<1>2. f = Following(T, v, f)
  BY <1>1, Zenon DEF Following
<1> QED BY <1>2, Zenon DEF Path

LEMMA PathDef ==
  ASSUME NEW T, NEW v
  PROVE  /\ Path(T, v)[1] = Root
         /\ \A n \in 1 .. LEVELS : n < LEVELS => Path(T, v)[n + 1] = Target(T, Path(T, v)[n], v[n])
<1> DEFINE t == Path(T, v)
<1>1. t = [n \in 1 .. LEVELS |-> IF n = 1 THEN Root ELSE Target(T, t[n - 1], v[n - 1])]
  BY PathExists DEF Following
<1> HIDE DEF t
<1>2. 1 \in 1 .. LEVELS
  BY Levels
<1>3. ASSUME NEW n \in 1 .. LEVELS, n < LEVELS PROVE t[n + 1] = Target(T, t[n], v[n])
  <2>1. n + 1 \in 1 .. LEVELS /\ n + 1 /= 1 /\ (n + 1) - 1 = n
    BY <1>3, Levels
  <2> QED BY <1>1, <2>1
<1>4. t[1] = Root
  BY <1>1, <1>2
<1> QED BY <1>3, <1>4 DEF t

\* Two ways are the same as long as they follow entries that lead to the same.
LEMMA PathAgree ==
  ASSUME NEW S, NEW T, NEW v, NEW w, NEW k \in 1 .. LEVELS,
         \A n \in 1 .. LEVELS : n < k => Target(S, Path(T, v)[n], w[n]) = Target(T, Path(T, v)[n], v[n])
  PROVE  \A n \in 1 .. k : Path(S, w)[n] = Path(T, v)[n]
<1> DEFINE t == Path(T, v)
           s == Path(S, w)
           D == {n \in Nat : n \in 1 .. k /\ s[n] /= t[n]}
<1>1. SUFFICES ASSUME D /= {} PROVE FALSE
  BY Levels
<1> HIDE DEF D
<1>2. PICK m \in D : \A n \in D : m <= n
  <2>1. D \in SUBSET Nat
    BY DEF D
  <2> QED BY <1>1, <2>1, LeastExists
<1>3. m \in Nat /\ m \in 1 .. k /\ s[m] /= t[m]
  BY <1>2 DEF D
<1>4. m /= 1
  BY <1>3, PathDef
<1> DEFINE n == m - 1
<1>5. n \in 1 .. LEVELS /\ n \in 1 .. k /\ n \in Nat /\ n < k /\ n < LEVELS /\ n + 1 = m /\ n < m
  BY <1>3, <1>4, Levels
<1> HIDE DEF n
<1>6. n \notin D
  BY <1>2, <1>3, <1>5
<1>7. s[n] = t[n]
  BY <1>5, <1>6 DEF D
<1>8. s[m] = Target(S, s[n], w[n]) /\ t[m] = Target(T, t[n], v[n])
  BY <1>5, PathDef
<1>9. Target(S, t[n], w[n]) = Target(T, t[n], v[n])
  BY <1>5
<1> QED BY <1>3, <1>7, <1>8, <1>9

\* Behind a missing table everything is missing.
LEMMA PathEnds ==
  ASSUME NEW T, NEW v, NEW k \in 1 .. LEVELS, Path(T, v)[k] = 0
  PROVE  \A n \in k .. LEVELS : Path(T, v)[n] = 0
<1> DEFINE t == Path(T, v)
           D == {n \in Nat : n \in k .. LEVELS /\ t[n] /= 0}
<1>1. SUFFICES ASSUME D /= {} PROVE FALSE
  BY Levels
<1> HIDE DEF D
<1>2. PICK m \in D : \A n \in D : m <= n
  <2>1. D \in SUBSET Nat
    BY DEF D
  <2> QED BY <1>1, <2>1, LeastExists
<1>3. m \in Nat /\ m \in k .. LEVELS /\ t[m] /= 0
  BY <1>2 DEF D
<1>4. m /= k
  BY <1>3
<1> DEFINE n == m - 1
<1>5. n \in 1 .. LEVELS /\ n \in k .. LEVELS /\ n \in Nat /\ n < LEVELS /\ n + 1 = m /\ n < m
  BY <1>3, <1>4, Levels
<1> HIDE DEF n
<1>6. n \notin D
  BY <1>2, <1>3, <1>5
<1>7. t[n] = 0
  BY <1>5, <1>6 DEF D
<1>8. t[m] = Target(T, t[n], v[n])
  BY <1>5, PathDef
<1> QED BY <1>3, <1>7, <1>8 DEF Target

-----------------------------------------------------------------------------
(* Tables that belong to one place each, as functions of what pages contain. *)

Agree(v, w, k) == \A i \in 1 .. k : v[i] = w[i]
TablesOf(T) == {Path(T, v)[n] : v \in Ways, n \in 2 .. LEVELS} \ {0}
LeafOf(T, v) == IF Path(T, v)[LEVELS] = 0 THEN Zero ELSE T[Path(T, v)[LEVELS]][v[LEVELS]]

Holding(T) == T = [p \in Dom |-> T[p]] /\ \A p \in Dom : T[p] = [i \in Indices |-> T[p][i]]
Known(T, H) == \A v \in Ways : \A n \in 1 .. LEVELS : n > 1 => Path(T, v)[n] \in H \cup {0}
Apart(T) ==
  \A v, w \in Ways : \A n, m \in 1 .. LEVELS :
    Path(T, v)[n] = Path(T, w)[m] /\ Path(T, v)[n] /= 0 => n = m /\ Agree(v, w, n - 1)
ZeroOrEntry(w) == w = Zero \/ (w.to \in RAM /\ w = Entry(w.to))
LeadsOn(T) ==
  \A v \in Ways : \A n \in 1 .. LEVELS :
    Path(T, v)[n] /= 0 =>
      /\ ZeroOrEntry(T[Path(T, v)[n]][v[n]])
      /\ n < LEVELS /\ IsPresent(T[Path(T, v)[n]][v[n]]) => To(T[Path(T, v)[n]][v[n]]) /= 0
Private(T, H) == Holding(T) /\ H \subseteq RAM \ {0} /\ Known(T, H) /\ Apart(T) /\ LeadsOn(T)

LEMMA DifferTwo ==
  ASSUME NEW u \in Ways, NEW v \in Ways, Agree(u, v, LEVELS - 1), v /= u
  PROVE  v[LEVELS] /= u[LEVELS]
<1>1. u \in [1 .. LEVELS -> Indices] /\ v \in [1 .. LEVELS -> Indices]
  BY Levels
<1>2. \A i \in 1 .. LEVELS : i = LEVELS \/ i \in 1 .. LEVELS - 1
  BY Levels
<1>3. SUFFICES ASSUME v[LEVELS] = u[LEVELS] PROVE u = v
  OBVIOUS
<1>4. \A i \in 1 .. LEVELS : u[i] = v[i]
  BY <1>2, <1>3 DEF Agree
<1>5. u = [i \in 1 .. LEVELS |-> u[i]] /\ v = [i \in 1 .. LEVELS |-> v[i]]
  BY <1>1
<1>6. [i \in 1 .. LEVELS |-> u[i]] = [i \in 1 .. LEVELS |-> v[i]]
  BY <1>4
<1> QED BY <1>5, <1>6

LEMMA IndexOfWay == ASSUME NEW v \in Ways, NEW n \in 1 .. LEVELS PROVE v[n] \in Indices
BY Levels

LEMMA OnPath ==
  ASSUME NEW T, NEW H, Private(T, H), NEW v \in Ways, NEW n \in 1 .. LEVELS
  PROVE  /\ Path(T, v)[n] \in H \cup {0, Root}
         /\ Path(T, v)[n] /= 0 => Path(T, v)[n] \in Dom
         /\ n > 1 => Path(T, v)[n] /= Root
<1>0. H \subseteq RAM
  BY DEF Private
<1>1. CASE n = 1
  BY <1>1, PathDef, PagesFacts DEF Dom
<1>2. CASE n > 1
  <2>1. Path(T, v)[n] \in H \cup {0}
    BY <1>2 DEF Private, Known
  <2> QED BY <1>0, <2>1, PagesFacts DEF Dom
<1> QED BY <1>1, <1>2

LEMMA TableOnPath ==
  ASSUME NEW T, NEW v \in Ways, NEW n \in 1 .. LEVELS, Path(T, v)[n] /= 0
  PROVE  Path(T, v)[n] \in TablesOf(T) \cup {Root}
<1>1. CASE n = 1
  BY <1>1, PathDef
<1>2. CASE n /= 1
  <2>1. n \in 2 .. LEVELS
    BY <1>2, Levels
  <2> QED BY <2>1 DEF TablesOf
<1> QED BY <1>1, <1>2

LEMMA TablesAreHeld ==
  ASSUME NEW T, NEW H, Private(T, H)
  PROVE  TablesOf(T) \subseteq H /\ TablesOf(T) \subseteq RAM \ {0} /\ Root \notin TablesOf(T)
<1>1. ASSUME NEW v \in Ways, NEW n \in 2 .. LEVELS, Path(T, v)[n] /= 0 PROVE Path(T, v)[n] \in H
  <2>1. n \in 1 .. LEVELS /\ n > 1
    BY Levels
  <2> QED BY <1>1, <2>1 DEF Private, Known
<1>2. TablesOf(T) \subseteq H
  BY <1>1 DEF TablesOf
<1> QED BY <1>2, PagesFacts DEF Private

\* What is written outside the tables changes no way and no leaf.
LEMMA SameTables ==
  ASSUME NEW T, NEW H, Private(T, H), NEW S, Holding(S), NEW G, H \subseteq G, G \subseteq RAM \ {0},
         \A q \in TablesOf(T) \cup {Root} : S[q] = T[q]
  PROVE  /\ Private(S, G) /\ TablesOf(S) = TablesOf(T)
         /\ \A v \in Ways : LeafOf(S, v) = LeafOf(T, v)
         /\ \A v \in Ways : \A n \in 1 .. LEVELS : Path(S, v)[n] = Path(T, v)[n]
<1>1. \A v \in Ways : \A n \in 1 .. LEVELS : Path(T, v)[n] /= 0 => S[Path(T, v)[n]] = T[Path(T, v)[n]]
  BY TableOnPath
<1>2. ASSUME NEW v \in Ways PROVE \A n \in 1 .. LEVELS : Path(S, v)[n] = Path(T, v)[n]
  <2>1. \A k \in 1 .. LEVELS : Target(S, Path(T, v)[k], v[k]) = Target(T, Path(T, v)[k], v[k])
    BY <1>1 DEF Target
  <2> QED BY <2>1, Levels, PathAgree
<1>3. \A v \in Ways : LeafOf(S, v) = LeafOf(T, v)
  BY <1>1, <1>2, Levels DEF LeafOf
<1>4. LeadsOn(S)
  <2> SUFFICES ASSUME NEW v \in Ways, NEW n \in 1 .. LEVELS, Path(S, v)[n] /= 0
               PROVE  Path(S, v)[n] = Path(T, v)[n] /\ S[Path(S, v)[n]] = T[Path(T, v)[n]]
    BY DEF Private, LeadsOn
  <2> QED BY <1>1, <1>2
<1>5. Known(S, G)
  <2> SUFFICES ASSUME NEW v \in Ways, NEW n \in 1 .. LEVELS, n > 1 PROVE Path(S, v)[n] \in G \cup {0}
    BY DEF Known
  <2>1. Path(T, v)[n] \in H \cup {0}
    BY DEF Private, Known
  <2> QED BY <1>2, <2>1
<1>6. Apart(S)
  BY <1>2 DEF Private, Apart
<1>7. TablesOf(S) = TablesOf(T)
  <2>1. \A n \in 2 .. LEVELS : n \in 1 .. LEVELS
    BY Levels
  <2>2. \A v \in Ways : \A n \in 2 .. LEVELS : Path(S, v)[n] = Path(T, v)[n]
    BY <1>2, <2>1
  <2> QED BY <2>2 DEF TablesOf
<1> QED BY <1>2, <1>3, <1>4, <1>5, <1>6, <1>7 DEF Private

\* Setting a leaf changes that leaf only.
WithWord(T, a, i, w) == [T EXCEPT ![a][i] = w]

LEMMA HoldingWord ==
  ASSUME NEW T, Holding(T), NEW a \in Dom, NEW i \in Indices, NEW w
  PROVE  /\ Holding(WithWord(T, a, i, w))
         /\ WithWord(T, a, i, w)[a][i] = w
         /\ \A j \in Indices : j /= i => WithWord(T, a, i, w)[a][j] = T[a][j]
         /\ \A q : q /= a => WithWord(T, a, i, w)[q] = T[q]
<1> DEFINE g == [T[a] EXCEPT ![i] = w]
<1>1. T = [p \in Dom |-> T[p]] /\ T[a] = [j \in Indices |-> T[a][j]]
  BY DEF Holding
<1>2. g[i] = w /\ \A j \in Indices : j /= i => g[j] = T[a][j]
  BY <1>1
<1>3. g = [j \in Indices |-> g[j]]
  BY <1>1
<1>4. WithWord(T, a, i, w) = [T EXCEPT ![a] = g]
  BY DEF WithWord
<1> HIDE DEF g
<1>5. [T EXCEPT ![a] = g][a] = g /\ \A q : q /= a => [T EXCEPT ![a] = g][q] = T[q]
  BY <1>1
<1>6. [T EXCEPT ![a] = g] = [p \in Dom |-> [T EXCEPT ![a] = g][p]]
  BY <1>1
<1> DEFINE S == [T EXCEPT ![a] = g]
<1> HIDE DEF S
<1>7. ASSUME NEW p \in Dom PROVE S[p] = [j \in Indices |-> S[p][j]]
  <2>1. CASE p = a
    BY <1>3, <1>5, <2>1 DEF S
  <2>2. CASE p /= a
    <3>1. S[p] = T[p]
      BY <1>5, <2>2 DEF S
    <3> QED BY <3>1 DEF Holding
  <2> QED BY <2>1, <2>2
<1>8. Holding(S)
  BY <1>6, <1>7 DEF Holding, S
<1> QED BY <1>2, <1>4, <1>5, <1>8 DEF S

LEMMA SetPrivate ==
  ASSUME NEW T, NEW H, Private(T, H), NEW u \in Ways, Path(T, u)[LEVELS] /= 0, NEW w, ZeroOrEntry(w)
  PROVE  LET S == WithWord(T, Path(T, u)[LEVELS], u[LEVELS], w) IN
         /\ Private(S, H)
         /\ TablesOf(S) = TablesOf(T)
         /\ \A v \in Ways : LeafOf(S, v) = IF v = u THEN w ELSE LeafOf(T, v)
<1> DEFINE a == Path(T, u)[LEVELS]
           S == WithWord(T, a, u[LEVELS], w)
<1>1. LEVELS \in 1 .. LEVELS
  BY Levels
<1>2. a /= 0 /\ a \in Dom
  BY <1>1, OnPath
<1>3. \A v \in Ways : \A k \in 1 .. LEVELS : Path(T, v)[k] = a => k = LEVELS /\ Agree(u, v, LEVELS - 1)
  BY <1>1, <1>2 DEF Private, Apart
<1>4. u[LEVELS] \in Indices /\ \A v \in Ways : v[LEVELS] \in Indices
  BY <1>1, IndexOfWay
<1> HIDE DEF a
<1>5. /\ Holding(S) /\ S[a][u[LEVELS]] = w
      /\ \A j \in Indices : j /= u[LEVELS] => S[a][j] = T[a][j]
      /\ \A q : q /= a => S[q] = T[q]
  BY <1>2, <1>4, HoldingWord DEF Private
<1> HIDE DEF S
<1>7. \A v \in Ways : \A k \in 1 .. LEVELS : Path(S, v)[k] = Path(T, v)[k]
  <2> TAKE v \in Ways
  <2>1. \A k \in 1 .. LEVELS : k < LEVELS => Path(T, v)[k] /= a
    BY <1>3
  <2>2. \A k \in 1 .. LEVELS : k < LEVELS => Target(S, Path(T, v)[k], v[k]) = Target(T, Path(T, v)[k], v[k])
    BY <1>5, <2>1 DEF Target
  <2> QED BY <1>1, <2>2, PathAgree
<1>8. Known(S, H)
  BY <1>7 DEF Private, Known
<1>9. Apart(S)
  BY <1>7 DEF Private, Apart
<1>10. TablesOf(S) = TablesOf(T)
  <2>0. \A n \in 2 .. LEVELS : n \in 1 .. LEVELS
    BY Levels
  <2>1. \A v \in Ways : \A n \in 2 .. LEVELS : Path(S, v)[n] = Path(T, v)[n]
    BY <1>7, <2>0
  <2> QED BY <2>1 DEF TablesOf
<1>11. ASSUME NEW v \in Ways PROVE LeafOf(S, v) = IF v = u THEN w ELSE LeafOf(T, v)
  <2>1. Path(S, v)[LEVELS] = Path(T, v)[LEVELS]
    BY <1>1, <1>7
  <2>2. CASE v = u
    BY <1>2, <1>5, <2>1, <2>2 DEF LeafOf, a
  <2>3. CASE v /= u /\ Path(T, v)[LEVELS] /= a
    BY <1>5, <2>1, <2>3 DEF LeafOf
  <2>4. CASE v /= u /\ Path(T, v)[LEVELS] = a
    <3>1. Agree(u, v, LEVELS - 1)
      BY <1>1, <1>3, <2>4
    <3>2. v[LEVELS] /= u[LEVELS]
      BY <2>4, <3>1, DifferTwo
    <3>3. S[a][v[LEVELS]] = T[a][v[LEVELS]]
      BY <1>4, <1>5, <3>2
    <3> QED BY <1>2, <2>1, <2>4, <3>3 DEF LeafOf
  <2> QED BY <2>2, <2>3, <2>4
<1>12. LeadsOn(S)
  <2> SUFFICES ASSUME NEW v \in Ways, NEW n \in 1 .. LEVELS, Path(S, v)[n] /= 0
               PROVE  /\ ZeroOrEntry(S[Path(S, v)[n]][v[n]])
                      /\ n < LEVELS /\ IsPresent(S[Path(S, v)[n]][v[n]]) => To(S[Path(S, v)[n]][v[n]]) /= 0
    BY DEF LeadsOn
  <2>0. Path(S, v)[n] = Path(T, v)[n]
    BY <1>7
  <2>1. CASE Path(T, v)[n] /= a
    <3>1. S[Path(S, v)[n]] = T[Path(T, v)[n]]
      BY <1>5, <2>0, <2>1
    <3> QED BY <2>0, <3>1 DEF Private, LeadsOn
  <2>2. CASE Path(T, v)[n] = a /\ v[n] = u[LEVELS]
    <3>1. n = LEVELS
      BY <1>3, <2>2
    <3>2. S[Path(S, v)[n]][v[n]] = w
      BY <1>5, <2>0, <2>2
    <3> QED BY <3>1, <3>2, Levels
  <2>3. CASE Path(T, v)[n] = a /\ v[n] /= u[LEVELS]
    <3>1. S[Path(S, v)[n]][v[n]] = T[Path(T, v)[n]][v[n]]
      BY <1>5, <2>0, <2>3, IndexOfWay
    <3> QED BY <2>0, <3>1 DEF Private, LeadsOn
  <2> QED BY <2>1, <2>2, <2>3
<1>13. Private(S, H)
  BY <1>5, <1>8, <1>9, <1>12 DEF Private
<1> QED BY <1>10, <1>11, <1>13 DEF S, a

\* A new table under a missing entry: it belongs to that place, everything
\* behind it is missing as before, and no leaf changes.
Zeros == [i \in Indices |-> Zero]
Linked(T, a, i, p, e) == [T EXCEPT ![p] = Zeros, ![a][i] = e]

WithPage(T, p, g) == [T EXCEPT ![p] = g]

LEMMA HoldingPage ==
  ASSUME NEW T, Holding(T), NEW p \in Dom, NEW g, g = [i \in Indices |-> g[i]]
  PROVE  /\ Holding(WithPage(T, p, g))
         /\ WithPage(T, p, g)[p] = g
         /\ \A q : q /= p => WithPage(T, p, g)[q] = T[q]
<1>1. T = [q \in Dom |-> T[q]]
  BY DEF Holding
<1> DEFINE S == [T EXCEPT ![p] = g]
<1>2. S[p] = g /\ \A q : q /= p => S[q] = T[q]
  BY <1>1
<1>3. S = [q \in Dom |-> S[q]]
  BY <1>1
<1> HIDE DEF S
<1>4. ASSUME NEW q \in Dom PROVE S[q] = [i \in Indices |-> S[q][i]]
  <2>1. CASE q = p
    BY <1>2, <2>1
  <2>2. CASE q /= p
    <3>1. S[q] = T[q]
      BY <1>2, <2>2
    <3> QED BY <3>1 DEF Holding
  <2> QED BY <2>1, <2>2
<1>5. Holding(S)
  BY <1>3, <1>4 DEF Holding
<1> QED BY <1>2, <1>5 DEF S, WithPage

LEMMA LinkedTables ==
  ASSUME NEW T, Holding(T), NEW a \in Dom, NEW i \in Indices, NEW p \in Dom, p /= a, NEW e
  PROVE  /\ Holding(Linked(T, a, i, p, e))
         /\ Linked(T, a, i, p, e)[p] = Zeros
         /\ Linked(T, a, i, p, e)[a][i] = e
         /\ \A j \in Indices : j /= i => Linked(T, a, i, p, e)[a][j] = T[a][j]
         /\ \A q : q \notin {a, p} => Linked(T, a, i, p, e)[q] = T[q]
<1> DEFINE U == [T EXCEPT ![p] = Zeros]
<1>1. Zeros = [j \in Indices |-> Zeros[j]]
  BY DEF Zeros
<1>2. Holding(U) /\ U[p] = Zeros /\ \A q : q /= p => U[q] = T[q]
  BY <1>1, HoldingPage DEF WithPage
<1>3. Linked(T, a, i, p, e) = WithWord(U, a, i, e)
  BY DEF Linked, WithWord
<1> HIDE DEF U
<1>4. /\ Holding(WithWord(U, a, i, e)) /\ WithWord(U, a, i, e)[a][i] = e
      /\ \A j \in Indices : j /= i => WithWord(U, a, i, e)[a][j] = U[a][j]
      /\ \A q : q /= a => WithWord(U, a, i, e)[q] = U[q]
  BY <1>2, HoldingWord
<1> QED BY <1>2, <1>3, <1>4

LEMMA ZerosMissing == \A j \in Indices : Zeros[j] = Zero /\ ~IsPresent(Zeros[j])
BY WordFacts DEF Zeros
LEMMA LinkPath ==
  ASSUME NEW T, NEW H, Private(T, H), NEW u \in Ways, NEW k \in 1 .. LEVELS, k < LEVELS,
         Path(T, u)[k] /= 0, ~IsPresent(T[Path(T, u)[k]][u[k]]),
         NEW p \in RAM \ {0}, p \notin H, NEW e, e = Entry(p),
         NEW v \in Ways, NEW n \in 1 .. LEVELS
  PROVE  Path(Linked(T, Path(T, u)[k], u[k], p, e), v)[n] =
           IF Path(T, v)[k] = Path(T, u)[k] /\ v[k] = u[k] /\ n = k + 1 THEN p ELSE Path(T, v)[n]
<1> DEFINE a == Path(T, u)[k]
           S == Linked(T, a, u[k], p, e)
<1>1. a /= 0 /\ a \in Dom /\ a /= p /\ p \in Dom
  BY OnPath, PagesFacts DEF Dom, Private
<1>2. u[k] \in Indices /\ \A j \in 1 .. LEVELS : v[j] \in Indices
  BY Levels
<1>3. \A j \in 1 .. LEVELS : Path(T, v)[j] /= p
  BY OnPath, PagesFacts
<1>4. \A j \in 1 .. LEVELS : Path(T, v)[j] = a => j = k
  BY <1>1 DEF Private, Apart
<1> HIDE DEF a
<1>5. /\ S[p] = Zeros /\ S[a][u[k]] = e
      /\ \A j \in Indices : j /= u[k] => S[a][j] = T[a][j]
      /\ \A q : q \notin {a, p} => S[q] = T[q]
  BY <1>1, <1>2, LinkedTables DEF Private
<1> HIDE DEF S
<1>6. CASE ~(Path(T, v)[k] = a /\ v[k] = u[k])
  <2>1. \A j \in 1 .. LEVELS : Target(S, Path(T, v)[j], v[j]) = Target(T, Path(T, v)[j], v[j])
    <3> TAKE j \in 1 .. LEVELS
    <3>1. CASE Path(T, v)[j] = a
      <4>1. v[j] \in Indices /\ v[j] /= u[k]
        BY <1>2, <1>4, <1>6, <3>1
      <4>2. S[a][v[j]] = T[a][v[j]]
        BY <1>5, <4>1
      <4> QED BY <3>1, <4>2 DEF Target
    <3>2. CASE Path(T, v)[j] /= a
      <4>1. S[Path(T, v)[j]] = T[Path(T, v)[j]]
        BY <1>3, <1>5, <3>2
      <4> QED BY <4>1 DEF Target
    <3> QED BY <3>1, <3>2
  <2>2. LEVELS \in 1 .. LEVELS
    BY Levels
  <2>3. Path(S, v)[n] = Path(T, v)[n]
    BY <2>1, <2>2, PathAgree
  <2> QED BY <1>6, <2>3 DEF S, a
<1>7. CASE Path(T, v)[k] = a /\ v[k] = u[k]
  <2>1. \A j \in 1 .. LEVELS : j < k => Target(S, Path(T, v)[j], v[j]) = Target(T, Path(T, v)[j], v[j])
    <3> TAKE j \in 1 .. LEVELS
    <3> HAVE j < k
    <3>1. Path(T, v)[j] /= a
      BY <1>4
    <3>2. S[Path(T, v)[j]] = T[Path(T, v)[j]]
      BY <1>3, <1>5, <3>1
    <3> QED BY <3>2 DEF Target
  <2>2. \A j \in 1 .. k : Path(S, v)[j] = Path(T, v)[j]
    BY <2>1, PathAgree
  <2>3. k \in Nat /\ k >= 1 /\ k + 1 \in 1 .. LEVELS /\ k \in 1 .. k
    BY Levels
  <2>4. Path(S, v)[k + 1] = p
    <3>1. Path(S, v)[k + 1] = Target(S, a, u[k])
      BY <1>7, <2>2, <2>3, PathDef
    <3> QED BY <1>1, <1>5, <3>1, WordFacts DEF Target
  <2>5. Path(T, v)[k + 1] = 0
    <3>1. Path(T, v)[k + 1] = Target(T, a, u[k])
      BY <1>7, PathDef
    <3>2. ~IsPresent(T[a][u[k]])
      BY DEF a
    <3> QED BY <3>1, <3>2 DEF Target
  <2>6. \A j \in k + 1 .. LEVELS : Path(T, v)[j] = 0
    BY <2>3, <2>5, PathEnds
  <2>7. ASSUME k + 1 < LEVELS PROVE \A j \in k + 2 .. LEVELS : Path(S, v)[j] = 0
    <3>1. v[k + 1] \in Indices
      BY <1>2, <2>3
    <3>2. ~IsPresent(S[p][v[k + 1]])
      BY <1>5, <3>1, ZerosMissing
    <3>3. k + 2 \in 1 .. LEVELS /\ (k + 1) + 1 = k + 2
      BY <2>3, <2>7, Levels
    <3>4. Path(S, v)[(k + 1) + 1] = Target(S, p, v[k + 1])
      BY <2>3, <2>4, <2>7, PathDef
    <3>5. Path(S, v)[k + 2] = 0
      BY <3>2, <3>3, <3>4 DEF Target
    <3> QED BY <3>3, <3>5, PathEnds
  <2>8. CASE n <= k
    <3>1. n \in 1 .. k /\ n /= k + 1
      BY <2>8, Levels
    <3> QED BY <2>2, <3>1 DEF S, a
  <2>9. CASE n = k + 1
    BY <1>7, <2>4, <2>9 DEF S, a
  <2>10. CASE n > k + 1
    <3>1. k + 1 < LEVELS /\ n \in k + 2 .. LEVELS /\ n \in k + 1 .. LEVELS /\ n /= k + 1
      BY <2>10, Levels
    <3> QED BY <2>6, <2>7, <3>1 DEF S, a
  <2> QED BY <2>8, <2>9, <2>10, Levels
<1> QED BY <1>6, <1>7

LEMMA LinkPrivate ==
  ASSUME NEW T, NEW H, Private(T, H), NEW u \in Ways, NEW k \in 1 .. LEVELS, k < LEVELS,
         Path(T, u)[k] /= 0, ~IsPresent(T[Path(T, u)[k]][u[k]]),
         NEW p \in RAM \ {0}, p \notin H, NEW e, e = Entry(p)
  PROVE  LET S == Linked(T, Path(T, u)[k], u[k], p, e) IN
         /\ Private(S, H \cup {p})
         /\ TablesOf(S) = TablesOf(T) \cup {p}
         /\ Path(S, u)[k + 1] = p
         /\ \A v \in Ways : LeafOf(S, v) = LeafOf(T, v)
<1> DEFINE a == Path(T, u)[k]
           S == Linked(T, a, u[k], p, e)
           ArrivesAt(v) == Path(T, v)[k] = a /\ v[k] = u[k]
<1>1. a /= 0 /\ a \in Dom /\ a /= p /\ p \in Dom
  BY OnPath, PagesFacts DEF Dom, Private
<1>2. k + 1 \in 1 .. LEVELS /\ k \in Nat /\ k >= 1 /\ LEVELS \in 1 .. LEVELS
  BY Levels
<1>3. \A v \in Ways : \A n \in 1 .. LEVELS : Path(T, v)[n] /= p
  BY OnPath, PagesFacts
<1>4. \A v \in Ways : \A n \in 1 .. LEVELS : Path(T, v)[n] = a => n = k
  BY <1>1 DEF Private, Apart
<1>5. ASSUME NEW v \in Ways, NEW n \in 1 .. LEVELS
      PROVE  Path(S, v)[n] = IF ArrivesAt(v) /\ n = k + 1 THEN p ELSE Path(T, v)[n]
  BY LinkPath
<1>6. ASSUME NEW v \in Ways, ArrivesAt(v) PROVE Path(T, v)[k + 1] = 0
  <2>1. Path(T, v)[k + 1] = Target(T, a, u[k])
    BY <1>6, PathDef
  <2> QED BY <2>1 DEF Target
<1>7. \A v, w \in Ways : ArrivesAt(v) /\ ArrivesAt(w) => Agree(v, w, k)
  <2> TAKE v, w \in Ways
  <2> HAVE ArrivesAt(v) /\ ArrivesAt(w)
  <2>1. Agree(v, w, k - 1)
    BY <1>1 DEF Private, Apart
  <2>2. \A i \in 1 .. k : i = k \/ i \in 1 .. k - 1
    BY <1>2
  <2> QED BY <2>1, <2>2 DEF Agree
<1>8. u[k] \in Indices /\ \A v \in Ways : v[LEVELS] \in Indices
  BY <1>2, Levels
<1>9. ArrivesAt(u)
  OBVIOUS
<1> HIDE DEF a
<1>10. /\ Holding(S) /\ S[p] = Zeros
       /\ \A q : q \notin {a, p} => S[q] = T[q]
  BY <1>1, <1>8, LinkedTables DEF Private
<1>11. \A j \in Indices : j /= u[k] => S[a][j] = T[a][j]
  BY <1>1, <1>8, LinkedTables DEF Private
<1>12. S[a][u[k]] = e
  BY <1>1, <1>8, LinkedTables DEF Private, S
<1>13. \A v \in Ways : \A n \in 1 .. LEVELS : v[n] \in Indices
  BY Levels
<1> HIDE DEF S, ArrivesAt
<1>14. LeadsOn(S)
  <2> SUFFICES ASSUME NEW v \in Ways, NEW n \in 1 .. LEVELS, Path(S, v)[n] /= 0
               PROVE  /\ ZeroOrEntry(S[Path(S, v)[n]][v[n]])
                      /\ n < LEVELS /\ IsPresent(S[Path(S, v)[n]][v[n]]) => To(S[Path(S, v)[n]][v[n]]) /= 0
    BY DEF LeadsOn
  <2>1. CASE Path(S, v)[n] = p
    <3>1. S[p][v[n]] = Zero
      BY <1>10, <1>13, ZerosMissing
    <3> QED BY <2>1, <3>1, WordFacts DEF ZeroOrEntry
  <2>2. CASE Path(S, v)[n] /= p
    <3>1. Path(S, v)[n] = Path(T, v)[n]
      BY <1>5, <2>2
    <3>2. CASE Path(T, v)[n] = a /\ v[n] = u[k]
      <4>1. S[Path(S, v)[n]][v[n]] = Entry(p)
        BY <1>12, <3>1, <3>2
      <4>2. To(Entry(p)) = p /\ Entry(p).to = p /\ p /= 0 /\ p \in RAM
        BY DEF Entry, To
      <4> QED BY <4>1, <4>2 DEF ZeroOrEntry
    <3>3. CASE Path(T, v)[n] = a /\ v[n] /= u[k]
      <4>1. S[Path(S, v)[n]][v[n]] = T[Path(T, v)[n]][v[n]]
        BY <1>11, <1>13, <3>1, <3>3
      <4> QED BY <3>1, <4>1 DEF Private, LeadsOn
    <3>4. CASE Path(T, v)[n] /= a
      <4>1. S[Path(S, v)[n]] = T[Path(T, v)[n]]
        BY <1>10, <2>2, <3>1, <3>4
      <4> QED BY <3>1, <4>1 DEF Private, LeadsOn
    <3> QED BY <3>2, <3>3, <3>4
  <2> QED BY <2>1, <2>2
<1>15. Known(S, H \cup {p})
  <2> SUFFICES ASSUME NEW v \in Ways, NEW n \in 1 .. LEVELS, n > 1 PROVE Path(S, v)[n] \in H \cup {p, 0}
    BY DEF Known
  <2> QED BY <1>5 DEF Private, Known
<1>16. Apart(S)
  <2> SUFFICES ASSUME NEW v \in Ways, NEW w \in Ways, NEW n \in 1 .. LEVELS, NEW m \in 1 .. LEVELS,
                      Path(S, v)[n] = Path(S, w)[m], Path(S, v)[n] /= 0
               PROVE  n = m /\ Agree(v, w, n - 1)
    BY DEF Apart
  <2>1. CASE ArrivesAt(v) /\ n = k + 1
    <3>1. Path(S, w)[m] = p
      BY <1>5, <2>1
    <3>2. ArrivesAt(w) /\ m = k + 1
      BY <1>3, <1>5, <3>1
    <3>3. Agree(v, w, k) /\ n - 1 = k
      BY <1>2, <1>7, <2>1, <3>2
    <3> QED BY <2>1, <3>2, <3>3
  <2>2. CASE ~(ArrivesAt(v) /\ n = k + 1)
    <3>1. Path(S, v)[n] = Path(T, v)[n]
      BY <1>5, <2>2
    <3>2. ~(ArrivesAt(w) /\ m = k + 1)
      BY <1>3, <1>5, <3>1
    <3>3. Path(S, w)[m] = Path(T, w)[m]
      BY <1>5, <3>2
    <3> QED BY <3>1, <3>3 DEF Private, Apart
  <2> QED BY <2>1, <2>2
<1>17. Path(S, u)[k + 1] = p
  BY <1>2, <1>5, <1>9
<1>18. TablesOf(S) = TablesOf(T) \cup {p}
  <2>1. ASSUME NEW v \in Ways, NEW n \in 2 .. LEVELS, Path(S, v)[n] /= 0, Path(S, v)[n] /= p
        PROVE  Path(S, v)[n] \in TablesOf(T)
    <3>1. n \in 1 .. LEVELS
      BY Levels
    <3>2. Path(S, v)[n] = Path(T, v)[n]
      BY <1>5, <2>1, <3>1
    <3> QED BY <2>1, <3>2 DEF TablesOf
  <2>2. ASSUME NEW v \in Ways, NEW n \in 2 .. LEVELS, Path(T, v)[n] /= 0 PROVE Path(T, v)[n] \in TablesOf(S)
    <3>1. n \in 1 .. LEVELS
      BY Levels
    <3>2. Path(S, v)[n] = Path(T, v)[n]
      BY <1>5, <1>6, <2>2, <3>1
    <3> QED BY <2>2, <3>2 DEF TablesOf
  <2>3. k + 1 \in 2 .. LEVELS
    BY <1>2
  <2>4. p \in TablesOf(S)
    BY <1>17, <2>3 DEF TablesOf
  <2>5. TablesOf(S) \subseteq TablesOf(T) \cup {p}
    BY <2>1 DEF TablesOf
  <2>6. TablesOf(T) \subseteq TablesOf(S)
    BY <2>2 DEF TablesOf
  <2> QED BY <2>4, <2>5, <2>6
<1>19. ASSUME NEW v \in Ways PROVE LeafOf(S, v) = LeafOf(T, v)
  <2>1. CASE ArrivesAt(v) /\ LEVELS = k + 1
    <3>1. Path(S, v)[LEVELS] = p /\ Path(T, v)[LEVELS] = 0
      BY <1>2, <1>5, <1>6, <2>1
    <3>2. S[p][v[LEVELS]] = Zero
      BY <1>8, <1>10, ZerosMissing
    <3>3. p /= 0
      OBVIOUS
    <3> QED BY <3>1, <3>2, <3>3 DEF LeafOf
  <2>2. CASE ~(ArrivesAt(v) /\ LEVELS = k + 1)
    <3>1. Path(S, v)[LEVELS] = Path(T, v)[LEVELS]
      BY <1>2, <1>5, <2>2
    <3>2. Path(T, v)[LEVELS] \notin {a, p}
      BY <1>2, <1>3, <1>4
    <3>3. S[Path(T, v)[LEVELS]] = T[Path(T, v)[LEVELS]]
      BY <1>10, <3>2
    <3> QED BY <3>1, <3>3 DEF LeafOf
  <2> QED BY <2>1, <2>2
<1>20. Private(S, H \cup {p})
  BY <1>10, <1>15, <1>16, <1>14 DEF Private
<1> QED BY <1>17, <1>18, <1>19, <1>20 DEF S, a

Links(S, T, H, u, k, p) ==
  /\ Private(T, H) /\ u \in Ways /\ k \in 1 .. LEVELS /\ k < LEVELS
  /\ Path(T, u)[k] /= 0 /\ ~IsPresent(T[Path(T, u)[k]][u[k]]) /\ p \in RAM \ {0} /\ p \notin H
  /\ S = Linked(T, Path(T, u)[k], u[k], p, Entry(p))
LinkedWell(S, T, H, u, k, p) ==
  /\ Private(S, H \cup {p}) /\ TablesOf(S) = TablesOf(T) \cup {p} /\ Path(S, u)[k + 1] = p
  /\ \A v \in Ways : LeafOf(S, v) = LeafOf(T, v)

LEMMA LinksWell ==
  ASSUME NEW S, NEW T, NEW H, NEW u, NEW k, NEW p, Links(S, T, H, u, k, p)
  PROVE  LinkedWell(S, T, H, u, k, p)
<1>1. PICK e : e = Entry(p)
  OBVIOUS
<1>2. /\ Private(T, H) /\ u \in Ways /\ k \in 1 .. LEVELS /\ k < LEVELS
      /\ Path(T, u)[k] /= 0 /\ ~IsPresent(T[Path(T, u)[k]][u[k]]) /\ p \in RAM \ {0} /\ p \notin H
  BY DEF Links
<1>3. S = Linked(T, Path(T, u)[k], u[k], p, e)
  BY <1>1 DEF Links
<1>4. /\ Private(Linked(T, Path(T, u)[k], u[k], p, e), H \cup {p})
      /\ TablesOf(Linked(T, Path(T, u)[k], u[k], p, e)) = TablesOf(T) \cup {p}
      /\ Path(Linked(T, Path(T, u)[k], u[k], p, e), u)[k + 1] = p
      /\ \A v \in Ways : LeafOf(Linked(T, Path(T, u)[k], u[k], p, e), v) = LeafOf(T, v)
  BY <1>1, <1>2, LinkPrivate
<1> QED BY <1>3, <1>4 DEF LinkedWell

-----------------------------------------------------------------------------
(* What the boot loader mapped stays as it is.                              *)

BootKept(T) ==
  \A p \in DOMAIN BootTables, i \in Indices :
    T[p][i] = BootTables[p][i] \/ (p = Root /\ BootTables[p][i] = Zero)

\* The processor's way, from the contents of the tables.
AboveIn(T, v) == IF Path(T, Tuple[v])[LEVELS - 1] = 0 THEN Zero ELSE T[Path(T, Tuple[v])[LEVELS - 1]][Tuple[v][LEVELS - 1]]
PhysicalIn(T, v) ==
  IF AboveIn(T, v).kind = "large" THEN AboveIn(T, v).to + Tuple[v][LEVELS]
  ELSE IF IsPresent(LeafOf(T, Tuple[v])) THEN To(LeafOf(T, Tuple[v])) ELSE Unmapped

LEMMA PhysicalIsIn == ASSUME NEW v PROVE Physical(v) = PhysicalIn(memory, v)
BY PathIsTablesIn DEF Physical, PhysicalIn, InBlock, Above, AboveIn, LeafWord, LeafOf, TableOn
LEMMA PhysicalIsInNext == ASSUME NEW v PROVE Physical(v)' = PhysicalIn(memory', v)
<1>1. \A T : TablesIn(T, v) = Path(T, Tuple[v])
  BY PathIsTablesIn
<1>2. TableOn(v)' = Path(memory', Tuple[v])
  <2>1. TableOn(v)' = TablesIn(memory', v)
    BY DEF TableOn
  <2> QED BY <1>1, <2>1
<1> QED BY <1>2 DEF Physical, PhysicalIn, InBlock, Above, AboveIn, LeafWord, LeafOf

\* Where the boot loader's way stays in its tables the code finds it.
LEMMA BootWay ==
  ASSUME NEW T, BootKept(T), NEW v \in VPages, NEW k \in 1 .. LEVELS,
         \A n \in 1 .. LEVELS : n < k => BootOn(v)[n] \in DOMAIN BootTables /\ BootOn(v)[n + 1] /= 0
  PROVE  /\ \A n \in 1 .. k : Path(T, Tuple[v])[n] = BootOn(v)[n]
         /\ \A n \in 1 .. LEVELS : n < k => T[BootOn(v)[n]][Tuple[v][n]] = BootTables[BootOn(v)[n]][Tuple[v][n]]
<1> DEFINE w == Tuple[v]
           b == Path(BootTables, w)
<1>1. BootOn(v) = b
  BY PathIsTablesIn DEF BootOn
<1>2. \A n \in 1 .. LEVELS : w[n] \in Indices
  BY Levels
<1> HIDE DEF w
<1>3. \A n \in 1 .. LEVELS : n < LEVELS => b[n + 1] = Target(BootTables, b[n], w[n])
  BY PathDef
<1> HIDE DEF b
<1>4. ASSUME NEW n \in 1 .. LEVELS, n < k
      PROVE  T[b[n]][w[n]] = BootTables[b[n]][w[n]]
  <2>1. b[n] \in DOMAIN BootTables /\ b[n + 1] /= 0 /\ n < LEVELS
    BY <1>1, <1>4, Levels
  <2>2. b[n + 1] = Target(BootTables, b[n], w[n])
    BY <1>3, <2>1
  <2>3. BootTables[b[n]][w[n]] /= Zero
    BY <2>1, <2>2, WordFacts DEF Target
  <2> QED BY <1>2, <2>1, <2>3 DEF BootKept
<1>5. \A n \in 1 .. LEVELS : n < k => Target(T, b[n], w[n]) = Target(BootTables, b[n], w[n])
  BY <1>4 DEF Target
<1>6. \A n \in 1 .. k : Path(T, w)[n] = Path(BootTables, w)[n]
  BY <1>5, PathAgree DEF b
<1> QED BY <1>1, <1>4, <1>6 DEF b, w

\* The pages of low memory are mapped to themselves; the code takes the first
\* page of the block for the last table.
LEMMA LowFacts ==
  ASSUME NEW v \in VPages, Low(v)
  PROVE  /\ v \in RAM /\ v \in Nat /\ Block(v) \in RAM \ {0}
         /\ Block(v) + Tuple[v][LEVELS] = v /\ Tuple[v][LEVELS] \in Indices
         /\ \A n \in 1 .. LEVELS : n < LEVELS => BootOn(v)[n] \in DOMAIN BootTables /\ BootOn(v)[n + 1] /= 0
         /\ BootOn(v)[LEVELS] = Block(v)
         /\ BootTables[BootOn(v)[LEVELS - 1]][Tuple[v][LEVELS - 1]] = Large(Block(v))
<1>1. v \in RAM /\ Block(v) \in RAM \ {0} /\ v \in Nat /\ Tuple[v] \in [1 .. LEVELS -> Indices]
  BY Levels DEF Low
<1>2. Tuple[v][LEVELS] \in Indices
  BY <1>1, Levels
<1>3. Block(v) = v - Tuple[v][LEVELS] /\ CELLS \in Nat
  BY VmmAssumption DEF Block
<1>4. Tuple[v][LEVELS] \in Int
  BY <1>2, <1>3 DEF Indices
<1>5. Block(v) + Tuple[v][LEVELS] = v
  BY <1>1, <1>3, <1>4
<1>6. \A n \in 1 .. LEVELS - 1 : BootOn(v)[n] \in DOMAIN BootTables
  BY DEF Low
<1>7. BootTables[BootOn(v)[LEVELS - 1]][Tuple[v][LEVELS - 1]] = Large(Block(v))
  BY DEF Low
<1>8. LEVELS - 1 \in 1 .. LEVELS /\ LEVELS - 1 < LEVELS /\ (LEVELS - 1) + 1 = LEVELS /\ LEVELS - 1 \in 1 .. LEVELS - 1
  BY Levels
<1>9. BootOn(v) = Path(BootTables, Tuple[v])
  BY PathIsTablesIn DEF BootOn
<1>10. BootOn(v)[LEVELS] = Block(v)
  <2>1. BootOn(v)[(LEVELS - 1) + 1] = Target(BootTables, BootOn(v)[LEVELS - 1], Tuple[v][LEVELS - 1])
    BY <1>8, <1>9, PathDef
  <2>2. BootOn(v)[LEVELS - 1] /= 0
    BY <1>6, <1>8, PagesFacts
  <2> QED BY <1>7, <1>8, <2>1, <2>2, WordFacts DEF Target
<1>11. ASSUME NEW n \in 1 .. LEVELS, n < LEVELS
       PROVE  BootOn(v)[n] \in DOMAIN BootTables /\ BootOn(v)[n + 1] /= 0
  <2>1. n \in 1 .. LEVELS - 1
    BY <1>11, Levels
  <2>2. n + 1 = LEVELS \/ n + 1 \in 1 .. LEVELS - 1
    BY <1>11, Levels
  <2> QED BY <1>1, <1>6, <1>10, <2>1, <2>2, PagesFacts
<1> QED BY <1>1, <1>2, <1>5, <1>7, <1>10, <1>11

LEMMA LowWay ==
  ASSUME NEW T, BootKept(T), NEW v \in VPages, Low(v)
  PROVE  /\ Path(T, Tuple[v])[LEVELS] = Block(v)
         /\ \A n \in 1 .. LEVELS : n < LEVELS => IsPresent(T[Path(T, Tuple[v])[n]][Tuple[v][n]])
         /\ \A n \in 1 .. LEVELS : Path(T, Tuple[v])[n] /= 0
         /\ PhysicalIn(T, v) = v
<1>1. /\ \A n \in 1 .. LEVELS : Path(T, Tuple[v])[n] = BootOn(v)[n]
      /\ \A n \in 1 .. LEVELS : n < LEVELS => T[BootOn(v)[n]][Tuple[v][n]] = BootTables[BootOn(v)[n]][Tuple[v][n]]
  <2>1. LEVELS \in 1 .. LEVELS
    BY Levels
  <2>2. \A n \in 1 .. LEVELS : n < LEVELS => BootOn(v)[n] \in DOMAIN BootTables /\ BootOn(v)[n + 1] /= 0
    BY LowFacts
  <2> QED BY <2>1, <2>2, BootWay
<1>2. Path(T, Tuple[v])[LEVELS] = Block(v)
  BY <1>1, LowFacts, Levels
<1>3. BootOn(v) = Path(BootTables, Tuple[v])
  BY PathIsTablesIn DEF BootOn
<1>4. ASSUME NEW n \in 1 .. LEVELS, n < LEVELS
      PROVE  IsPresent(T[Path(T, Tuple[v])[n]][Tuple[v][n]]) /\ Path(T, Tuple[v])[n] /= 0
  <2>1. BootOn(v)[n] \in DOMAIN BootTables /\ BootOn(v)[n + 1] /= 0
    BY <1>4, LowFacts
  <2>2. BootOn(v)[n + 1] = Target(BootTables, BootOn(v)[n], Tuple[v][n])
    BY <1>3, <1>4, PathDef
  <2>3. IsPresent(BootTables[BootOn(v)[n]][Tuple[v][n]])
    BY <2>1, <2>2 DEF Target
  <2> QED BY <1>1, <1>4, <2>1, <2>3, PagesFacts
<1>5. \A n \in 1 .. LEVELS : Path(T, Tuple[v])[n] /= 0
  <2>1. \A n \in 1 .. LEVELS : n < LEVELS \/ n = LEVELS
    BY Levels
  <2>2. Block(v) /= 0
    BY LowFacts
  <2> QED BY <1>2, <1>4, <2>1, <2>2
<1>6. PhysicalIn(T, v) = v
  <2>1. LEVELS - 1 \in 1 .. LEVELS /\ LEVELS - 1 < LEVELS
    BY Levels
  <2>2. T[BootOn(v)[LEVELS - 1]][Tuple[v][LEVELS - 1]] = Large(Block(v))
    BY <1>1, <2>1, LowFacts
  <2>3. AboveIn(T, v) = Large(Block(v))
    BY <1>1, <1>5, <2>1, <2>2 DEF AboveIn
  <2>4. AboveIn(T, v).kind = "large" /\ AboveIn(T, v).to = Block(v)
    BY <2>3 DEF Large
  <2> QED BY <2>4, LowFacts DEF PhysicalIn
<1> QED BY <1>2, <1>4, <1>5, <1>6

LEMMA ByPageWay ==
  ASSUME NEW T, BootKept(T), NEW v \in VPages, ByPage(v)
  PROVE  PhysicalIn(T, v) = PhysicalIn(BootTables, v)
<1>1. \A n \in 1 .. LEVELS : BootOn(v)[n] \in DOMAIN BootTables
  BY DEF ByPage
<1>2. \A n \in 1 .. LEVELS : n < LEVELS => BootOn(v)[n] \in DOMAIN BootTables /\ BootOn(v)[n + 1] /= 0
  <2> TAKE n \in 1 .. LEVELS
  <2> HAVE n < LEVELS
  <2>1. n + 1 \in 1 .. LEVELS
    BY Levels
  <2> QED BY <1>1, <2>1, PagesFacts
<1>3. /\ \A n \in 1 .. LEVELS : Path(T, Tuple[v])[n] = BootOn(v)[n]
      /\ \A n \in 1 .. LEVELS : n < LEVELS => T[BootOn(v)[n]][Tuple[v][n]] = BootTables[BootOn(v)[n]][Tuple[v][n]]
  <2>1. LEVELS \in 1 .. LEVELS
    BY Levels
  <2> QED BY <1>2, <2>1, BootWay
<1>4. BootOn(v) = Path(BootTables, Tuple[v])
  BY PathIsTablesIn DEF BootOn
<1>5. LEVELS \in 1 .. LEVELS /\ LEVELS - 1 \in 1 .. LEVELS /\ LEVELS - 1 < LEVELS
  BY Levels
<1>6. AboveIn(T, v) = AboveIn(BootTables, v)
  BY <1>3, <1>4, <1>5 DEF AboveIn
<1>7. T[BootOn(v)[LEVELS]][Tuple[v][LEVELS]] = BootTables[BootOn(v)[LEVELS]][Tuple[v][LEVELS]]
  <2>1. BootOn(v)[LEVELS] /= Root
    BY DEF ByPage
  <2>2. Tuple[v][LEVELS] \in Indices
    BY Levels
  <2> QED BY <1>1, <1>5, <2>1, <2>2 DEF BootKept
<1>8. LeafOf(T, Tuple[v]) = LeafOf(BootTables, Tuple[v])
  BY <1>3, <1>4, <1>5, <1>7 DEF LeafOf
<1> QED BY <1>6, <1>8 DEF PhysicalIn

LEMMA OwnWay ==
  ASSUME NEW T, NEW H, Private(T, H), NEW v \in VPages, Own(v)
  PROVE  /\ Tuple[v] \in Ways /\ ZeroOrEntry(LeafOf(T, Tuple[v]))
         /\ PhysicalIn(T, v) = IF LeafOf(T, Tuple[v]) = Zero THEN Unmapped ELSE LeafOf(T, Tuple[v]).to
<1>1. Tuple[v] \in Ways
  BY DEF Ways, OwnPages
<1>2. LEVELS \in 1 .. LEVELS /\ LEVELS - 1 \in 1 .. LEVELS
  BY Levels
<1>3. ZeroOrEntry(LeafOf(T, Tuple[v]))
  BY <1>1, <1>2 DEF Private, LeadsOn, LeafOf, ZeroOrEntry
<1>4. ZeroOrEntry(AboveIn(T, v))
  BY <1>1, <1>2 DEF Private, LeadsOn, AboveIn, ZeroOrEntry
<1>5. AboveIn(T, v).kind /= "large"
  <2>1. Zero.kind /= "large"
    BY DEF Zero
  <2> QED BY <1>4, <2>1, WordFacts DEF ZeroOrEntry
<1>6. PhysicalIn(T, v) = IF IsPresent(LeafOf(T, Tuple[v])) THEN To(LeafOf(T, Tuple[v])) ELSE Unmapped
  BY <1>5 DEF PhysicalIn
<1> QED BY <1>1, <1>3, <1>6, WordFacts DEF ZeroOrEntry

\* Every virtual page is of one of three kinds, and Low excludes Own.
LEMMA Kinds ==
  /\ \A v \in VPages : Low(v) \/ ByPage(v) \/ Own(v)
  /\ \A v \in VPages : Low(v) => ~Own(v)
<1>1. ASSUME NEW v \in VPages, Low(v), Own(v) PROVE FALSE
  <2>1. 1 \in 1 .. LEVELS /\ 1 < LEVELS
    BY Levels
  <2>2. BootOn(v)[1 + 1] /= 0
    BY <1>1, <2>1, LowFacts
  <2>3. BootOn(v) = Path(BootTables, Tuple[v])
    BY PathIsTablesIn DEF BootOn
  <2>4. BootOn(v)[1 + 1] = Target(BootTables, Root, Tuple[v][1])
    BY <2>1, <2>3, PathDef
  <2> QED BY <1>1, <2>2, <2>4, WordFacts DEF Own, Target
<1> QED BY <1>1, VmmAssumption
-----------------------------------------------------------------------------
(* The steps of the page tables.                                            *)

VmmInv ==
  /\ free \subseteq Given /\ Private(memory, Held) /\ BootKept(memory)
  /\ pc \in {"idle", "map", "get", "halted"} /\ virt \in VPages
  /\ pc \in {"map", "get"} => level \in 1 .. LEVELS /\ at = Path(memory, Tuple[virt])[level] /\ at /= 0
  /\ pc = "get" => Low(virt)
  /\ pc = "map" => (Low(virt) \/ Own(virt)) /\ new \in RAM

LEMMA CallStep ==
  ASSUME VmmInv, NEW proc \in {"map", "get"}, NEW v \in VPages, NEW p, Call(proc, v, p),
         UNCHANGED <<free, memory>>,
         proc = "get" => Low(v), proc = "map" => (Low(v) \/ Own(v)) /\ p \in RAM
  PROVE  VmmInv'
<1>1. pc' = proc /\ virt' = v /\ new' = p /\ at' = Root /\ level' = 1
  BY DEF Call
<1>2. 1 \in 1 .. LEVELS /\ Root /= 0 /\ Path(memory', Tuple[v])[1] = Root
  BY Levels, PagesFacts, PathDef
<1>3. Private(memory, Held)' /\ BootKept(memory)' /\ (free \subseteq Given)'
  BY DEF VmmInv, Held
<1>4. (Low(virt) \/ Own(virt))' = (Low(v) \/ Own(v)) /\ Low(virt)' = Low(v)
  BY <1>1
<1> QED BY <1>1, <1>2, <1>3, <1>4 DEF VmmInv

LEMMA HereFacts ==
  ASSUME VmmInv, pc \in {"map", "get"}
  PROVE  /\ level \in 1 .. LEVELS /\ at = Path(memory, Tuple[virt])[level] /\ at /= 0
         /\ Here = memory[at][Tuple[virt][level]] /\ virt \in VPages
         /\ Low(virt) => (level < LEVELS => IsPresent(Here)) /\ (level = LEVELS => at = Block(virt))
         /\ ~Low(virt) => Own(virt) /\ Tuple[virt] \in Ways /\ pc = "map"
<1>1. level \in 1 .. LEVELS /\ at = Path(memory, Tuple[virt])[level] /\ at /= 0 /\ virt \in VPages
  BY DEF VmmInv
<1>2. Low(virt) => (level < LEVELS => IsPresent(Here)) /\ (level = LEVELS => at = Block(virt))
  BY <1>1, LowWay DEF VmmInv, Here
<1>3. ~Low(virt) => Own(virt) /\ pc = "map"
  BY DEF VmmInv
<1>4. Own(virt) => Tuple[virt] \in Ways
  BY <1>1 DEF Ways, OwnPages
<1> QED BY <1>1, <1>2, <1>3, <1>4 DEF Here

LEMMA Virtual ==   \* the kind of a page does not change
  /\ virt' = virt => Low(virt)' = Low(virt) /\ Own(virt)' = Own(virt)
  /\ virt' = virt => (Tuple[virt])' = Tuple[virt]
OBVIOUS

LEMMA DescendStep ==
  ASSUME VmmInv, Descend
  PROVE  VmmInv' /\ memory' = memory /\ free' = free /\ pc' = pc /\ virt' = virt /\ new' = new /\ known' = known /\ found' = found
<1>1. /\ pc \in {"map", "get"} /\ level < LEVELS /\ IsPresent(Here)
      /\ at' = To(Here) /\ level' = level + 1
      /\ memory' = memory /\ free' = free /\ pc' = pc /\ virt' = virt /\ new' = new /\ known' = known /\ found' = found
  BY DEF Descend
<1>2. level + 1 \in 1 .. LEVELS
  BY <1>1, HereFacts, Levels
<1>3. Path(memory, Tuple[virt])[level + 1] = To(Here)
  <2>1. Path(memory, Tuple[virt])[level + 1] = Target(memory, at, Tuple[virt][level])
    BY <1>1, HereFacts, PathDef
  <2> QED BY <1>1, <2>1, HereFacts DEF Target
<1>4. To(Here) /= 0
  <2>1. CASE Low(virt)
    BY <1>2, <1>3, <2>1, HereFacts, LowWay DEF VmmInv
  <2>2. CASE ~Low(virt)
    BY <1>1, <2>2, HereFacts DEF VmmInv, Private, LeadsOn
  <2> QED BY <2>1, <2>2
<1>5. Private(memory, Held)' /\ BootKept(memory)' /\ (free \subseteq Given)'
  BY <1>1 DEF VmmInv, Held
<1>6. (pc = "get" => Low(virt))' /\ (pc = "map" => (Low(virt) \/ Own(virt)) /\ new \in RAM)'
  BY <1>1, Virtual DEF VmmInv
<1>7. (level \in 1 .. LEVELS /\ at = Path(memory, Tuple[virt])[level] /\ at /= 0)'
  BY <1>1, <1>2, <1>3, <1>4
<1>8. VmmInv'
  BY <1>1, <1>5, <1>6, <1>7 DEF VmmInv
<1> QED BY <1>1, <1>8

LEMMA TakeFacts ==
  ASSUME VmmInv, NEW p, Take(p)
  PROVE  p \in free /\ p \in Given /\ p \in RAM \ {0} /\ p \notin Held /\ free' = free \ {p} /\ Held' = Held \cup {p}
         /\ (free \subseteq Given)'
<1>1. free /= {} /\ p = Min(free) /\ free' = free \ {p} /\ free \subseteq Nat
  BY PagesFacts DEF Take, VmmInv
<1>2. \E x \in free : \A y \in free : x <= y
  BY <1>1, LeastExists
<1>3. p \in free
  BY <1>1, <1>2 DEF Min
<1> QED BY <1>1, <1>3, PagesFacts DEF VmmInv, Held

LEMMA NewTableStep ==
  ASSUME VmmInv, NewTable
  PROVE  \E p \in free :
           /\ free' = free \ {p} /\ p \in RAM \ {0} /\ p \notin Held /\ Held' = Held \cup {p}
           /\ VmmInv' /\ pc = "map" /\ Own(virt)
           /\ pc' = pc /\ virt' = virt /\ new' = new /\ known' = known /\ found' = found
           /\ TablesOf(memory') = TablesOf(memory) \cup {p}
           /\ \A v \in Ways : LeafOf(memory', v) = LeafOf(memory, v)
           /\ \A q : q \notin TablesOf(memory) \cup {Root, p} => memory'[q] = memory[q]
<1>1. pc = "map" /\ level < LEVELS /\ ~IsPresent(Here)
  BY DEF NewTable, Missing
<1>2. PICK p \in free : Take(p) /\ Link(p, Zeros)
  BY DEF NewTable, Zeros
<1>3. /\ p \in RAM \ {0} /\ p \notin Held /\ free' = free \ {p} /\ Held' = Held \cup {p} /\ (free \subseteq Given)'
      /\ p \in Dom
  BY <1>2, TakeFacts DEF Dom
<1>4. Own(virt) /\ Tuple[virt] \in Ways
  BY <1>1, HereFacts
<1> DEFINE u == Tuple[virt]
<1>5. /\ level \in 1 .. LEVELS /\ at = Path(memory, u)[level] /\ at /= 0 /\ ~IsPresent(memory[at][u[level]])
      /\ virt \in VPages /\ Private(memory, Held) /\ BootKept(memory)
  BY <1>1, HereFacts DEF VmmInv
<1>6. /\ memory' = Linked(memory, at, u[level], p, Entry(p))
      /\ at' = p /\ level' = level + 1
      /\ pc' = pc /\ virt' = virt /\ new' = new /\ known' = known /\ found' = found
  BY <1>2 DEF Link, Linked
<1> HIDE DEF u
<1>7. u \in Ways
  BY <1>4 DEF u
<1> DEFINE S == Linked(memory, at, u[level], p, Entry(p))
<1>8. /\ Private(S, Held \cup {p}) /\ TablesOf(S) = TablesOf(memory) \cup {p}
      /\ Path(S, u)[level + 1] = p
      /\ \A v \in Ways : LeafOf(S, v) = LeafOf(memory, v)
  <2>1. Links(S, memory, Held, u, level, p)
    BY <1>1, <1>3, <1>5, <1>7 DEF Links
  <2> HIDE DEF S
  <2>2. LinkedWell(S, memory, Held, u, level, p)
    BY <2>1, LinksWell
  <2> QED BY <2>2 DEF LinkedWell
<1>9. at \in Dom /\ u[level] \in Indices /\ at /= p
  BY <1>3, <1>5, <1>7, OnPath, IndexOfWay, PagesFacts
<1>10. Holding(memory)
  BY <1>5 DEF Private
<1>11. /\ \A j \in Indices : j /= u[level] => S[at][j] = memory[at][j]
       /\ \A q : q \notin {at, p} => S[q] = memory[q]
  BY <1>3, <1>9, <1>10, LinkedTables
<1> HIDE DEF S
<1>12. at \in TablesOf(memory) \cup {Root}
  BY <1>5, <1>7, TableOnPath
<1>13. BootKept(S)
  <2> SUFFICES ASSUME NEW q \in DOMAIN BootTables, NEW i \in Indices
               PROVE  S[q][i] = BootTables[q][i] \/ (q = Root /\ BootTables[q][i] = Zero)
    BY DEF BootKept
  <2>1. q /= p
    BY <1>3, PagesFacts
  <2>2. CASE q /= at
    BY <1>5, <1>11, <2>1, <2>2 DEF BootKept
  <2>3. CASE q = at /\ i /= u[level]
    BY <1>5, <1>11, <2>1, <2>3 DEF BootKept
  <2>4. CASE q = at /\ i = u[level]
    <3>1. at = Root
      BY <1>5, <1>12, <2>4, TablesAreHeld, PagesFacts
    <3>2. level = 1
      <4>1. level > 1 => at /= Root
        BY <1>5, <1>7, OnPath
      <4> QED BY <1>5, <3>1, <4>1, Levels
    <3>3. BootTables[Root][u[1]] = Zero
      BY <1>4 DEF Own, u
    <3> QED BY <2>4, <3>1, <3>2, <3>3
  <2> QED BY <2>2, <2>3, <2>4
<1>14. level + 1 \in 1 .. LEVELS /\ p /= 0
  BY <1>1, <1>3, <1>5, Levels
<1>15. VmmInv'
  <2>1. Private(memory, Held)' /\ BootKept(memory)'
    BY <1>3, <1>6, <1>8, <1>13 DEF S
  <2>2. (level \in 1 .. LEVELS /\ at = Path(memory, Tuple[virt])[level] /\ at /= 0)'
    BY <1>6, <1>8, <1>14 DEF S, u
  <2>3. (pc = "get" => Low(virt))' /\ (pc = "map" => (Low(virt) \/ Own(virt)) /\ new \in RAM)'
    BY <1>1, <1>6, Virtual DEF VmmInv
  <2> QED BY <1>1, <1>3, <1>5, <1>6, <2>1, <2>2, <2>3 DEF VmmInv
<1>16. \A q : q \notin TablesOf(memory) \cup {Root, p} => memory'[q] = memory[q]
  BY <1>6, <1>11, <1>12 DEF S
<1> QED BY <1>1, <1>3, <1>4, <1>6, <1>8, <1>15, <1>16 DEF S

LEMMA SetLeafFacts ==
  ASSUME VmmInv, SetLeaf
  PROVE  /\ pc = "map" /\ level = LEVELS /\ at = Path(memory, Tuple[virt])[LEVELS] /\ at /= 0
         /\ memory' = WithWord(memory, at, Tuple[virt][LEVELS], Entry(new))
         /\ pc' = "idle" /\ virt' = virt /\ free' = free /\ known' = known /\ found' = found
BY HereFacts DEF SetLeaf, Return, WithWord

LEMMA IdleStep ==
  ASSUME VmmInv, pc' \in {"idle", "halted"}, virt' = virt, free' \subseteq Given, Private(memory', Held'), BootKept(memory')
  PROVE  VmmInv'
BY DEF VmmInv

LEMMA SetOwnLeaf ==
  ASSUME VmmInv, SetLeaf, Own(virt)
  PROVE  /\ VmmInv' /\ TablesOf(memory') = TablesOf(memory)
         /\ \A v \in Ways : LeafOf(memory', v) = IF v = Tuple[virt] THEN Entry(new) ELSE LeafOf(memory, v)
         /\ \A q : q \notin TablesOf(memory) => memory'[q] = memory[q]
<1> DEFINE u == Tuple[virt]
<1>1. u \in Ways /\ virt \in VPages
  BY DEF Ways, OwnPages, VmmInv
<1>2. /\ pc = "map" /\ Private(memory, Held) /\ BootKept(memory) /\ new \in RAM /\ LEVELS \in 1 .. LEVELS
  BY SetLeafFacts, Levels DEF VmmInv
<1>3. at = Path(memory, u)[LEVELS] /\ at /= 0 /\ memory' = WithWord(memory, at, u[LEVELS], Entry(new))
  BY SetLeafFacts
<1> HIDE DEF u
<1>4. ZeroOrEntry(Entry(new))
  BY <1>2 DEF ZeroOrEntry, Entry
<1>5. /\ Private(memory', Held) /\ TablesOf(memory') = TablesOf(memory)
      /\ \A v \in Ways : LeafOf(memory', v) = IF v = u THEN Entry(new) ELSE LeafOf(memory, v)
  <2>1. Path(memory, u)[LEVELS] /= 0 /\ memory' = WithWord(memory, Path(memory, u)[LEVELS], u[LEVELS], Entry(new))
    BY <1>3
  <2>0. PICK w : w = Entry(new)
    OBVIOUS
  <2>3. ZeroOrEntry(w)
    BY <1>4, <2>0
  <2>2. /\ Private(WithWord(memory, Path(memory, u)[LEVELS], u[LEVELS], w), Held)
        /\ TablesOf(WithWord(memory, Path(memory, u)[LEVELS], u[LEVELS], w)) = TablesOf(memory)
        /\ \A v \in Ways : LeafOf(WithWord(memory, Path(memory, u)[LEVELS], u[LEVELS], w), v) = IF v = u THEN w ELSE LeafOf(memory, v)
    BY <1>1, <1>2, <2>3, <2>1, SetPrivate
  <2> QED BY <2>1, <2>2, <2>0
<1>6. at \in TablesOf(memory) /\ at \in Dom /\ at \in RAM /\ u[LEVELS] \in Indices
  <2>1. at \in TablesOf(memory) \cup {Root} /\ at /= Root
    BY <1>1, <1>2, <1>3, TableOnPath, OnPath, Levels
  <2> QED BY <1>1, <1>2, <2>1, TablesAreHeld, IndexOfWay DEF Dom
<1>7. \A q : q /= at => memory'[q] = memory[q]
  BY <1>2, <1>3, <1>6, HoldingWord DEF Private
<1>8. BootKept(memory')
  BY <1>2, <1>6, <1>7, PagesFacts DEF BootKept
<1>9. VmmInv'
  <2>1. Held' = Held /\ free' \subseteq Given
    BY SetLeafFacts DEF Held, VmmInv
  <2> QED BY <1>5, <1>8, <2>1, SetLeafFacts, IdleStep
<1> QED BY <1>5, <1>6, <1>7, <1>9 DEF u

LEMMA SetLowLeaf ==
  ASSUME VmmInv, SetLeaf, Low(virt), Block(virt) \notin Held
  PROVE  /\ VmmInv' /\ TablesOf(memory') = TablesOf(memory)
         /\ \A v \in Ways : LeafOf(memory', v) = LeafOf(memory, v)
         /\ memory'[Block(virt)][Tuple[virt][LEVELS]] = Entry(new)
         /\ \A j \in Indices : j /= Tuple[virt][LEVELS] => memory'[Block(virt)][j] = memory[Block(virt)][j]
         /\ \A q : q /= Block(virt) => memory'[q] = memory[q]
<1> DEFINE b == Block(virt)
           i == Tuple[virt][LEVELS]
<1>1. pc = "map" /\ Private(memory, Held) /\ Holding(memory) /\ BootKept(memory) /\ virt \in VPages
  BY SetLeafFacts DEF VmmInv, Private
<1>2. b \in Dom /\ b \in RAM /\ i \in Indices /\ b \notin Held
  BY <1>1, LowFacts DEF Dom
<1>3. memory' = WithWord(memory, b, i, Entry(new))
  <2>1. at = b
    BY <1>1, SetLeafFacts, HereFacts
  <2> QED BY <2>1, SetLeafFacts
<1> HIDE DEF b, i
<1>4. /\ Holding(memory') /\ memory'[b][i] = Entry(new)
      /\ \A j \in Indices : j /= i => memory'[b][j] = memory[b][j]
      /\ \A q : q /= b => memory'[q] = memory[q]
  BY <1>1, <1>2, <1>3, HoldingWord
<1>5. \A q \in TablesOf(memory) \cup {Root} : memory'[q] = memory[q]
  BY <1>1, <1>2, <1>4, TablesAreHeld, PagesFacts
<1>6. Held \subseteq RAM \ {0}
  BY <1>1 DEF Private
<1>7. /\ Private(memory', Held) /\ TablesOf(memory') = TablesOf(memory)
      /\ \A v \in Ways : LeafOf(memory', v) = LeafOf(memory, v)
  BY <1>1, <1>4, <1>5, <1>6, SameTables
<1>8. BootKept(memory')
  BY <1>1, <1>2, <1>4, PagesFacts DEF BootKept
<1>9. VmmInv'
  <2>1. Held' = Held /\ free' \subseteq Given
    BY SetLeafFacts DEF Held, VmmInv
  <2> QED BY <1>7, <1>8, <2>1, SetLeafFacts, IdleStep
<1> QED BY <1>4, <1>7, <1>9 DEF b, i

LEMMA QuietStep ==   \* NullTable and Found
  ASSUME VmmInv, NullTable \/ Found
  PROVE  VmmInv' /\ memory' = memory /\ free' = free /\ virt' = virt /\ known' = known
         /\ (NullTable => pc = "map" /\ Own(virt) /\ pc' = "halted" /\ found' = found)
         /\ (Found => pc = "get" /\ pc' = "idle" /\ found' = Leads(memory[Block(virt)][Tuple[virt][LEVELS]]))
<1>1. pc' \in {"idle", "halted"} /\ virt' = virt /\ memory' = memory /\ free' = free /\ known' = known
  BY DEF NullTable, Found, Return
<1>2. VmmInv'
  <2>1. Held' = Held /\ free' \subseteq Given /\ Private(memory', Held') /\ BootKept(memory')
    BY <1>1 DEF VmmInv, Held
  <2> QED BY <1>1, <2>1, IdleStep
<1>3. NullTable => pc = "map" /\ Own(virt) /\ pc' = "halted" /\ found' = found
  BY HereFacts DEF NullTable, Missing
<1>4. Found => pc = "get" /\ pc' = "idle" /\ found' = Leads(memory[Block(virt)][Tuple[virt][LEVELS]])
  <2> SUFFICES ASSUME Found PROVE pc = "get" /\ pc' = "idle" /\ found' = Leads(memory[Block(virt)][Tuple[virt][LEVELS]])
    OBVIOUS
  <2>1. pc = "get" /\ pc' = "idle" /\ found' = (level = LEVELS /\ Leads(Here)) /\ (Missing \/ level = LEVELS)
    BY DEF Found, Return
  <2>2. Low(virt)
    BY <2>1 DEF VmmInv
  <2>3. level = LEVELS /\ at = Block(virt) /\ Here = memory[at][Tuple[virt][level]]
    BY <2>1, <2>2, HereFacts DEF Missing
  <2>4. Here = memory[Block(virt)][Tuple[virt][LEVELS]]
    BY <2>3
  <2>5. Leads(Here) = Leads(memory[Block(virt)][Tuple[virt][LEVELS]])
    BY <2>4, Zenon
  <2>6. found' = Leads(Here)
    BY <2>1, <2>3 DEF Leads
  <2> QED BY <2>1, <2>5, <2>6
<1> QED BY <1>1, <1>2, <1>3, <1>4
-----------------------------------------------------------------------------
(* Addresses, their pages and their cells.                                  *)

LEMMA DivMod ==
  ASSUME NEW a \in Nat
  PROVE  /\ a \div CELLS \in Nat /\ a % CELLS \in 0 .. CELLS - 1
         /\ a = CELLS * (a \div CELLS) + (a % CELLS)
<1>1. CELLS \in Nat \ {0}
  BY VmmAssumption
<1>2. a \div CELLS \in Nat
  BY <1>1
<1>3. a % CELLS \in 0 .. CELLS - 1
  BY <1>1
<1>4. a = CELLS * (a \div CELLS) + (a % CELLS)
  BY <1>1
<1> QED BY <1>2, <1>3, <1>4

LEMMA DivMonotone ==
  ASSUME NEW a \in Nat, NEW b \in Nat, a <= b
  PROVE  a \div CELLS <= b \div CELLS /\ (a + CELLS) \div CELLS = (a \div CELLS) + 1
<1>1. CELLS \in Nat \ {0}
  BY VmmAssumption
<1>2. a \div CELLS <= b \div CELLS
  BY <1>1
<1>3. (a + CELLS) \div CELLS = (a \div CELLS) + 1
  BY <1>1
<1> QED BY <1>2, <1>3

LEMMA SameCell ==
  ASSUME NEW a \in Nat, NEW b \in Nat, a \div CELLS = b \div CELLS, a % CELLS = b % CELLS
  PROVE  a = b
<1>1. a = CELLS * (a \div CELLS) + (a % CELLS) /\ b = CELLS * (b \div CELLS) + (b % CELLS)
  BY DivMod
<1> QED BY <1>1

\* The pages of a segment: an interval that its cells are in.
LEMMA SegmentPages ==
  ASSUME NEW s \in Segments, s.memsz > 0
  PROVE  /\ PagesOf(s) \subseteq Nat
         /\ Min(PagesOf(s)) \in PagesOf(s) /\ \A n \in PagesOf(s) : Min(PagesOf(s)) <= n
         /\ \A a \in Cells(s) : a \in Nat /\ a \div CELLS \in PagesOf(s)
         /\ \A n \in PagesOf(s), k \in Nat : n <= k /\ k \notin PagesOf(s) => \A m \in PagesOf(s) : m < k
<1> DEFINE lo == s.vaddr \div CELLS
           e == s.vaddr + s.memsz + CELLS - 1
           hi == e \div CELLS
<1>1. s.vaddr \in Nat /\ s.memsz \in Nat /\ CELLS \in Nat \ {0} /\ e \in Nat
  BY VmmAssumption DEF Segments
<1>2. lo \in Nat /\ hi \in Nat
  BY <1>1, DivMod
<1>3. PagesOf(s) = lo .. hi - 1
  BY DEF PagesOf
<1>4. ASSUME NEW a \in Cells(s) PROVE a \in Nat /\ a \div CELLS \in lo .. hi - 1
  <2>1. a \in Nat /\ s.vaddr <= a /\ a + CELLS <= e /\ a + CELLS \in Nat
    BY <1>1 DEF Cells
  <2>2. s.vaddr \div CELLS <= a \div CELLS
    BY <1>1, <2>1, DivMonotone
  <2>3. (a + CELLS) \div CELLS <= e \div CELLS
    BY <1>1, <2>1, DivMonotone
  <2>4. (a + CELLS) \div CELLS = (a \div CELLS) + 1
    BY <2>1, DivMonotone
  <2>5. a \div CELLS \in Nat
    BY <2>1, DivMod
  <2> QED BY <1>2, <2>1, <2>2, <2>3, <2>4, <2>5
<1>5. s.vaddr \in Cells(s)
  BY <1>1 DEF Cells
<1> HIDE DEF lo, hi, e
<1>6. PagesOf(s) \subseteq Nat /\ PagesOf(s) /= {}
  BY <1>2, <1>3, <1>4, <1>5
<1>7. Min(PagesOf(s)) \in PagesOf(s) /\ \A n \in PagesOf(s) : Min(PagesOf(s)) <= n
  <2>1. \E x \in PagesOf(s) : \A y \in PagesOf(s) : x <= y
    BY <1>6, LeastExists
  <2> QED BY <2>1 DEF Min
<1>8. ASSUME NEW n \in PagesOf(s), NEW k \in Nat, n <= k, k \notin PagesOf(s), NEW m \in PagesOf(s)
      PROVE  m < k
  BY <1>2, <1>3, <1>8
<1> QED BY <1>3, <1>4, <1>6, <1>7, <1>8

\* The words of a page.
LEMMA Products ==
  ASSUME NEW x \in Nat, NEW y \in Nat, x < y
  PROVE  CELLS * x \in Nat /\ CELLS * x + CELLS <= CELLS * y
<1>1. CELLS \in Nat \ {0}
  BY VmmAssumption
<1>2. PICK d \in Nat : y = x + 1 + d
  <2> WITNESS y - (x + 1) \in Nat
  <2> QED OBVIOUS
<1>3. CELLS * y = CELLS * x + CELLS + CELLS * d /\ CELLS * d \in Nat /\ CELLS * x \in Nat
  BY <1>1, <1>2
<1> QED BY <1>1, <1>3

LEMMA WordOfPage ==
  ASSUME NEW n \in Nat, NEW c \in Indices
  PROVE  n * CELLS + c \in Nat /\ (n * CELLS + c) \div CELLS = n /\ (n * CELLS + c) % CELLS = c
<1>1. CELLS \in Nat \ {0} /\ c \in Nat /\ c < CELLS
  BY VmmAssumption DEF Indices
<1>2. PICK a \in Nat : a = n * CELLS + c /\ a = CELLS * n + c
  BY <1>1
<1>3. a \div CELLS \in Nat /\ a % CELLS \in 0 .. CELLS - 1 /\ a = CELLS * (a \div CELLS) + (a % CELLS)
  BY DivMod
<1>4. PICK x \in Nat, y \in Nat : x = a \div CELLS /\ y = a % CELLS /\ y < CELLS
  BY <1>1, <1>3
<1>5. CELLS * n + c = CELLS * x + y /\ CELLS * n \in Nat /\ CELLS * x \in Nat
  BY <1>1, <1>2, <1>3, <1>4
<1>6. ~(x < n)
  <2>1. x < n => CELLS * x + CELLS <= CELLS * n
    BY Products
  <2> QED BY <1>1, <1>4, <1>5, <2>1
<1>7. ~(n < x)
  <2>1. n < x => CELLS * n + CELLS <= CELLS * x
    BY Products
  <2> QED BY <1>1, <1>5, <2>1
<1>8. x = n
  BY <1>6, <1>7
<1>9. y = c
  BY <1>1, <1>5, <1>8
<1> QED BY <1>2, <1>4, <1>8, <1>9

\* The files, their segments and pages.
LEMMA FileFacts ==
  ASSUME NEW f \in Files
  PROVE  /\ f.segs \in Seq(Segments) /\ f.size \in Nat
         /\ \A i \in 1 .. Len(f.segs) :
              /\ f.segs[i] \in Segments /\ f.segs[i].memsz > 0 /\ f.segs[i].filesz <= f.segs[i].memsz
              /\ PagesOf(f.segs[i]) \subseteq AllPages(f)
              /\ \A a \in Cells(f.segs[i]) : a \in Nat /\ a \div CELLS \in AllPages(f)
              /\ \A j \in 1 .. Len(f.segs) : j /= i => Cells(f.segs[i]) \cap Cells(f.segs[j]) = {}
         /\ \A v \in AllPages(f) : v \in VPages /\ Low(v) /\ v \in Place(f) /\ Block(v) \in Place(f)
         /\ Place(f) \subseteq RAM
<1>1. f \in FileType
  BY LoaderAssumption
<1>2. f.segs \in Seq(Segments) /\ f.size \in Nat
  BY <1>1 DEF FileType
<1>3. DOMAIN f.segs = 1 .. Len(f.segs) /\ Len(f.segs) \in Nat /\ \A i \in 1 .. Len(f.segs) : f.segs[i] \in Segments
  BY <1>2
<1>4. \A v \in AllPages(f) : v \in VPages /\ Low(v) /\ v \in Place(f) /\ Block(v) \in Place(f)
  BY LoaderAssumption DEF Place
<1>5. \A i \in DOMAIN f.segs :
        /\ f.segs[i].filesz <= f.segs[i].memsz /\ f.segs[i].memsz > 0
        /\ \A j \in 1 .. i - 1 : Cells(f.segs[i]) \cap Cells(f.segs[j]) = {}
  BY LoaderAssumption
<1>6. \A i, j \in 1 .. Len(f.segs) : j /= i => j \in 1 .. i - 1 \/ i \in 1 .. j - 1
  BY <1>3
<1>7. \A i, j \in 1 .. Len(f.segs) : j /= i => Cells(f.segs[i]) \cap Cells(f.segs[j]) = {}
  BY <1>3, <1>5, <1>6
<1>8. \A i \in 1 .. Len(f.segs) : PagesOf(f.segs[i]) \subseteq AllPages(f)
  BY <1>3 DEF AllPages
<1>9. \A i \in 1 .. Len(f.segs) : \A a \in Cells(f.segs[i]) : a \in Nat /\ a \div CELLS \in AllPages(f)
  BY <1>3, <1>5, <1>8, SegmentPages
<1>10. Place(f) \subseteq RAM
  BY <1>4, LowFacts DEF Place
<1> QED BY <1>2, <1>3, <1>4, <1>5, <1>7, <1>8, <1>9, <1>10

LEMMA NoFileFacts == Place(NoFile) = {} /\ NoFile.segs = <<>>
BY DEF Place, NoFile, AllPages

LEMMA StackFacts ==
  /\ \A n \in STACK : n \in Nat /\ n \in VPages /\ Own(n) /\ Tuple[n] \in Ways
  /\ Min(STACK) \in STACK /\ \A n \in STACK : Min(STACK) <= n
  /\ \A x \in Nat : x \notin STACK /\ x - 1 \in STACK => \A n \in STACK : n < x
<1>1. \A n \in STACK : n \in VPages /\ Own(n)
  BY LoaderAssumption
<1>2. PICK a \in VPages, b \in VPages : a <= b /\ STACK = a .. b
  BY LoaderAssumption
<1>3. a \in Nat /\ b \in Nat /\ a <= b /\ STACK = a .. b
  BY <1>2, Levels
<1>4. Min(STACK) \in STACK /\ \A n \in STACK : Min(STACK) <= n
  <2>1. \E x \in STACK : \A y \in STACK : x <= y
    BY <1>3
  <2> QED BY <2>1 DEF Min
<1>5. \A x \in Nat : x \notin STACK /\ x - 1 \in STACK => \A n \in STACK : n < x
  BY <1>3
<1>6. \A n \in STACK : n \in Nat /\ Tuple[n] \in Ways
  BY <1>1, Levels DEF Ways, OwnPages
<1> QED BY <1>1, <1>4, <1>5, <1>6

-----------------------------------------------------------------------------
(* The loader.  While no page of the running program has been handed out, no *)
(* page that has been given out lies in its place, the entries of what the   *)
(* loader mapped lead to pages given out, each to its own, or to page 0 when *)
(* memory has run out.                                                       *)

GoodPage(T, F, q) == (q = 0 /\ F = {}) \/ (q \in Given \ F /\ q \notin TablesOf(T))
Frames(T, F) ==
  \A v \in Ways : LeafOf(T, v) /= Zero =>
    /\ GoodPage(T, F, LeafOf(T, v).to)
    /\ \A w \in Ways : LeafOf(T, w) = LeafOf(T, v) /\ LeafOf(T, v).to /= 0 => w = v
Fresh(T, F, q) == GoodPage(T, F, q) /\ (q /= 0 => \A v \in Ways : LeafOf(T, v) /= Entry(q))
MappedBelow(T, n) == \A k \in STACK : k < n => LeafOf(T, Tuple[k]) /= Zero

Control ==
  /\ stage \in {"shell", "page", "looked", "map", "stack", "mapstack", "entry", "user", "halted"}
  /\ file \in Files \cup {NoFile} /\ Place(file) \cap Held = {}
  /\ stage \in {"page", "looked", "map"} => file \in Files /\ seg \in 1 .. Len(file.segs) /\ page \in Nat
  /\ stage \in {"looked", "map"} => page \in PagesOf(Segment)
  /\ stage = "map" => frame \in RAM
  /\ pc = "get" => stage = "looked" /\ virt = page
  /\ pc = "map" => \/ stage = "page" /\ Low(virt) /\ virt \in PagesOf(Segment)
                   \/ stage = "stack" /\ Own(virt) /\ virt \in STACK /\ new = frame /\ page = virt + 1
  /\ stage \in {"stack", "mapstack"} => page \in Nat /\ (page = Min(STACK) \/ page - 1 \in STACK)
  /\ stage = "mapstack" => page \in STACK

StackInv ==
  /\ Frames(memory, free)
  /\ stage = "mapstack" => Fresh(memory, free, frame) /\ MappedBelow(memory, page)
  /\ stage = "stack" /\ pc = "idle" => MappedBelow(memory, page)
  /\ stage = "stack" /\ pc = "map" => Fresh(memory, free, frame) /\ MappedBelow(memory, virt)
  /\ stage = "entry" => \A k \in STACK : LeafOf(memory, Tuple[k]) /= Zero

IInv == VmmInv /\ (stage /= "overlap" => Control /\ StackInv)

\* Steps that leave what the loader mapped as it is.
Calm ==
  /\ free' \subseteq free /\ TablesOf(memory') \cap Held \subseteq TablesOf(memory)
  /\ \A v \in Ways : LeafOf(memory', v) = LeafOf(memory, v)

LEMMA GoodKept ==
  ASSUME VmmInv, Calm, NEW q, GoodPage(memory, free, q)
  PROVE  GoodPage(memory', free', q)
<1>1. free' \subseteq free /\ TablesOf(memory') \cap Held \subseteq TablesOf(memory)
  BY DEF Calm
<1>2. CASE q = 0 /\ free = {}
  BY <1>1, <1>2 DEF GoodPage
<1>3. CASE q \in Given \ free /\ q \notin TablesOf(memory)
  BY <1>1, <1>3 DEF GoodPage, Held
<1> QED BY <1>2, <1>3 DEF GoodPage

LEMMA CalmFacts ==
  ASSUME VmmInv, Calm
  PROVE  /\ Frames(memory, free) => Frames(memory', free')
         /\ \A q : Fresh(memory, free, q) => Fresh(memory', free', q)
         /\ \A n : MappedBelow(memory, n) => MappedBelow(memory', n)
         /\ (\A k \in STACK : LeafOf(memory, Tuple[k]) /= Zero) => \A k \in STACK : LeafOf(memory', Tuple[k]) /= Zero
<1>1. \A v \in Ways : LeafOf(memory', v) = LeafOf(memory, v)
  BY DEF Calm
<1>2. \A q : GoodPage(memory, free, q) => GoodPage(memory', free', q)
  BY GoodKept
<1>3. \A k \in STACK : Tuple[k] \in Ways
  BY StackFacts
<1>4. Frames(memory, free) => Frames(memory', free')
  BY <1>1, <1>2 DEF Frames
<1>5. \A q : Fresh(memory, free, q) => Fresh(memory', free', q)
  BY <1>1, <1>2 DEF Fresh
<1>6. \A k \in STACK : LeafOf(memory', Tuple[k]) = LeafOf(memory, Tuple[k])
  BY <1>1, <1>3
<1>7. \A n : MappedBelow(memory, n) => MappedBelow(memory', n)
  BY <1>6 DEF MappedBelow
<1> QED BY <1>4, <1>5, <1>6, <1>7

LEMMA SameMemory ==
  ASSUME memory' = memory, free' \subseteq free
  PROVE  Calm
BY DEF Calm

\* A page is taken: it becomes one that is given out, and no more.
LEMMA TakeStep ==
  ASSUME VmmInv, NEW p, Take(p), memory' = memory, pc = "idle", pc' = pc, virt' = virt
  PROVE  VmmInv' /\ Calm
<1>1. p \in RAM \ {0} /\ Held' = Held \cup {p} /\ free' = free \ {p} /\ free' \subseteq Given
  BY TakeFacts
<1>2. Private(memory, Held) /\ BootKept(memory) /\ Holding(memory)
  BY DEF VmmInv, Private
<1>3. Private(memory, Held \cup {p})
  <2>1. Held \subseteq Held \cup {p} /\ Held \cup {p} \subseteq RAM \ {0}
    BY <1>1, <1>2 DEF Private
  <2> QED BY <1>2, <2>1, SameTables
<1>4. VmmInv'
  BY <1>1, <1>2, <1>3, IdleStep
<1> QED BY <1>1, <1>4, SameMemory

LEMMA TakenIsFresh ==
  ASSUME VmmInv, Frames(memory, free), NEW p, p \in free, free' = free \ {p}, memory' = memory
  PROVE  Fresh(memory', free', p)
<1>1. p \in Given /\ p \notin Held /\ p \notin free' /\ p /= 0 /\ Private(memory, Held)
  BY PagesFacts DEF VmmInv, Held
<1>2. p \notin TablesOf(memory)
  BY <1>1, TablesAreHeld
<1>3. ASSUME NEW v \in Ways, LeafOf(memory, v) = Entry(p) PROVE FALSE
  <2>1. LeafOf(memory, v) /= Zero /\ LeafOf(memory, v).to = p
    BY <1>3, WordFacts DEF Entry
  <2>2. GoodPage(memory, free, p)
    BY <2>1 DEF Frames
  <2> QED BY <1>1, <2>2 DEF GoodPage
<1> QED BY <1>1, <1>2, <1>3 DEF Fresh, GoodPage

\* Values are written outside the tables.
LEMMA FillStep ==
  ASSUME VmmInv, NEW values, Fill(values), pc = "idle", pc' = pc, virt' = virt, free' = free,
         \A a \in DOMAIN values : Physical(a \div CELLS) \notin TablesOf(memory) \cup DOMAIN BootTables
  PROVE  /\ VmmInv' /\ Calm
         /\ \A q \in Dom : (\A a \in DOMAIN values : Physical(a \div CELLS) /= q) => memory'[q] = memory[q]
<1>1. Private(memory, Held) /\ BootKept(memory) /\ Holding(memory) /\ Held \subseteq RAM \ {0}
  BY DEF VmmInv, Private
<1>2. DOMAIN memory = Dom
  BY <1>1 DEF Holding
<1> DEFINE word(p, c) ==
      LET here == {a \in DOMAIN values : Physical(a \div CELLS) = p /\ a % CELLS = c} IN
      IF here = {} THEN memory[p][c] ELSE values[CHOOSE a \in here : TRUE]
<1>3. memory' = [p \in Dom |-> [c \in Indices |-> word(p, c)]]
  BY <1>2 DEF Fill
<1>4. ASSUME NEW q \in Dom, \A a \in DOMAIN values : Physical(a \div CELLS) /= q
      PROVE  \A c \in Indices : word(q, c) = memory[q][c]
  BY <1>4
<1> HIDE DEF word
<1>5. ASSUME NEW q \in Dom, \A a \in DOMAIN values : Physical(a \div CELLS) /= q
      PROVE  memory'[q] = memory[q]
  <2>1. memory'[q] = [c \in Indices |-> word(q, c)]
    BY <1>3
  <2>2. memory[q] = [c \in Indices |-> memory[q][c]]
    BY <1>1 DEF Holding
  <2> QED BY <1>4, <1>5, <2>1, <2>2
<1>6. Holding(memory')
  BY <1>3 DEF Holding
<1>7. TablesOf(memory) \cup {Root} \subseteq Dom /\ Root \in DOMAIN BootTables
  BY <1>1, TablesAreHeld, PagesFacts DEF Dom
<1>8. \A q \in TablesOf(memory) \cup {Root} : memory'[q] = memory[q]
  BY <1>5, <1>7
<1>9. /\ Private(memory', Held) /\ TablesOf(memory') = TablesOf(memory)
      /\ \A v \in Ways : LeafOf(memory', v) = LeafOf(memory, v)
  BY <1>1, <1>6, <1>8, SameTables
<1>10. BootKept(memory')
  <2>1. \A q \in DOMAIN BootTables : memory'[q] = memory[q]
    BY <1>5 DEF Dom
  <2> QED BY <1>1, <2>1 DEF BootKept
<1>11. VmmInv'
  <2>1. Held' = Held /\ free' \subseteq Given
    BY DEF Held, VmmInv
  <2> QED BY <1>9, <1>10, <2>1, IdleStep
<1>12. Calm
  BY <1>9 DEF Calm
<1> QED BY <1>5, <1>11, <1>12

LEMMA InitIInv == Init => IInv
<1> SUFFICES ASSUME Init PROVE IInv
  OBVIOUS
<1>1. PICK w \in {Zero, Junk} :
        memory = [p \in Dom |-> IF p \in RAM THEN [i \in Indices |-> w] ELSE BootTables[p]]
  BY DEF Init, VmmInit, Dom
<1>2. free = Given /\ pc = "idle" /\ virt = 0 /\ Held = {} /\ file = NoFile /\ stage = "shell"
  BY DEF Init, VmmInit, Held
<1>3. Holding(memory)
  <2>1. memory = [p \in Dom |-> memory[p]]
    BY <1>1
  <2>2. ASSUME NEW p \in Dom PROVE memory[p] = [i \in Indices |-> memory[p][i]]
    <3>1. CASE p \in RAM
      BY <1>1, <3>1
    <3>2. CASE p \notin RAM
      <4>1. p \in DOMAIN BootTables /\ memory[p] = BootTables[p]
        BY <1>1, <3>2 DEF Dom
      <4>2. BootTables[p] = [i \in Indices |-> BootTables[p][i]]
        BY <4>1, BootPages
      <4> QED BY <4>1, <4>2
    <3> QED BY <3>1, <3>2
  <2> QED BY <2>1, <2>2 DEF Holding
<1>4. \A p \in DOMAIN BootTables : memory[p] = BootTables[p]
  BY <1>1, PagesFacts DEF Dom
<1>5. \A v \in Ways : BootTables[Root][v[1]] = Zero
  BY DEF Ways, OwnPages, Own
<1>6. \A v \in Ways : Path(memory, v)[1] = Root /\ memory[Root][v[1]] = Zero
  BY <1>4, <1>5, PagesFacts, PathDef
<1>7. ASSUME NEW v \in Ways, NEW n \in 1 .. LEVELS, n > 1 PROVE Path(memory, v)[n] = 0
  <2>1. 1 \in 1 .. LEVELS /\ 1 < LEVELS /\ 1 + 1 = 2 /\ 2 \in 1 .. LEVELS /\ n \in 2 .. LEVELS
    BY <1>7, Levels
  <2>2. Path(memory, v)[1 + 1] = Target(memory, Root, v[1])
    BY <1>6, <2>1, PathDef
  <2>3. Path(memory, v)[2] = 0
    BY <1>6, <2>1, <2>2, WordFacts DEF Target
  <2> QED BY <2>1, <2>3, PathEnds
<1>8. Known(memory, Held)
  BY <1>7 DEF Known
<1>9. LeadsOn(memory)
  <2> SUFFICES ASSUME NEW v \in Ways, NEW n \in 1 .. LEVELS, Path(memory, v)[n] /= 0
               PROVE  memory[Path(memory, v)[n]][v[n]] = Zero
    BY WordFacts DEF LeadsOn, ZeroOrEntry
  <2>1. n = 1
    BY <1>7, Levels
  <2> QED BY <1>6, <2>1
<1>10. Apart(memory)
  <2> SUFFICES ASSUME NEW v \in Ways, NEW u \in Ways, NEW n \in 1 .. LEVELS, NEW m \in 1 .. LEVELS,
                      Path(memory, v)[n] = Path(memory, u)[m], Path(memory, v)[n] /= 0
               PROVE  n = m /\ Agree(v, u, n - 1)
    BY DEF Apart
  <2>1. n = 1 /\ m = 1
    BY <1>7, Levels
  <2> QED BY <2>1 DEF Agree
<1>11. Private(memory, Held)
  BY <1>2, <1>3, <1>8, <1>9, <1>10 DEF Private
<1>12. BootKept(memory)
  BY <1>4 DEF BootKept
<1>13. VmmInv
  BY <1>2, <1>11, <1>12, VmmAssumption DEF VmmInv
<1>14. Frames(memory, free)
  <2>1. \A v \in Ways : LeafOf(memory, v) = Zero
    BY <1>7, Levels DEF LeafOf
  <2> QED BY <2>1 DEF Frames
<1>15. Control /\ StackInv
  BY <1>2, <1>14, NoFileFacts DEF Control, StackInv
<1> QED BY <1>13, <1>15 DEF IInv

-----------------------------------------------------------------------------
(* The steps of the loader.                                                 *)

LEMMA GotoFacts ==
  ASSUME NEW s, Goto(s), stage' /= "overlap", Place(file) \cap Held = {}
  PROVE  stage' = s /\ file' = file /\ seg' = seg /\ Place(file') \cap Held' = {} /\ Place(file) \cap (free \ free') = {}
<1>1. file' = file /\ seg' = seg /\ stage' = s /\ Place(file) \cap (free \ free') = {}
  BY DEF Goto, Proceed
<1>2. Place(file) \cap (Given \ free') = {}
  BY <1>1 DEF Held
<1> QED BY <1>1, <1>2 DEF Held

LEMMA SegmentNext == ASSUME file' = file, seg' = seg PROVE Segment' = Segment
BY DEF Segment

LEMMA CallOfShell ==
  ASSUME IInv, NEW f \in Files, loader_exec_buffer(f)
  PROVE  IInv'
<1>1. stage = "shell" /\ pc = "idle" /\ UNCHANGED <<vmmvars, frame>>
  BY DEF loader_exec_buffer, At
<1>2. VmmInv' /\ Held' = Held /\ pc' = pc /\ memory' = memory /\ free' = free
  BY <1>1 DEF IInv, VmmInv, vmmvars, Held
<1>3. Control /\ StackInv
  BY <1>1 DEF IInv
<1>4. ASSUME stage' /= "overlap" PROVE Control' /\ StackInv'
  <2>1. CASE f.size < HEADER
    <3>1. UNCHANGED <<file, stage, seg, page>>
      BY <2>1 DEF loader_exec_buffer
    <3> QED BY <1>1, <1>2, <1>3, <3>1 DEF Control, StackInv, MappedBelow
  <2>2. CASE ~(f.size < HEADER)
    <3>1. ToSegment(f, 1) /\ Place(f) \cap Held = {}
      BY <1>4, <2>2 DEF loader_exec_buffer
    <3>2. file' = f /\ seg' = 1 /\ Place(file') \cap Held' = {}
      BY <1>2, <3>1 DEF ToSegment
    <3>3. f.segs \in Seq(Segments) /\ Len(f.segs) \in Nat
      BY FileFacts
    <3>4. CASE 1 <= Len(f.segs)
      <4>1. stage' = "page" /\ page' = Min(PagesOf(f.segs[1]))
        BY <3>1, <3>4 DEF ToSegment
      <4>2. 1 \in 1 .. Len(f.segs) /\ f.segs[1] \in Segments /\ f.segs[1].memsz > 0
        BY <3>3, <3>4, FileFacts
      <4>3. page' \in Nat
        BY <4>1, <4>2, SegmentPages
      <4> QED BY <1>1, <1>2, <1>3, <3>2, <4>1, <4>2, <4>3 DEF Control, StackInv
    <3>5. CASE ~(1 <= Len(f.segs))
      <4>1. stage' = "stack" /\ page' = Min(STACK)
        BY <3>1, <3>5 DEF ToSegment
      <4>2. page' \in Nat /\ MappedBelow(memory, page')
        BY <4>1, StackFacts DEF MappedBelow
      <4> QED BY <1>1, <1>2, <1>3, <3>2, <4>1, <4>2 DEF Control, StackInv
    <3> QED BY <3>4, <3>5
  <2> QED BY <2>1, <2>2
<1> QED BY <1>2, <1>4 DEF IInv

\* What every step of Load starts from.
LEMMA LoadStart ==
  ASSUME IInv, NEW s, At(s), s /= "overlap"
  PROVE  stage = s /\ pc = "idle" /\ VmmInv /\ Control /\ StackInv /\ Place(file) \cap Held = {}
BY DEF IInv, At, Control

LEMMA SegmentPage ==
  ASSUME Control, stage \in {"page", "looked", "map"}
  PROVE  /\ Segment \in Segments /\ PagesOf(Segment) \subseteq AllPages(file)
         /\ \A v \in PagesOf(Segment) : v \in Nat /\ v \in VPages /\ Low(v) /\ v \in Place(file) /\ Block(v) \in Place(file)
         /\ file \in Files /\ seg \in 1 .. Len(file.segs)
<1>1. file \in Files /\ seg \in 1 .. Len(file.segs) /\ Segment = file.segs[seg]
  BY DEF Control, Segment
<1>2. Segment \in Segments /\ PagesOf(Segment) \subseteq AllPages(file)
  BY <1>1, FileFacts
<1>3. \A v \in AllPages(file) : v \in VPages /\ v \in Nat /\ Low(v) /\ v \in Place(file) /\ Block(v) \in Place(file)
  BY <1>1, FileFacts, Levels
<1> QED BY <1>1, <1>2, <1>3

LEMMA LookUpStep == ASSUME IInv, LookUp PROVE IInv'
<1>1. stage = "page" /\ pc = "idle" /\ VmmInv /\ Control /\ StackInv /\ Place(file) \cap Held = {}
  BY LoadStart DEF LookUp
<1>2. page \in PagesOf(Segment) /\ vmm_get_phys(page) /\ UNCHANGED <<page, frame>> /\ Goto("looked")
  BY DEF LookUp
<1>3. page \in VPages /\ Low(page)
  BY <1>1, <1>2, SegmentPage
<1>4. memory' = memory /\ free' = free
  BY <1>2 DEF vmm_get_phys
<1>5. VmmInv' /\ (pc' = "idle" \/ (pc' = "get" /\ virt' = page))
  <2>1. CASE known
    <3>1. Call("get", page, 0)
      BY <1>2, <2>1 DEF vmm_get_phys
    <3>2. VmmInv'
      BY <1>1, <1>3, <1>4, <3>1, CallStep
    <3> QED BY <3>1, <3>2 DEF Call
  <2>2. CASE ~known
    <3>1. pc' = pc /\ virt' = virt
      BY <1>2, <2>2 DEF vmm_get_phys
    <3>2. Held' = Held /\ free' \subseteq Given /\ Private(memory', Held') /\ BootKept(memory')
      BY <1>1, <1>4 DEF VmmInv, Held
    <3>3. VmmInv'
      BY <1>1, <3>1, <3>2, IdleStep
    <3> QED BY <1>1, <3>1, <3>3
  <2> QED BY <2>1, <2>2
<1>6. ASSUME stage' /= "overlap" PROVE Control' /\ StackInv'
  <2>1. stage' = "looked" /\ file' = file /\ seg' = seg /\ Place(file') \cap Held' = {}
    BY <1>1, <1>2, <1>6, GotoFacts
  <2>2. Segment' = Segment /\ page' = page /\ frame' = frame
    BY <1>2, <2>1, SegmentNext
  <2> QED BY <1>1, <1>2, <1>4, <1>5, <2>1, <2>2 DEF Control, StackInv
<1> QED BY <1>5, <1>6 DEF IInv

LEMMA KeepPageStep == ASSUME IInv, KeepPage PROVE IInv'
<1>1. stage = "looked" /\ pc = "idle" /\ VmmInv /\ Control /\ StackInv /\ Place(file) \cap Held = {}
  BY LoadStart DEF KeepPage
<1>2. page' = page + 1 /\ UNCHANGED <<vmmvars, frame>> /\ Goto("page")
  BY DEF KeepPage
<1>3. VmmInv' /\ memory' = memory /\ free' = free /\ pc' = pc /\ page \in Nat
  BY <1>1, <1>2 DEF VmmInv, vmmvars, Held, Control
<1>4. ASSUME stage' /= "overlap" PROVE Control' /\ StackInv'
  <2>1. stage' = "page" /\ file' = file /\ seg' = seg /\ Place(file') \cap Held' = {}
    BY <1>1, <1>2, <1>4, GotoFacts
  <2> QED BY <1>1, <1>2, <1>3, <2>1 DEF Control, StackInv
<1> QED BY <1>3, <1>4 DEF IInv

\* A page that is taken and cleared is no table, and nothing leads to it.
LEMMA AllocPageMemory ==
  ASSUME VmmInv, NEW p, Take(p), pc = "idle", pc' = pc, virt' = virt,
         memory' = WithPage(memory, p, Zeros)
  PROVE  VmmInv' /\ Calm /\ p \in RAM \ {0} /\ \A q : q /= p => memory'[q] = memory[q]
<1>1. p \in RAM \ {0} /\ p \notin Held /\ Held' = Held \cup {p} /\ free' = free \ {p} /\ free' \subseteq Given
  BY TakeFacts
<1>2. Private(memory, Held) /\ BootKept(memory) /\ Holding(memory) /\ Held \cup {p} \subseteq RAM \ {0}
  BY <1>1 DEF VmmInv, Private
<1>3. memory' = WithPage(memory, p, Zeros) /\ Zeros = [i \in Indices |-> Zeros[i]]
  BY DEF Zeros
<1>4. Holding(memory') /\ \A q : q /= p => memory'[q] = memory[q]
  <2>1. p \in Dom
    BY <1>1 DEF Dom
  <2>2. PICK g : g = Zeros
    OBVIOUS
  <2>3. /\ Holding(WithPage(memory, p, g))
        /\ \A q : q /= p => WithPage(memory, p, g)[q] = memory[q]
    <3>1. g = [i \in Indices |-> g[i]] /\ Holding(memory)
      BY <1>2, <1>3, <2>2
    <3> QED BY <2>1, <3>1, HoldingPage
  <2> QED BY <1>3, <2>2, <2>3
<1>5. \A q \in TablesOf(memory) \cup {Root} : memory'[q] = memory[q]
  BY <1>1, <1>2, <1>4, TablesAreHeld, PagesFacts
<1>6. /\ Private(memory', Held \cup {p}) /\ TablesOf(memory') = TablesOf(memory)
      /\ \A v \in Ways : LeafOf(memory', v) = LeafOf(memory, v)
  <2>1. PICK G : G = Held \cup {p}
    OBVIOUS
  <2>2. Held \subseteq G /\ G \subseteq RAM \ {0}
    BY <1>2, <2>1
  <2>3. /\ Private(memory', G) /\ TablesOf(memory') = TablesOf(memory)
        /\ \A v \in Ways : LeafOf(memory', v) = LeafOf(memory, v)
    <3>1. Private(memory, Held) /\ Holding(memory')
      BY <1>2, <1>4
    <3> QED BY <1>5, <2>2, <3>1, SameTables
  <2> QED BY <2>1, <2>3
<1>7. BootKept(memory')
  BY <1>1, <1>2, <1>4, PagesFacts DEF BootKept
<1>8. VmmInv'
  BY <1>1, <1>6, <1>7, IdleStep
<1>9. Calm
  BY <1>1, <1>6 DEF Calm
<1> QED BY <1>1, <1>4, <1>8, <1>9

LEMMA AllocPageStep == ASSUME IInv, AllocPage PROVE IInv' /\ Calm
<1>1. stage = "looked" /\ pc = "idle" /\ VmmInv /\ Control /\ StackInv /\ Place(file) \cap Held = {}
  BY LoadStart DEF AllocPage
<1>2. PICK p \in free : Take(p) /\ frame' = p /\ memory' = WithPage(memory, p, Zeros)
  BY DEF AllocPage, WithPage, Zeros
<1>3. pc' = pc /\ virt' = virt /\ page' = page /\ Goto("map")
  BY DEF AllocPage
<1>4. VmmInv' /\ Calm /\ p \in RAM
  BY <1>1, <1>2, <1>3, AllocPageMemory
<1>5. ASSUME stage' /= "overlap" PROVE Control' /\ StackInv'
  <2>1. stage' = "map" /\ file' = file /\ seg' = seg /\ Place(file') \cap Held' = {}
    BY <1>1, <1>3, <1>5, GotoFacts
  <2>2. Segment' = Segment
    BY <2>1, SegmentNext
  <2>3. Frames(memory', free')
    BY <1>1, <1>4, CalmFacts DEF StackInv
  <2> QED BY <1>1, <1>2, <1>3, <1>4, <2>1, <2>2, <2>3 DEF Control, StackInv
<1> QED BY <1>4, <1>5 DEF IInv

LEMMA AllocNullStep == ASSUME IInv, AllocNull PROVE IInv'
<1>1. stage = "looked" /\ pc = "idle" /\ VmmInv /\ Control /\ StackInv /\ Place(file) \cap Held = {}
  BY LoadStart DEF AllocNull
<1>2. UNCHANGED <<vmmvars, page, frame>> /\ Goto("halted")
  BY DEF AllocNull
<1>3. VmmInv' /\ memory' = memory /\ free' = free /\ pc' = pc
  BY <1>1, <1>2 DEF VmmInv, vmmvars, Held
<1>4. ASSUME stage' /= "overlap" PROVE Control' /\ StackInv'
  <2>1. stage' = "halted" /\ file' = file /\ seg' = seg /\ Place(file') \cap Held' = {}
    BY <1>1, <1>2, <1>4, GotoFacts
  <2> QED BY <1>1, <1>2, <1>3, <2>1 DEF Control, StackInv
<1> QED BY <1>3, <1>4 DEF IInv

LEMMA MapPageStep == ASSUME IInv, MapPage PROVE IInv'
<1>1. stage = "map" /\ pc = "idle" /\ VmmInv /\ Control /\ StackInv /\ Place(file) \cap Held = {}
  BY LoadStart DEF MapPage
<1>2. Call("map", page, frame) /\ memory' = memory /\ free' = free /\ page' = page + 1 /\ frame' = frame /\ Goto("page")
  BY DEF MapPage, vmm_map_page
<1>3. page \in VPages /\ Low(page) /\ page \in Nat /\ page \in PagesOf(Segment) /\ frame \in RAM
  BY <1>1, SegmentPage DEF Control
<1>4. VmmInv'
  BY <1>1, <1>2, <1>3, CallStep
<1>5. pc' = "map" /\ virt' = page
  BY <1>2 DEF Call
<1>6. ASSUME stage' /= "overlap" PROVE Control' /\ StackInv'
  <2>1. stage' = "page" /\ file' = file /\ seg' = seg /\ Place(file') \cap Held' = {}
    BY <1>1, <1>2, <1>6, GotoFacts
  <2>2. Segment' = Segment /\ Low(virt') /\ Low(virt)' = Low(virt')
    BY <1>3, <1>5, <2>1, SegmentNext
  <2> QED BY <1>1, <1>2, <1>3, <1>5, <2>1, <2>2 DEF Control, StackInv
<1> QED BY <1>4, <1>6 DEF IInv

LEMMA EnterStep == ASSUME IInv, Enter PROVE IInv'
<1>1. stage = "stack" /\ pc = "idle" /\ VmmInv /\ Control /\ StackInv /\ Place(file) \cap Held = {}
  BY LoadStart DEF Enter
<1>2. page \notin STACK /\ UNCHANGED <<vmmvars, page, frame>> /\ Goto("entry")
  BY DEF Enter
<1>3. VmmInv' /\ memory' = memory /\ free' = free /\ pc' = pc
  BY <1>1, <1>2 DEF VmmInv, vmmvars, Held
<1>4. \A k \in STACK : k < page
  <2>1. page \in Nat /\ page - 1 \in STACK
    BY <1>1, <1>2, StackFacts DEF Control
  <2> QED BY <1>2, <2>1, StackFacts
<1>5. \A k \in STACK : LeafOf(memory, Tuple[k]) /= Zero
  BY <1>1, <1>4 DEF StackInv, MappedBelow
<1>6. ASSUME stage' /= "overlap" PROVE Control' /\ StackInv'
  <2>1. stage' = "entry" /\ file' = file /\ seg' = seg /\ Place(file') \cap Held' = {}
    BY <1>1, <1>2, <1>6, GotoFacts
  <2> QED BY <1>1, <1>2, <1>3, <1>5, <2>1 DEF Control, StackInv
<1> QED BY <1>3, <1>6 DEF IInv

LEMMA LeaveStep == ASSUME IInv, stage /= "overlap", Leave PROVE IInv'
<1>1. pc = "idle" /\ VmmInv /\ Control /\ StackInv
  BY DEF IInv, Leave
<1>2. stage' = "shell" /\ file' = NoFile /\ UNCHANGED vmmvars
  BY DEF Leave
<1>3. VmmInv' /\ memory' = memory /\ free' = free /\ pc' = pc
  BY <1>1, <1>2 DEF VmmInv, vmmvars, Held
<1>4. Control' /\ StackInv'
  BY <1>1, <1>2, <1>3, NoFileFacts DEF Control, StackInv
<1> QED BY <1>3, <1>4 DEF IInv

LEMMA MapStackStep == ASSUME IInv, MapStack PROVE IInv'
<1>1. stage = "mapstack" /\ pc = "idle" /\ VmmInv /\ Control /\ StackInv /\ Place(file) \cap Held = {}
  BY LoadStart DEF MapStack
<1>2. Call("map", page, frame) /\ memory' = memory /\ free' = free /\ page' = page + 1 /\ frame' = frame /\ Goto("stack")
  BY DEF MapStack, vmm_map_page
<1>3. page \in STACK /\ page \in VPages /\ Own(page) /\ page \in Nat /\ Fresh(memory, free, frame) /\ MappedBelow(memory, page)
  BY <1>1, StackFacts DEF Control, StackInv
<1>4. frame \in RAM
  BY <1>3, PagesFacts DEF Fresh, GoodPage
<1>5. VmmInv'
  BY <1>1, <1>2, <1>3, <1>4, CallStep
<1>6. pc' = "map" /\ virt' = page /\ new' = frame
  BY <1>2 DEF Call
<1>7. ASSUME stage' /= "overlap" PROVE Control' /\ StackInv'
  <2>1. stage' = "stack" /\ file' = file /\ seg' = seg /\ Place(file') \cap Held' = {}
    BY <1>1, <1>2, <1>7, GotoFacts
  <2>2. Own(virt') /\ Own(virt)' = Own(virt')
    BY <1>3, <1>6
  <2>3. Control'
    BY <1>1, <1>2, <1>3, <1>6, <2>1, <2>2 DEF Control
  <2>4. StackInv'
    BY <1>1, <1>2, <1>3, <1>6, <2>1 DEF StackInv
  <2> QED BY <2>3, <2>4
<1> QED BY <1>5, <1>7 DEF IInv

LEMMA StackPageStep == ASSUME IInv, StackPage PROVE IInv'
<1>1. stage = "stack" /\ pc = "idle" /\ VmmInv /\ Control /\ StackInv /\ Place(file) \cap Held = {}
  BY LoadStart DEF StackPage
<1>2. page \in STACK /\ memory' = memory /\ pc' = pc /\ virt' = virt /\ page' = page /\ Goto("mapstack")
  BY DEF StackPage
<1>3. VmmInv' /\ Calm /\ Fresh(memory', free', frame')
  <2>1. CASE \E p \in free : Take(p) /\ frame' = p
    <3>1. PICK p \in free : Take(p) /\ frame' = p
      BY <2>1
    <3>2. VmmInv' /\ Calm
      BY <1>1, <1>2, <3>1, TakeStep
    <3>3. Fresh(memory', free', p)
      BY <1>1, <1>2, <3>1, TakenIsFresh DEF Take, StackInv
    <3> QED BY <3>1, <3>2, <3>3
  <2>2. CASE free = {} /\ frame' = 0 /\ UNCHANGED free
    <3>1. Held' = Held /\ free' \subseteq Given /\ Private(memory', Held') /\ BootKept(memory')
      BY <1>1, <1>2, <2>2 DEF VmmInv, Held
    <3>2. VmmInv'
      BY <1>1, <1>2, <3>1, IdleStep
    <3>3. Fresh(memory', free', frame')
      BY <2>2 DEF Fresh, GoodPage
    <3>4. Calm
      BY <1>2, <2>2, SameMemory
    <3> QED BY <3>2, <3>3, <3>4
  <2> QED BY <2>1, <2>2 DEF StackPage
<1>4. ASSUME stage' /= "overlap" PROVE Control' /\ StackInv'
  <2>1. stage' = "mapstack" /\ file' = file /\ seg' = seg /\ Place(file') \cap Held' = {}
    BY <1>1, <1>2, <1>4, GotoFacts
  <2>2. Frames(memory', free') /\ MappedBelow(memory', page)
    BY <1>1, <1>3, CalmFacts DEF StackInv
  <2>3. Control'
    BY <1>1, <1>2, <2>1 DEF Control
  <2>4. StackInv'
    BY <1>2, <1>3, <2>1, <2>2 DEF StackInv
  <2> QED BY <2>3, <2>4
<1> QED BY <1>3, <1>4 DEF IInv

\* What the loader and the program write lies in the program's own place, in
\* the stack, or in page 0.
LEMMA OwnWords ==
  ASSUME IInv, stage \in {"page", "looked", "map"}, NEW a \in Cells(Segment)
  PROVE  /\ a \in Nat /\ Physical(a \div CELLS) = a \div CELLS /\ a \div CELLS \in Place(file)
         /\ Physical(a \div CELLS) \notin TablesOf(memory) \cup DOMAIN BootTables
<1>1. VmmInv /\ Control
  BY DEF IInv
<1>2. file \in Files /\ seg \in 1 .. Len(file.segs) /\ Segment = file.segs[seg] /\ Place(file) \cap Held = {}
  BY <1>1 DEF Control, Segment
<1>3. a \in Nat /\ a \div CELLS \in AllPages(file)
  BY <1>2, FileFacts
<1>4. a \div CELLS \in VPages /\ Low(a \div CELLS) /\ a \div CELLS \in Place(file) /\ a \div CELLS \in RAM
  BY <1>2, <1>3, FileFacts
<1>5. Physical(a \div CELLS) = a \div CELLS
  BY <1>1, <1>4, LowWay, PhysicalIsIn DEF VmmInv
<1>6. a \div CELLS \notin TablesOf(memory)
  BY <1>1, <1>2, <1>4, TablesAreHeld DEF VmmInv
<1> QED BY <1>3, <1>4, <1>5, <1>6, PagesFacts

LEMMA CopySegmentStep == ASSUME IInv, CopySegment PROVE IInv' /\ Calm
<1>1. stage = "page" /\ pc = "idle" /\ VmmInv /\ Control /\ StackInv /\ Place(file) \cap Held = {}
  BY LoadStart DEF CopySegment
<1>2. ToSegment(file, seg + 1) /\ free' = free /\ pc' = pc /\ virt' = virt
  BY DEF CopySegment
<1>3. PICK values : Fill(values) /\ DOMAIN values = Written(Segment)
  BY DEF CopySegment
<1>4. file \in Files /\ seg \in 1 .. Len(file.segs) /\ Segment = file.segs[seg] /\ Segment \in Segments /\ Segment.filesz <= Segment.memsz
  BY <1>1, FileFacts DEF Control, Segment
<1>5. Written(Segment) \subseteq Cells(Segment)
  BY <1>4 DEF Written, Copied, Cleared, Cells, Segments
<1>6. \A a \in DOMAIN values : Physical(a \div CELLS) \notin TablesOf(memory) \cup DOMAIN BootTables
  BY <1>1, <1>3, <1>5, OwnWords
<1>7. VmmInv' /\ Calm
  BY <1>1, <1>2, <1>3, <1>6, FillStep
<1>8. file' = file /\ seg' = seg + 1 /\ Held' = Held /\ Place(file') \cap Held' = {}
  BY <1>1, <1>2 DEF ToSegment, Held
<1>9. Frames(memory', free')
  BY <1>1, <1>7, CalmFacts DEF StackInv
<1>10. file.segs \in Seq(Segments) /\ Len(file.segs) \in Nat
  BY <1>4, FileFacts
<1>11. CASE seg + 1 <= Len(file.segs)
  <2>1. stage' = "page" /\ page' = Min(PagesOf(file.segs[seg + 1]))
    BY <1>2, <1>11 DEF ToSegment
  <2>2. seg + 1 \in 1 .. Len(file.segs)
    BY <1>4, <1>10, <1>11
  <2>3. page' \in Nat
    <3>1. file.segs[seg + 1] \in Segments /\ file.segs[seg + 1].memsz > 0
      BY <1>4, <2>2, FileFacts
    <3> QED BY <2>1, <3>1, SegmentPages
  <2> QED BY <1>1, <1>2, <1>4, <1>7, <1>8, <1>9, <2>1, <2>2, <2>3 DEF IInv, Control, StackInv
<1>12. CASE ~(seg + 1 <= Len(file.segs))
  <2>1. stage' = "stack" /\ page' = Min(STACK)
    BY <1>2, <1>12 DEF ToSegment
  <2>2. page' \in Nat /\ MappedBelow(memory', page')
    BY <2>1, StackFacts DEF MappedBelow
  <2> QED BY <1>1, <1>2, <1>4, <1>7, <1>8, <1>9, <2>1, <2>2 DEF IInv, Control, StackInv
<1> QED BY <1>11, <1>12

\* Where a page of the stack is when the program is entered.
LEMMA StackPages ==
  ASSUME IInv, stage = "entry", NEW n \in STACK
  PROVE  /\ Physical(n) = 0 \/ Physical(n) \in Held
         /\ Physical(n) = 0 => free = {}
         /\ Physical(n) \notin TablesOf(memory) \cup DOMAIN BootTables
         /\ Physical(n) \notin Place(file) \/ Physical(n) = 0
         /\ Physical(n) /= 0 => \A m \in STACK : Physical(m) = Physical(n) => m = n
<1>1. VmmInv /\ Control /\ StackInv /\ Private(memory, Held)
  BY DEF IInv, VmmInv
<1>2. \A m \in STACK : m \in VPages /\ Own(m) /\ Tuple[m] \in Ways
  BY StackFacts
<1>3. \A m \in STACK : LeafOf(memory, Tuple[m]) /= Zero
  BY <1>1 DEF StackInv
<1>4. \A m \in STACK : /\ Physical(m) = LeafOf(memory, Tuple[m]).to
                       /\ LeafOf(memory, Tuple[m]) = Entry(Physical(m))
  <2> TAKE m \in STACK
  <2>1. ZeroOrEntry(LeafOf(memory, Tuple[m])) /\ PhysicalIn(memory, m) = LeafOf(memory, Tuple[m]).to
    BY <1>1, <1>2, <1>3, OwnWay
  <2> QED BY <1>3, <2>1, PhysicalIsIn DEF ZeroOrEntry
<1>5. GoodPage(memory, free, Physical(n)) /\ \A w \in Ways : LeafOf(memory, w) = LeafOf(memory, Tuple[n]) /\ Physical(n) /= 0 => w = Tuple[n]
  BY <1>1, <1>2, <1>3, <1>4 DEF StackInv, Frames
<1>6. \A m \in STACK : Tuple[m] = Tuple[n] => m = n
  BY <1>2, VmmAssumption
<1>7. Physical(n) /= 0 => \A m \in STACK : Physical(m) = Physical(n) => m = n
  BY <1>2, <1>4, <1>5, <1>6
<1>8. 0 \notin TablesOf(memory) \cup DOMAIN BootTables
  BY PagesFacts DEF TablesOf
<1>9. Physical(n) = 0 \/ (Physical(n) \in Held /\ Physical(n) \notin TablesOf(memory) /\ Physical(n) \in RAM)
  BY <1>5, PagesFacts DEF GoodPage, Held
<1>10. Physical(n) = 0 => free = {}
  BY <1>5, PagesFacts DEF GoodPage
<1>11. Place(file) \cap Held = {}
  BY <1>1 DEF Control
<1> QED BY <1>7, <1>8, <1>9, <1>10, <1>11, PagesFacts

LEMMA OwnCellsFacts ==
  ASSUME NEW a \in OwnCells
  PROVE  \/ \E i \in DOMAIN file.segs : a \in Cells(file.segs[i])
         \/ \E n \in STACK, c \in Indices : a = n * CELLS + c
<1> DEFINE P == UNION {Cells(file.segs[i]) : i \in DOMAIN file.segs}
           Q == {n * CELLS + c : n \in STACK, c \in Indices}
<1>1. OwnCells = P \cup Q
  BY DEF OwnCells
<1>2. a \in P => \E i \in DOMAIN file.segs : a \in Cells(file.segs[i])
  BY Zenon
<1>3. a \in Q => \E n \in STACK, c \in Indices : a = n * CELLS + c
  OBVIOUS
<1> HIDE DEF P, Q
<1> QED BY <1>1, <1>2, <1>3

\* What the program writes lies in its own place, in its stack, or in page 0.
LEMMA WordsOfProgram ==
  ASSUME IInv, stage = "entry", file \in Files, NEW a \in OwnCells
  PROVE  Physical(a \div CELLS) \notin TablesOf(memory) \cup DOMAIN BootTables
<1>1. VmmInv /\ Control /\ Place(file) \cap Held = {}
  BY DEF IInv, Control
<1>2. CASE \E i \in DOMAIN file.segs : a \in Cells(file.segs[i])
  <2>1. PICK i \in DOMAIN file.segs : a \in Cells(file.segs[i])
    BY <1>2
  <2>2. file.segs \in Seq(Segments)
    BY FileFacts
  <2>3. i \in 1 .. Len(file.segs)
    BY <2>1, <2>2
  <2>4. a \div CELLS \in AllPages(file)
    BY <2>1, <2>3, FileFacts
  <2>5. a \div CELLS \in VPages /\ Low(a \div CELLS) /\ a \div CELLS \in Place(file) /\ a \div CELLS \in RAM
    BY <2>4, FileFacts
  <2>6. Physical(a \div CELLS) = a \div CELLS
    BY <1>1, <2>5, LowWay, PhysicalIsIn DEF VmmInv
  <2>7. a \div CELLS \notin TablesOf(memory)
    BY <1>1, <2>5, TablesAreHeld DEF VmmInv
  <2> QED BY <2>5, <2>6, <2>7, PagesFacts
<1>3. CASE \E n \in STACK, c \in Indices : a = n * CELLS + c
  <2>1. PICK n \in STACK, c \in Indices : a = n * CELLS + c
    BY <1>3
  <2>2. a \div CELLS = n
    BY <2>1, StackFacts, WordOfPage
  <2> QED BY <2>2, StackPages
<1> QED BY <1>2, <1>3, OwnCellsFacts

LEMMA NoFileWords ==
  ASSUME IInv, stage = "entry", file = NoFile, NEW a \in OwnCells
  PROVE  Physical(a \div CELLS) \notin TablesOf(memory) \cup DOMAIN BootTables
<1>1. file.segs = <<>>
  BY NoFileFacts
<1>2. DOMAIN file.segs = {}
  BY <1>1
<1>3. PICK n \in STACK, c \in Indices : a = n * CELLS + c
  BY <1>2, OwnCellsFacts
<1>4. a \div CELLS = n
  BY <1>3, StackFacts, WordOfPage
<1> QED BY <1>4, StackPages

LEMMA WorkStep == ASSUME IInv, Work PROVE IInv' /\ Calm
<1>1. stage = "entry" /\ pc = "idle" /\ VmmInv /\ Control /\ StackInv /\ Place(file) \cap Held = {}
  BY LoadStart DEF Work
<1>2. free' = free /\ pc' = pc /\ virt' = virt /\ page' = page /\ frame' = frame /\ Goto("user")
  BY DEF Work
<1>3. PICK values : Fill(values) /\ DOMAIN values = OwnCells
  BY DEF Work
<1>4. \A a \in DOMAIN values : Physical(a \div CELLS) \notin TablesOf(memory) \cup DOMAIN BootTables
  BY <1>1, <1>3, WordsOfProgram, NoFileWords DEF Control
<1>5. VmmInv' /\ Calm
  BY <1>1, <1>2, <1>3, <1>4, FillStep
<1>6. ASSUME stage' /= "overlap" PROVE Control' /\ StackInv'
  <2>1. stage' = "user" /\ file' = file /\ seg' = seg /\ Place(file') \cap Held' = {}
    BY <1>1, <1>2, <1>6, GotoFacts
  <2>2. Frames(memory', free')
    BY <1>1, <1>5, CalmFacts DEF StackInv
  <2> QED BY <1>1, <1>2, <2>1, <2>2 DEF Control, StackInv
<1> QED BY <1>5, <1>6 DEF IInv

-----------------------------------------------------------------------------
(* The steps of the page tables under the loader.                           *)

LEMMA WalkStart ==
  ASSUME IInv, stage /= "overlap", UNCHANGED <<page, frame>>, Goto(stage)
  PROVE  /\ VmmInv /\ Control /\ StackInv /\ page' = page /\ frame' = frame
         /\ stage' /= "overlap" => stage' = stage /\ file' = file /\ seg' = seg /\ Segment' = Segment
                                   /\ Place(file') \cap Held' = {} /\ Place(file) \cap (free \ free') = {}
<1>1. VmmInv /\ Control /\ StackInv /\ Place(file) \cap Held = {}
  BY DEF IInv, Control
<1>2. stage' /= "overlap" => stage' = stage /\ file' = file /\ seg' = seg
                             /\ Place(file') \cap Held' = {} /\ Place(file) \cap (free \ free') = {}
  BY <1>1, GotoFacts
<1>3. stage' /= "overlap" => Segment' = Segment
  BY <1>2, SegmentNext
<1> QED BY <1>1, <1>2, <1>3

LEMMA DescendIInv ==
  ASSUME IInv, stage /= "overlap", Descend, UNCHANGED <<page, frame>>, Goto(stage) PROVE IInv'
<1>1. /\ VmmInv /\ Control /\ StackInv /\ page' = page /\ frame' = frame
      /\ stage' /= "overlap" => stage' = stage /\ file' = file /\ seg' = seg /\ Segment' = Segment
                                /\ Place(file') \cap Held' = {} /\ Place(file) \cap (free \ free') = {}
  BY WalkStart
<1>2. VmmInv' /\ memory' = memory /\ free' = free /\ pc' = pc /\ virt' = virt /\ new' = new
  BY <1>1, DescendStep
<1>3. Low(virt)' = Low(virt) /\ Own(virt)' = Own(virt)
  BY <1>2
<1>4. ASSUME stage' /= "overlap" PROVE Control' /\ StackInv'
  <2>1. Control'
    BY <1>1, <1>2, <1>3, <1>4 DEF Control
  <2>2. StackInv'
    BY <1>1, <1>2, <1>4 DEF StackInv
  <2> QED BY <2>1, <2>2
<1> QED BY <1>2, <1>4 DEF IInv

LEMMA NewTableIInv ==
  ASSUME IInv, stage /= "overlap", NewTable, UNCHANGED <<page, frame>>, Goto(stage) PROVE IInv' /\ Calm
<1>1. /\ VmmInv /\ Control /\ StackInv /\ page' = page /\ frame' = frame
      /\ stage' /= "overlap" => stage' = stage /\ file' = file /\ seg' = seg /\ Segment' = Segment
                                /\ Place(file') \cap Held' = {} /\ Place(file) \cap (free \ free') = {}
  BY WalkStart
<1>2. PICK p \in free :
        /\ free' = free \ {p} /\ p \in RAM \ {0} /\ p \notin Held
        /\ VmmInv' /\ pc = "map" /\ Own(virt)
        /\ pc' = pc /\ virt' = virt /\ new' = new
        /\ TablesOf(memory') = TablesOf(memory) \cup {p}
        /\ \A v \in Ways : LeafOf(memory', v) = LeafOf(memory, v)
  BY <1>1, NewTableStep
<1>3. Calm
  BY <1>2 DEF Calm
<1>4. Low(virt)' = Low(virt) /\ Own(virt)' = Own(virt)
  BY <1>2
<1>5. ASSUME stage' /= "overlap" PROVE Control' /\ StackInv'
  <2>1. Control'
    BY <1>1, <1>2, <1>4, <1>5 DEF Control
  <2>2. /\ Frames(memory', free') /\ (Fresh(memory, free, frame) => Fresh(memory', free', frame))
        /\ (MappedBelow(memory, virt) => MappedBelow(memory', virt))
    BY <1>1, <1>3, CalmFacts DEF StackInv
  <2>3. stage \in {"page", "stack"}
    BY <1>1, <1>2 DEF Control
  <2>4. StackInv'
    BY <1>1, <1>2, <1>5, <2>2, <2>3 DEF StackInv
  <2> QED BY <2>1, <2>4
<1> QED BY <1>2, <1>3, <1>5 DEF IInv

LEMMA QuietIInv ==
  ASSUME IInv, stage /= "overlap", NullTable \/ Found, UNCHANGED <<page, frame>>, Goto(stage) PROVE IInv'
<1>1. /\ VmmInv /\ Control /\ StackInv /\ page' = page /\ frame' = frame
      /\ stage' /= "overlap" => stage' = stage /\ file' = file /\ seg' = seg /\ Segment' = Segment
                                /\ Place(file') \cap Held' = {} /\ Place(file) \cap (free \ free') = {}
  BY WalkStart
<1>2. /\ VmmInv' /\ memory' = memory /\ free' = free /\ virt' = virt
      /\ (pc = "map" /\ pc' = "halted") \/ (pc = "get" /\ pc' = "idle")
  BY <1>1, QuietStep
<1>3. stage \in {"page", "stack", "looked"} /\ (pc = "get" => stage = "looked")
  BY <1>1, <1>2 DEF Control
<1>4. ASSUME stage' /= "overlap" PROVE Control' /\ StackInv'
  <2>1. Control'
    BY <1>1, <1>2, <1>3, <1>4 DEF Control
  <2>2. StackInv'
    BY <1>1, <1>2, <1>3, <1>4 DEF StackInv
  <2> QED BY <2>1, <2>2
<1> QED BY <1>2, <1>4 DEF IInv

\* Where an entry is set: for a page of the program, in what the loader takes
\* for its table, or for a page of the stack.
LEMMA SetLeafWhere ==
  ASSUME IInv, stage /= "overlap", SetLeaf
  PROVE  /\ pc = "map" /\ VmmInv /\ Control /\ StackInv
         /\ \/ stage = "page" /\ Low(virt) /\ virt \in PagesOf(Segment) /\ Block(virt) \notin Held /\ Block(virt) \in Place(file)
            \/ stage = "stack" /\ Own(virt) /\ virt \in STACK /\ new = frame /\ page = virt + 1
<1>1. pc = "map" /\ VmmInv /\ Control /\ StackInv
  BY SetLeafFacts DEF IInv
<1>2. ASSUME stage = "page", virt \in PagesOf(Segment) PROVE Block(virt) \notin Held /\ Block(virt) \in Place(file)
  <2>1. Block(virt) \in Place(file)
    BY <1>1, <1>2, SegmentPage
  <2> QED BY <1>1, <2>1 DEF Control
<1> QED BY <1>1, <1>2 DEF Control

LEMMA SetLeafIInv ==
  ASSUME IInv, stage /= "overlap", SetLeaf, UNCHANGED <<page, frame>>, Goto(stage) PROVE IInv'
<1>1. /\ VmmInv /\ Control /\ StackInv /\ page' = page /\ frame' = frame
      /\ stage' /= "overlap" => stage' = stage /\ file' = file /\ seg' = seg /\ Segment' = Segment
                                /\ Place(file') \cap Held' = {} /\ Place(file) \cap (free \ free') = {}
  BY WalkStart
<1>2. pc = "map" /\ pc' = "idle" /\ free' = free
  BY <1>1, SetLeafFacts
<1>3. CASE stage = "page" /\ Low(virt) /\ Block(virt) \notin Held
  <2>1. /\ VmmInv' /\ TablesOf(memory') = TablesOf(memory)
        /\ \A v \in Ways : LeafOf(memory', v) = LeafOf(memory, v)
    BY <1>1, <1>3, SetLowLeaf
  <2>2. Calm
    BY <1>2, <2>1 DEF Calm
  <2>3. Frames(memory', free')
    BY <1>1, <2>2, CalmFacts DEF StackInv
  <2>4. stage' /= "overlap" => Control' /\ StackInv'
    BY <1>1, <1>2, <1>3, <2>3 DEF Control, StackInv
  <2> QED BY <2>1, <2>4 DEF IInv
<1>4. CASE stage = "stack" /\ Own(virt) /\ virt \in STACK /\ new = frame /\ page = virt + 1
  <2> DEFINE u == Tuple[virt]
  <2>1. /\ VmmInv' /\ TablesOf(memory') = TablesOf(memory)
        /\ \A v \in Ways : LeafOf(memory', v) = IF v = u THEN Entry(frame) ELSE LeafOf(memory, v)
    BY <1>1, <1>4, SetOwnLeaf
  <2>2. Fresh(memory, free, frame) /\ MappedBelow(memory, virt) /\ Frames(memory, free)
    BY <1>1, <1>2, <1>4 DEF StackInv
  <2>3. u \in Ways /\ virt \in Nat /\ \A k \in STACK : k \in Nat /\ Tuple[k] \in Ways
    BY <1>4, StackFacts
  <2> HIDE DEF u
  <2>4. \A q : GoodPage(memory', free', q) = GoodPage(memory, free, q)
    BY <1>2, <2>1 DEF GoodPage
  <2>5. Entry(frame).to = frame /\ Entry(frame) /= Zero
    BY WordFacts DEF Entry
  <2>6. Frames(memory', free')
    <3> SUFFICES ASSUME NEW v \in Ways, LeafOf(memory', v) /= Zero
                 PROVE  /\ GoodPage(memory, free, LeafOf(memory', v).to)
                        /\ \A w \in Ways : LeafOf(memory', w) = LeafOf(memory', v) /\ LeafOf(memory', v).to /= 0 => w = v
      BY <2>4 DEF Frames
    <3>1. CASE v = u
      <4>1. LeafOf(memory', v) = Entry(frame)
        BY <2>1, <3>1
      <4>2. GoodPage(memory, free, frame) /\ (frame /= 0 => \A w \in Ways : LeafOf(memory, w) /= Entry(frame))
        BY <2>2 DEF Fresh
      <4> QED BY <2>1, <2>5, <3>1, <4>1, <4>2
    <3>2. CASE v /= u
      <4>1. LeafOf(memory', v) = LeafOf(memory, v)
        BY <2>1, <3>2
      <4>2. ASSUME LeafOf(memory, v).to /= 0 PROVE LeafOf(memory, v) /= Entry(frame)
        <5>1. CASE frame = 0
          BY <2>5, <4>2, <5>1
        <5>2. CASE frame /= 0
          BY <2>2, <5>2 DEF Fresh
        <5> QED BY <5>1, <5>2
      <4>3. /\ GoodPage(memory, free, LeafOf(memory, v).to)
            /\ \A w \in Ways : LeafOf(memory, w) = LeafOf(memory, v) /\ LeafOf(memory, v).to /= 0 => w = v
        BY <2>2, <4>1 DEF Frames
      <4> QED BY <2>1, <4>1, <4>2, <4>3
    <3> QED BY <3>1, <3>2
  <2>7. MappedBelow(memory', page)
    <3> SUFFICES ASSUME NEW k \in STACK, k < page PROVE LeafOf(memory', Tuple[k]) /= Zero
      BY DEF MappedBelow
    <3>1. CASE k = virt
      BY <2>1, <2>3, <2>5, <3>1 DEF u
    <3>2. CASE k /= virt
      <4>1. k < virt
        BY <1>4, <2>3, <3>2
      <4>2. LeafOf(memory, Tuple[k]) /= Zero
        BY <2>2, <4>1 DEF MappedBelow
      <4> QED BY <2>1, <2>3, <2>5, <4>2
    <3> QED BY <3>1, <3>2
  <2>8. stage' /= "overlap" => Control' /\ StackInv'
    BY <1>1, <1>2, <1>4, <2>6, <2>7 DEF Control, StackInv
  <2> QED BY <2>1, <2>8 DEF IInv
<1> QED BY <1>3, <1>4, SetLeafWhere

LEMMA StepIInv == IInv /\ [Next]_vars => IInv'
<1> SUFFICES ASSUME IInv, [Next]_vars PROVE IInv'
  OBVIOUS
<1>1. CASE UNCHANGED vars
  BY <1>1 DEF IInv, VmmInv, Control, StackInv, vars, vmmvars, loadervars, Held, Segment, MappedBelow
<1>2. CASE Next
  <2>1. stage /= "overlap"
    BY <1>2 DEF Next
  <2>2. ASSUME NEW f \in Files, loader_exec_buffer(f) PROVE IInv'
    BY <2>2, CallOfShell
  <2>3. CASE Load
    BY <2>1, <2>3, LookUpStep, KeepPageStep, AllocPageStep, AllocNullStep, MapPageStep, CopySegmentStep,
       StackPageStep, MapStackStep, EnterStep, WorkStep, LeaveStep DEF Load
  <2>4. CASE Walk /\ UNCHANGED <<page, frame>> /\ Goto(stage)
    BY <2>1, <2>4, DescendIInv, NewTableIInv, QuietIInv, SetLeafIInv DEF Walk
  <2> QED BY <1>2, <2>2, <2>3, <2>4 DEF Next
<1> QED BY <1>1, <1>2

\* What holds while programs are loaded and run one after the other: the tables
\* that are the loader's own, where the entries of the stack lead, and how far
\* loader_exec_buffer and the walks of paging.c have come.
LEMMA LoaderInvariant == Spec => []IInv
BY InitIInv, StepIInv, PTL DEF Spec

-----------------------------------------------------------------------------
(* What the invariant says of tables, translation and stack.                *)

LEMMA TableOnIsPath == ASSUME NEW v PROVE TableOn(v) = Path(memory, Tuple[v])
BY PathIsTablesIn DEF TableOn

LEMMA TablePagesAre == TablePages = TablesOf(memory)
<1> DEFINE P == {TableOn(v)[n] : v \in OwnPages, n \in 2 .. LEVELS}
           Q == {Path(memory, v)[n] : v \in Ways, n \in 2 .. LEVELS}
<1>1. \A v \in OwnPages : Tuple[v] \in Ways
  BY DEF Ways
<1>2. \A w \in Ways : \E v \in OwnPages : w = Tuple[v]
  BY DEF Ways
<1>3. P \subseteq Q
  BY <1>1, TableOnIsPath
<1>4. Q \subseteq P
  BY <1>2, TableOnIsPath
<1> QED BY <1>3, <1>4 DEF TablePages, TablesOf

LEMMA TablesPrivateIs == IInv => TablesPrivate
<1> SUFFICES ASSUME IInv PROVE TablesPrivate
  OBVIOUS
<1>1. VmmInv /\ Private(memory, Held)
  BY DEF IInv, VmmInv
<1>2. TablePages \subseteq Held
  BY <1>1, TablesAreHeld, TablePagesAre
<1>3. stage /= "overlap" => TablePages \cap Place(file) = {}
  BY <1>2 DEF IInv, Control
<1>4. ASSUME NEW u \in OwnPages, NEW v \in OwnPages, NEW m \in 2 .. LEVELS, NEW n \in 2 .. LEVELS,
             TableOn(u)[m] = TableOn(v)[n], TableOn(u)[m] /= 0
      PROVE  m = n /\ \A i \in 1 .. n - 1 : Tuple[u][i] = Tuple[v][i]
  <2>1. Tuple[u] \in Ways /\ Tuple[v] \in Ways /\ m \in 1 .. LEVELS /\ n \in 1 .. LEVELS
    BY Levels DEF Ways
  <2>2. Path(memory, Tuple[u])[m] = Path(memory, Tuple[v])[n] /\ Path(memory, Tuple[u])[m] /= 0
    BY <1>4, TableOnIsPath
  <2>3. m = n /\ Agree(Tuple[u], Tuple[v], m - 1)
    BY <1>1, <2>1, <2>2 DEF Private, Apart
  <2> QED BY <2>3 DEF Agree
<1> QED BY <1>2, <1>3, <1>4 DEF TablesPrivate

\* Tables under the loader stay its own, at every moment and for any image,
\* number of levels and programs: no page is a table of two places, free, or a
\* page of the running program (paging.c:22-47).
THEOREM TablesStayPrivate == Spec => []TablesPrivate
BY LoaderInvariant, TablesPrivateIs, PTL

LEMMA StackPrivateIs == IInv => StackPrivate
<1> SUFFICES ASSUME IInv, stage = "entry", NEW n \in STACK
             PROVE  \/ Physical(n) = 0 /\ free = {}
                    \/ /\ Physical(n) \in Held \ (TablePages \cup Place(file))
                       /\ \A m \in STACK : Physical(m) = Physical(n) => m = n
  BY DEF StackPrivate
<1> QED BY StackPages, TablePagesAre

\* The stack of every program that is entered is in pages of its own, or in
\* page 0 when memory has run out (loader.c:58-61).
THEOREM StackStaysPrivate == Spec => []StackPrivate
BY LoaderInvariant, StackPrivateIs, PTL

\* What is not mapped anew stays where it is.
LEMMA Stays ==
  ASSUME VmmInv, VmmInv', NEW v \in VPages,
         Own(v) => LeafOf(memory', Tuple[v]) = LeafOf(memory, Tuple[v])
  PROVE  Physical(v)' = Physical(v)
<1>1. Private(memory, Held) /\ BootKept(memory) /\ Private(memory', Held') /\ BootKept(memory')
  BY DEF VmmInv
<1>2. PhysicalIn(memory', v) = PhysicalIn(memory, v)
  <2>1. CASE Low(v)
    BY <1>1, <2>1, LowWay
  <2>2. CASE ByPage(v)
    BY <1>1, <2>2, ByPageWay
  <2>3. CASE Own(v)
    BY <1>1, <2>3, OwnWay
  <2> QED BY <2>1, <2>2, <2>3, Kinds
<1> QED BY <1>2, PhysicalIsIn, PhysicalIsInNext

LEMMA CalmStays ==
  ASSUME VmmInv, VmmInv', \A w \in Ways : LeafOf(memory', w) = LeafOf(memory, w)
  PROVE  \A v \in VPages : Physical(v)' = Physical(v)
<1>1. \A v \in VPages : Own(v) => Tuple[v] \in Ways
  BY DEF Ways, OwnPages
<1> QED BY <1>1, Stays

LEMMA SetLeafMoves ==
  ASSUME IInv, IInv', stage /= "overlap", SetLeaf, NEW v \in VPages, Physical(v)' /= Physical(v)
  PROVE  pc = "map" /\ v = virt /\ v \in STACK /\ Physical(v)' = new
<1>1. VmmInv /\ VmmInv' /\ pc = "map" /\ virt \in VPages
  BY SetLeafWhere DEF IInv, VmmInv
<1>2. CASE stage = "page" /\ Low(virt) /\ Block(virt) \notin Held
  <2>1. \A w \in Ways : LeafOf(memory', w) = LeafOf(memory, w)
    BY <1>1, <1>2, SetLowLeaf
  <2> QED BY <1>1, <2>1, CalmStays
<1>3. CASE Own(virt) /\ virt \in STACK
  <2>1. \A w \in Ways : LeafOf(memory', w) = IF w = Tuple[virt] THEN Entry(new) ELSE LeafOf(memory, w)
    BY <1>1, <1>3, SetOwnLeaf
  <2>2. CASE v /= virt
    <3>1. Tuple[v] /= Tuple[virt]
      BY <1>1, <2>2, VmmAssumption
    <3>2. Own(v) => LeafOf(memory', Tuple[v]) = LeafOf(memory, Tuple[v])
      BY <2>1, <3>1 DEF Ways, OwnPages
    <3> QED BY <1>1, <3>2, Stays
  <2>3. CASE v = virt
    <3>1. LeafOf(memory', Tuple[v]) = Entry(new)
      BY <1>1, <1>3, <2>1, <2>3 DEF Ways, OwnPages
    <3>2. PhysicalIn(memory', v) = LeafOf(memory', Tuple[v]).to
      <4>1. Private(memory', Held')
        BY <1>1 DEF VmmInv
      <4>2. Entry(new) /= Zero
        BY WordFacts
      <4> QED BY <1>3, <2>3, <3>1, <4>1, <4>2, OwnWay
    <3>3. Entry(new).to = new
      BY DEF Entry
    <3> QED BY <1>1, <1>3, <2>3, <3>1, <3>2, <3>3, PhysicalIsInNext
  <2> QED BY <2>2, <2>3
<1> QED BY <1>2, <1>3, SetLeafWhere

LEMMA MovesStep == IInv /\ IInv' /\ [Next]_vars => [Moves]_vars
<1> SUFFICES ASSUME IInv, IInv', Next, NEW v \in VPages, Physical(v)' /= Physical(v)
             PROVE  pc = "map" /\ v = virt /\ v \in STACK /\ Physical(v)' = new
  BY DEF Moves
<1>1. VmmInv /\ VmmInv' /\ stage /= "overlap"
  BY DEF IInv, Next
<1>2. ASSUME memory' = memory PROVE FALSE
  BY <1>2, PhysicalIsIn, PhysicalIsInNext
<1>3. ASSUME Calm PROVE FALSE
  BY <1>1, <1>3, CalmStays DEF Calm
<1>4. ASSUME NEW f \in Files, loader_exec_buffer(f) PROVE FALSE
  BY <1>2, <1>4 DEF loader_exec_buffer, vmmvars
<1>5. ASSUME Load PROVE FALSE
  <2>1. LookUp => memory' = memory
    BY DEF LookUp, vmm_get_phys
  <2>2. KeepPage \/ AllocNull \/ Enter \/ Leave => memory' = memory
    BY DEF KeepPage, AllocNull, Enter, Leave, vmmvars
  <2>3. MapPage \/ MapStack => memory' = memory
    BY DEF MapPage, MapStack, vmm_map_page
  <2>4. StackPage => memory' = memory
    BY DEF StackPage
  <2>5. AllocPage \/ CopySegment \/ Work => Calm
    BY AllocPageStep, CopySegmentStep, WorkStep
  <2> QED BY <1>2, <1>3, <1>5, <2>1, <2>2, <2>3, <2>4, <2>5 DEF Load
<1>6. ASSUME Walk, UNCHANGED <<page, frame>>, Goto(stage)
      PROVE  pc = "map" /\ v = virt /\ v \in STACK /\ Physical(v)' = new
  <2>1. Descend \/ NullTable \/ Found => memory' = memory
    BY DEF Descend, NullTable, Found
  <2>2. NewTable => Calm
    BY <1>1, <1>6, NewTableIInv
  <2>3. SetLeaf => pc = "map" /\ v = virt /\ v \in STACK /\ Physical(v)' = new
    BY <1>1, SetLeafMoves
  <2> QED BY <1>2, <1>3, <1>6, <2>1, <2>2, <2>3 DEF Walk
<1> QED BY <1>4, <1>5, <1>6 DEF Next

\* Nothing moves in the address space but the page of the stack that is being
\* mapped: not the pages of a program, although entries are written for them,
\* and not what was mapped before (paging.c:13-54).
THEOREM TranslationStays == Spec => TranslationStable
BY LoaderInvariant, MovesStep, StepIInv, PTL DEF Spec, TranslationStable

-----------------------------------------------------------------------------
(* Segments in memory.  Before a page of a later segment is mapped its word  *)
(* in what is taken for the table has been found to lead nowhere.            *)

FileWord(f, s, a) == IF a < s.vaddr + s.filesz THEN Cell(f, s.offset + a - s.vaddr) ELSE Zero
Later(f, i, a) ==
  \E j \in i + 1 .. Len(f.segs) : \E v \in PagesOf(f.segs[j]) :
    a \div CELLS = Block(v) /\ a % CELLS = Tuple[v][LEVELS]
AsIn(f, T, i, a) ==
  \/ T[a \div CELLS][a % CELLS] = FileWord(f, f.segs[i], a)
  \/ ~Leads(FileWord(f, f.segs[i], a)) /\ T[a \div CELLS][a % CELLS].kind = "entry" /\ Later(f, i, a)
InFull(f, i) == f.segs[i].offset + f.segs[i].filesz <= f.size
LoadedWhole(f, T, i) == InFull(f, i) => \A a \in Cells(f.segs[i]) : AsIn(f, T, i, a)
Loaded(f, T, n) == \A i \in 1 .. Len(f.segs) : i < n => LoadedWhole(f, T, i)

LeadsNowhere(T, v) == ~Leads(T[Block(v)][Tuple[v][LEVELS]])
Loading == stage \in {"page", "looked", "map"}

LookedUp ==
  /\ ~known => found = FALSE
  /\ pc = "get" => known
  /\ ~known /\ Loading => seg = 1 /\ page = Min(PagesOf(Segment))
  /\ stage = "looked" /\ pc = "idle" /\ ~found => seg = 1 \/ LeadsNowhere(memory, page)
  /\ stage = "map" => seg = 1 \/ LeadsNowhere(memory, page)
  /\ stage = "page" /\ pc = "map" => seg = 1 \/ LeadsNowhere(memory, virt)
SegInv ==
  /\ found \in BOOLEAN /\ known \in BOOLEAN
  /\ Loading => Loaded(file, memory, seg)
  /\ stage \in {"stack", "mapstack", "entry"} => file \in Files /\ Loaded(file, memory, Len(file.segs) + 1)

JInv == IInv /\ (stage /= "overlap" => LookedUp /\ SegInv)

\* Writing outside the place of the program changes none of this.
LEMMA LoadedElsewhere ==
  ASSUME NEW f \in Files, NEW T, NEW S, \A q \in Place(f) : S[q] = T[q], NEW n, Loaded(f, T, n)
  PROVE  Loaded(f, S, n)
<1> SUFFICES ASSUME NEW i \in 1 .. Len(f.segs), i < n, InFull(f, i), NEW a \in Cells(f.segs[i])
             PROVE  AsIn(f, S, i, a)
  BY DEF Loaded, LoadedWhole
<1>1. AsIn(f, T, i, a)
  BY DEF Loaded, LoadedWhole
<1>2. a \div CELLS \in Place(f)
  BY FileFacts
<1>3. S[a \div CELLS] = T[a \div CELLS]
  BY <1>2
<1> QED BY <1>1, <1>3 DEF AsIn

LEMMA NowhereElsewhere ==
  ASSUME NEW f \in Files, NEW T, NEW S, \A q \in Place(f) : S[q] = T[q], NEW v \in AllPages(f)
  PROVE  LeadsNowhere(S, v) = LeadsNowhere(T, v)
<1>1. Block(v) \in Place(f)
  BY FileFacts
<1> QED BY <1>1 DEF LeadsNowhere, Leads

\* An entry written for a page of a later segment.
LEMMA LoadedUnderEntry ==
  ASSUME NEW f \in Files, NEW T, NEW S, NEW n \in 1 .. Len(f.segs), NEW u \in PagesOf(f.segs[n]),
         n = 1 \/ LeadsNowhere(T, u),
         S[Block(u)][Tuple[u][LEVELS]].kind = "entry",
         \A j \in Indices : j /= Tuple[u][LEVELS] => S[Block(u)][j] = T[Block(u)][j],
         \A q : q /= Block(u) => S[q] = T[q],
         Loaded(f, T, n)
  PROVE  Loaded(f, S, n)
<1> SUFFICES ASSUME NEW i \in 1 .. Len(f.segs), i < n, InFull(f, i), NEW a \in Cells(f.segs[i])
             PROVE  AsIn(f, S, i, a)
  BY DEF Loaded, LoadedWhole
<1>1. AsIn(f, T, i, a)
  BY DEF Loaded, LoadedWhole
<1>2. a \in Nat /\ CELLS \in Nat \ {0} /\ Len(f.segs) \in Nat
  BY FileFacts, VmmAssumption
<1>3. a % CELLS \in Indices
  BY <1>2, DivMod DEF Indices
<1>4. CASE ~(a \div CELLS = Block(u) /\ a % CELLS = Tuple[u][LEVELS])
  <2>1. S[a \div CELLS][a % CELLS] = T[a \div CELLS][a % CELLS]
    BY <1>3, <1>4
  <2> QED BY <1>1, <2>1 DEF AsIn
<1>5. CASE a \div CELLS = Block(u) /\ a % CELLS = Tuple[u][LEVELS]
  <2>1. n \in i + 1 .. Len(f.segs) /\ n /= 1
    BY <1>2
  <2>2. Later(f, i, a)
    BY <1>5, <2>1 DEF Later
  <2>3. ~Leads(T[a \div CELLS][a % CELLS])
    BY <1>5, <2>1 DEF LeadsNowhere
  <2>4. ~Leads(FileWord(f, f.segs[i], a))
    BY <1>1, <2>3 DEF AsIn
  <2>5. S[a \div CELLS][a % CELLS].kind = "entry"
    BY <1>5
  <2> QED BY <2>2, <2>4, <2>5 DEF AsIn
<1> QED BY <1>4, <1>5

\* The words that are filled.
LEMMA FillWords ==
  ASSUME NEW values, Fill(values), \A b \in DOMAIN values : b \in Nat /\ Physical(b \div CELLS) = b \div CELLS,
         NEW a \in Nat, a \div CELLS \in DOMAIN memory
  PROVE  memory'[a \div CELLS][a % CELLS] =
           IF a \in DOMAIN values THEN values[a] ELSE memory[a \div CELLS][a % CELLS]
<1> DEFINE p == a \div CELLS
           c == a % CELLS
           here == {b \in DOMAIN values : Physical(b \div CELLS) = p /\ b % CELLS = c}
<1>1. CELLS \in Nat \ {0} /\ c \in Indices
  BY VmmAssumption, DivMod DEF Indices
<1>2. memory'[p][c] = IF here = {} THEN memory[p][c] ELSE values[CHOOSE b \in here : TRUE]
  BY <1>1 DEF Fill
<1>3. \A b \in here : b = a
  BY SameCell
<1>4. a \in DOMAIN values => here = {a}
  BY <1>3
<1>5. a \notin DOMAIN values => here = {}
  BY <1>3
<1> HIDE DEF here
<1>6. here = {a} => (CHOOSE b \in here : TRUE) = a
  OBVIOUS
<1> QED BY <1>2, <1>4, <1>5, <1>6

LEMMA JStart ==
  ASSUME JInv, stage /= "overlap"
  PROVE  /\ IInv /\ VmmInv /\ Control /\ LookedUp /\ SegInv /\ Place(file) \cap Held = {}
         /\ Loading => file \in Files /\ seg \in 1 .. Len(file.segs)
BY DEF JInv, IInv, Control, Loading

LEMMA JInit == Init => JInv
BY InitIInv DEF Init, VmmInit, JInv, LookedUp, SegInv, Loading

LEMMA JCallOfShell ==
  ASSUME JInv, NEW f \in Files, loader_exec_buffer(f), stage' /= "overlap"
  PROVE  LookedUp' /\ SegInv'
<1>1. stage = "shell" /\ pc = "idle" /\ UNCHANGED <<vmmvars, frame>>
  BY DEF loader_exec_buffer, At
<1>2. LookedUp /\ SegInv /\ pc' = pc /\ known' = known /\ found' = found /\ memory' = memory
  BY <1>1, JStart DEF vmmvars
<1>3. CASE f.size < HEADER
  <2>1. UNCHANGED <<file, stage, seg, page>>
    BY <1>3 DEF loader_exec_buffer
  <2> QED BY <1>1, <1>2, <2>1 DEF LookedUp, SegInv, Loading
<1>4. CASE ~(f.size < HEADER)
  <2>1. ToSegment(f, 1)
    BY <1>4 DEF loader_exec_buffer
  <2>2. file' = f /\ seg' = 1 /\ f.segs \in Seq(Segments) /\ Len(f.segs) \in Nat
    BY <2>1, FileFacts DEF ToSegment
  <2>3. Loaded(f, memory, 1)
    BY <2>2 DEF Loaded
  <2>4. CASE 1 <= Len(f.segs)
    <3>1. stage' = "page" /\ page' = Min(PagesOf(f.segs[1]))
      BY <2>1, <2>4 DEF ToSegment
    <3>2. Segment' = f.segs[1]
      BY <2>2 DEF Segment
    <3> QED BY <1>1, <1>2, <2>2, <2>3, <3>1, <3>2 DEF LookedUp, SegInv, Loading
  <2>5. CASE ~(1 <= Len(f.segs))
    <3>1. stage' = "stack"
      BY <2>1, <2>5 DEF ToSegment
    <3>2. Loaded(f, memory, Len(f.segs) + 1)
      BY <2>2, <2>5 DEF Loaded
    <3> QED BY <1>1, <1>2, <2>2, <3>1, <3>2 DEF LookedUp, SegInv, Loading
  <2> QED BY <2>4, <2>5
<1> QED BY <1>3, <1>4

LEMMA LoadGoto ==
  ASSUME JInv, NEW s, At(s), s /= "overlap", NEW t, Goto(t), stage' /= "overlap"
  PROVE  /\ stage = s /\ pc = "idle" /\ stage' = t /\ file' = file /\ seg' = seg /\ Segment' = Segment
         /\ Place(file) \cap (free \ free') = {} /\ IInv /\ VmmInv /\ Control /\ LookedUp /\ SegInv
         /\ Loading => file \in Files /\ seg \in 1 .. Len(file.segs)
<1>1. stage = s /\ pc = "idle"
  BY DEF At
<1>2. IInv /\ VmmInv /\ Control /\ LookedUp /\ SegInv /\ Place(file) \cap Held = {}
      /\ (Loading => file \in Files /\ seg \in 1 .. Len(file.segs))
  BY <1>1, JStart
<1>3. stage' = t /\ file' = file /\ seg' = seg /\ Place(file) \cap (free \ free') = {}
  BY <1>2, GotoFacts
<1>4. Segment' = Segment
  BY <1>3, SegmentNext
<1> QED BY <1>1, <1>2, <1>3, <1>4

LEMMA JLookUp == ASSUME JInv, LookUp, stage' /= "overlap" PROVE LookedUp' /\ SegInv'
<1>1. /\ stage = "page" /\ pc = "idle" /\ stage' = "looked" /\ file' = file /\ seg' = seg /\ Segment' = Segment
      /\ LookedUp /\ SegInv
  BY LoadGoto DEF LookUp
<1>2. vmm_get_phys(page) /\ page' = page /\ memory' = memory /\ known' = known
  BY DEF LookUp, vmm_get_phys
<1>3. CASE known
  <2>1. pc' = "get" /\ found' = found
    BY <1>2, <1>3 DEF vmm_get_phys, Call
  <2> QED BY <1>1, <1>2, <1>3, <2>1 DEF LookedUp, SegInv, Loading
<1>4. CASE ~known
  <2>1. found' = FALSE /\ pc' = pc
    BY <1>2, <1>4 DEF vmm_get_phys
  <2>2. seg = 1 /\ page = Min(PagesOf(Segment))
    BY <1>1, <1>4 DEF LookedUp, Loading
  <2> QED BY <1>1, <1>2, <1>4, <2>1, <2>2 DEF LookedUp, SegInv, Loading
<1> QED BY <1>3, <1>4

LEMMA JKeepPage == ASSUME JInv, KeepPage, stage' /= "overlap" PROVE LookedUp' /\ SegInv'
<1>1. /\ stage = "looked" /\ pc = "idle" /\ stage' = "page" /\ file' = file /\ seg' = seg /\ Segment' = Segment
      /\ LookedUp /\ SegInv
  BY LoadGoto DEF KeepPage
<1>2. found /\ known' = known /\ found' = found /\ memory' = memory /\ pc' = pc
  BY DEF KeepPage, vmmvars
<1>3. known
  BY <1>1, <1>2 DEF LookedUp
<1> QED BY <1>1, <1>2, <1>3 DEF LookedUp, SegInv, Loading

LEMMA JAllocNull == ASSUME JInv, AllocNull, stage' /= "overlap" PROVE LookedUp' /\ SegInv'
<1>1. stage = "looked" /\ pc = "idle" /\ stage' = "halted" /\ LookedUp /\ SegInv
  BY LoadGoto DEF AllocNull
<1>2. known' = known /\ found' = found /\ memory' = memory /\ pc' = pc
  BY DEF AllocNull, vmmvars
<1> QED BY <1>1, <1>2 DEF LookedUp, SegInv, Loading

LEMMA JAllocPage == ASSUME JInv, AllocPage, stage' /= "overlap" PROVE LookedUp' /\ SegInv'
<1>1. /\ stage = "looked" /\ pc = "idle" /\ stage' = "map" /\ file' = file /\ seg' = seg /\ Segment' = Segment
      /\ LookedUp /\ SegInv /\ VmmInv /\ Control /\ Place(file) \cap (free \ free') = {} /\ file \in Files
  BY LoadGoto DEF AllocPage, Loading
<1>2. PICK p \in free : Take(p) /\ memory' = WithPage(memory, p, Zeros)
  BY DEF AllocPage, WithPage, Zeros
<1>3. ~found /\ known' = known /\ found' = found /\ pc' = pc /\ virt' = virt /\ page' = page
  BY DEF AllocPage
<1>4. \A q : q /= p => memory'[q] = memory[q]
  BY <1>1, <1>2, <1>3, AllocPageMemory
<1>5. p \notin Place(file)
  BY <1>1, <1>2 DEF Take
<1>6. \A q \in Place(file) : memory'[q] = memory[q]
  BY <1>4, <1>5
<1>7. Loaded(file, memory', seg)
  BY <1>1, <1>6, LoadedElsewhere DEF SegInv, Loading
<1>8. page \in AllPages(file)
  BY <1>1, SegmentPage DEF Control
<1>9. LeadsNowhere(memory', page) = LeadsNowhere(memory, page)
  BY <1>1, <1>6, <1>8, NowhereElsewhere
<1>10. seg = 1 \/ LeadsNowhere(memory', page)
  BY <1>1, <1>3, <1>9 DEF LookedUp
<1> QED BY <1>1, <1>3, <1>7, <1>10 DEF LookedUp, SegInv, Loading

LEMMA JMapPage == ASSUME JInv, MapPage, stage' /= "overlap" PROVE LookedUp' /\ SegInv'
<1>1. /\ stage = "map" /\ pc = "idle" /\ stage' = "page" /\ file' = file /\ seg' = seg /\ Segment' = Segment
      /\ LookedUp /\ SegInv
  BY LoadGoto DEF MapPage
<1>2. known' = TRUE /\ found' = found /\ memory' = memory /\ pc' = "map" /\ virt' = page
  BY DEF MapPage, vmm_map_page, Call
<1> QED BY <1>1, <1>2 DEF LookedUp, SegInv, Loading

LEMMA JStack ==
  ASSUME JInv, StackPage \/ MapStack \/ Enter, stage' /= "overlap" PROVE LookedUp' /\ SegInv'
<1>1. /\ stage \in {"stack", "mapstack"} /\ stage' \in {"stack", "mapstack", "entry"}
      /\ pc = "idle" /\ file' = file /\ LookedUp /\ SegInv
  BY LoadGoto DEF StackPage, MapStack, Enter
<1>2. memory' = memory /\ found' = found /\ (known' = known \/ known' = TRUE) /\ (pc' = pc \/ pc' = "map")
  BY DEF StackPage, MapStack, Enter, vmm_map_page, Call, vmmvars
<1>3. file \in Files /\ Loaded(file, memory, Len(file.segs) + 1)
  BY <1>1 DEF SegInv
<1>4. SegInv'
  BY <1>1, <1>2, <1>3 DEF SegInv, Loading
<1>5. LookedUp'
  <2>1. ~Loading' /\ stage' /= "looked" /\ stage' /= "map" /\ stage' /= "page"
    BY <1>1 DEF Loading
  <2>2. pc' /= "get"
    BY <1>1, <1>2
  <2>3. ~known' => found' = FALSE
    BY <1>1, <1>2 DEF LookedUp
  <2> QED BY <2>1, <2>2, <2>3 DEF LookedUp
<1> QED BY <1>4, <1>5

LEMMA JWork ==
  ASSUME JInv, stage /= "overlap", Work \/ Leave, stage' /= "overlap" PROVE LookedUp' /\ SegInv'
<1>1. stage' \in {"user", "shell"} /\ pc = "idle" /\ LookedUp /\ SegInv
  <2>1. CASE Work
    BY <2>1, LoadGoto DEF Work
  <2>2. CASE Leave
    BY <2>2, JStart DEF Leave
  <2> QED BY <2>1, <2>2
<1>2. known' = known /\ found' = found /\ pc' = pc
  BY DEF Work, Leave, vmmvars
<1> QED BY <1>1, <1>2 DEF LookedUp, SegInv, Loading

LEMMA JCopySegment == ASSUME JInv, CopySegment, stage' /= "overlap" PROVE LookedUp' /\ SegInv'
<1> DEFINE s == file.segs[seg]
<1>1. stage = "page" /\ pc = "idle" /\ page \notin PagesOf(Segment) /\ ToSegment(file, seg + 1)
      /\ known' = known /\ found' = found /\ pc' = pc
  BY DEF CopySegment, At
<1>2. IInv /\ VmmInv /\ Control /\ LookedUp /\ SegInv /\ file \in Files /\ seg \in 1 .. Len(file.segs)
  BY <1>1, JStart DEF Loading
<1>3. Segment = s /\ s \in Segments /\ s.memsz > 0 /\ s.filesz <= s.memsz
  BY <1>2, FileFacts DEF Segment
<1>4. known
  <2>1. Min(PagesOf(Segment)) \in PagesOf(Segment)
    BY <1>3, SegmentPages
  <2> QED BY <1>1, <1>2, <2>1 DEF LookedUp, Loading
<1>5. file' = file /\ seg' = seg + 1 /\ stage' \in {"page", "stack"} /\ Len(file.segs) \in Nat /\ seg \in Nat
      /\ (stage' = "stack" => seg + 1 = Len(file.segs) + 1)
  <2>1. file.segs \in Seq(Segments)
    BY <1>2, FileFacts
  <2> QED BY <1>1, <1>2, <2>1 DEF ToSegment
<1>6. PICK values : /\ Fill(values) /\ DOMAIN values = Written(s)
                    /\ \A a \in Written(s) : values[a] = IF a \in Copied(s) THEN Cell(file, s.offset + a - s.vaddr) ELSE Zero
  BY <1>3 DEF CopySegment
<1>7. Written(s) \subseteq Cells(s)
  BY <1>3 DEF Written, Copied, Cleared, Cells, Segments
<1>8. \A b \in DOMAIN values : b \in Nat /\ Physical(b \div CELLS) = b \div CELLS
  BY <1>1, <1>2, <1>3, <1>6, <1>7, OwnWords
<1>9. \A a \in Nat : a \div CELLS \in Place(file) =>
         memory'[a \div CELLS][a % CELLS] = IF a \in DOMAIN values THEN values[a] ELSE memory[a \div CELLS][a % CELLS]
  <2>1. DOMAIN memory = Dom
    BY <1>2 DEF VmmInv, Private, Holding
  <2>2. Place(file) \subseteq DOMAIN memory
    BY <1>2, <2>1, FileFacts DEF Dom
  <2> QED BY <1>6, <1>8, <2>2, FillWords
<1>10. ASSUME NEW i \in 1 .. Len(file.segs), i < seg + 1, InFull(file, i), NEW a \in Cells(file.segs[i])
       PROVE  AsIn(file, memory', i, a)
  <2>1. a \in Nat /\ a \div CELLS \in Place(file)
    BY <1>2, FileFacts
  <2>2. CASE i = seg
    <3>1. a \in Cells(s) /\ s.offset + s.filesz <= file.size
      BY <1>10, <2>2 DEF InFull
    <3>2. /\ a \in Written(s) /\ (a \in Copied(s) <=> a < s.vaddr + s.filesz)
      <4> DEFINE x == s.vaddr  y == s.filesz  z == s.memsz
      <4>1. x \in Nat /\ y \in Nat /\ z \in Nat /\ y <= z
        BY <1>3 DEF Segments
      <4>2. a \in x .. x + z - 1
        BY <3>1 DEF Cells
      <4>3. Cleared(s) = x + y .. x + z - 1
        BY DEF Cleared
      <4>4. Copied(s) = IF y > 0 THEN x .. x + y - 1 ELSE {}
        BY <3>1 DEF Copied
      <4> HIDE DEF x, y, z
      <4>5. a \in Copied(s) <=> a < x + y
        BY <4>1, <4>2, <4>4
      <4>6. a \in Copied(s) \/ a \in Cleared(s)
        BY <4>1, <4>2, <4>3, <4>5
      <4> QED BY <4>5, <4>6 DEF Written, x, y
    <3>3. memory'[a \div CELLS][a % CELLS] = FileWord(file, s, a)
      BY <1>6, <1>9, <2>1, <3>2 DEF FileWord
    <3> QED BY <2>2, <3>3 DEF AsIn
  <2>3. CASE i /= seg
    <3>1. i < seg
      BY <1>5, <1>10, <2>3
    <3>2. AsIn(file, memory, i, a)
      BY <1>1, <1>2, <1>10, <3>1 DEF SegInv, Loaded, LoadedWhole, Loading
    <3>3. Cells(file.segs[i]) \cap Cells(s) = {}
      BY <1>2, <2>3, FileFacts
    <3>4. a \notin DOMAIN values
      BY <1>6, <1>7, <1>10, <3>3
    <3>5. memory'[a \div CELLS][a % CELLS] = memory[a \div CELLS][a % CELLS]
      BY <1>9, <2>1, <3>4
    <3> QED BY <3>2, <3>5 DEF AsIn
  <2> QED BY <2>2, <2>3
<1>11. Loaded(file, memory', seg + 1)
  BY <1>10 DEF Loaded, LoadedWhole
<1>12. known' /\ found' = found /\ pc' = "idle"
  BY <1>1, <1>4
<1> QED BY <1>2, <1>5, <1>11, <1>12 DEF LookedUp, SegInv, Loading

\* The steps of a walk.
LEMMA JWalkStart ==
  ASSUME JInv, stage /= "overlap", UNCHANGED <<page, frame>>, Goto(stage), stage' /= "overlap"
  PROVE  /\ IInv /\ VmmInv /\ Control /\ LookedUp /\ SegInv /\ Place(file) \cap Held = {}
         /\ Loading => file \in Files /\ seg \in 1 .. Len(file.segs)
         /\ stage' = stage /\ file' = file /\ seg' = seg /\ page' = page /\ Segment' = Segment
         /\ Place(file) \cap (free \ free') = {}
<1>1. IInv /\ VmmInv /\ Control /\ LookedUp /\ SegInv /\ Place(file) \cap Held = {}
      /\ (Loading => file \in Files /\ seg \in 1 .. Len(file.segs))
  BY JStart
<1>2. stage' = stage /\ file' = file /\ seg' = seg /\ page' = page /\ Segment' = Segment
      /\ Place(file) \cap (free \ free') = {}
  BY <1>1, WalkStart
<1> QED BY <1>1, <1>2

LEMMA JDescend ==
  ASSUME JInv, stage /= "overlap", Descend, UNCHANGED <<page, frame>>, Goto(stage), stage' /= "overlap"
  PROVE  LookedUp' /\ SegInv'
<1>1. /\ VmmInv /\ LookedUp /\ SegInv
      /\ stage' = stage /\ file' = file /\ seg' = seg /\ page' = page /\ Segment' = Segment
  BY JWalkStart
<1>2. memory' = memory /\ pc' = pc /\ virt' = virt /\ known' = known /\ found' = found
  BY <1>1, DescendStep
<1>3. SegInv'
  BY <1>1, <1>2 DEF SegInv, Loading
<1>4. LookedUp'
  BY <1>1, <1>2 DEF LookedUp, Loading
<1> QED BY <1>3, <1>4

\* What is written outside the place of the program, while a page is mapped.
LEMMA JElsewhere ==
  ASSUME VmmInv, Control, LookedUp, SegInv, pc = "map", stage \in {"page", "stack"},
         Loading => file \in Files /\ seg \in 1 .. Len(file.segs),
         stage' = stage, file' = file, seg' = seg, page' = page, Segment' = Segment,
         virt' = virt, known' = known, found' = found, pc' \in {"map", "idle", "halted"},
         \A q \in Place(file) : memory'[q] = memory[q]
  PROVE  LookedUp' /\ SegInv'
<1>1. file \in Files
  BY DEF Loading, SegInv
<1>2. SegInv'
  <2>1. CASE stage = "page"
    <3>1. Loaded(file, memory', seg)
      BY <1>1, <2>1, LoadedElsewhere DEF SegInv, Loading
    <3> QED BY <2>1, <3>1 DEF SegInv, Loading
  <2>2. CASE stage = "stack"
    <3>1. Loaded(file, memory', Len(file.segs) + 1)
      BY <1>1, <2>2, LoadedElsewhere DEF SegInv
    <3> QED BY <1>1, <2>2, <3>1 DEF SegInv, Loading
  <2> QED BY <2>1, <2>2
<1>3. LookedUp'
  <2>1. CASE stage = "page"
    <3>1. virt \in AllPages(file)
      BY <1>1, <2>1, SegmentPage DEF Control
    <3>2. LeadsNowhere(memory', virt) = LeadsNowhere(memory, virt)
      BY <1>1, <3>1, NowhereElsewhere
    <3> QED BY <2>1, <3>2 DEF LookedUp, Loading
  <2>2. CASE stage = "stack"
    BY <2>2 DEF LookedUp, Loading
  <2> QED BY <2>1, <2>2
<1> QED BY <1>2, <1>3

LEMMA PlaceIsNoTable ==
  ASSUME VmmInv, Control
  PROVE  \A q \in Place(file) : q \in RAM /\ q \notin TablesOf(memory) \cup {Root}
<1>1. Place(file) \subseteq RAM /\ Place(file) \cap Held = {}
  BY FileFacts, NoFileFacts DEF Control
<1>2. TablesOf(memory) \subseteq Held
  BY TablesAreHeld DEF VmmInv
<1> QED BY <1>1, <1>2, PagesFacts

LEMMA JNewTable ==
  ASSUME JInv, stage /= "overlap", NewTable, UNCHANGED <<page, frame>>, Goto(stage), stage' /= "overlap"
  PROVE  LookedUp' /\ SegInv'
<1>1. /\ VmmInv /\ Control /\ LookedUp /\ SegInv /\ (Loading => file \in Files /\ seg \in 1 .. Len(file.segs))
      /\ stage' = stage /\ file' = file /\ seg' = seg /\ page' = page /\ Segment' = Segment
      /\ Place(file) \cap (free \ free') = {}
  BY JWalkStart
<1>2. PICK p \in free :
        /\ free' = free \ {p} /\ pc = "map" /\ pc' = pc /\ virt' = virt /\ known' = known /\ found' = found
        /\ \A q : q \notin TablesOf(memory) \cup {Root, p} => memory'[q] = memory[q]
  BY <1>1, NewTableStep
<1>3. stage \in {"page", "stack"}
  BY <1>1, <1>2 DEF Control
<1>4. p \notin Place(file)
  BY <1>1, <1>2
<1>5. \A q \in Place(file) : memory'[q] = memory[q]
  BY <1>1, <1>2, <1>4, PlaceIsNoTable
<1> QED BY <1>1, <1>2, <1>3, <1>5, JElsewhere

LEMMA JQuiet ==
  ASSUME JInv, stage /= "overlap", NullTable \/ Found, UNCHANGED <<page, frame>>, Goto(stage), stage' /= "overlap"
  PROVE  LookedUp' /\ SegInv'
<1>1. /\ VmmInv /\ Control /\ LookedUp /\ SegInv /\ (Loading => file \in Files /\ seg \in 1 .. Len(file.segs))
      /\ stage' = stage /\ file' = file /\ seg' = seg /\ page' = page /\ Segment' = Segment
  BY JWalkStart
<1>2. memory' = memory /\ virt' = virt /\ known' = known
  BY <1>1, QuietStep
<1>3. CASE NullTable
  <2>1. pc = "map" /\ pc' = "halted" /\ found' = found
    BY <1>1, <1>3, QuietStep
  <2>2. stage \in {"page", "stack"}
    BY <1>1, <2>1 DEF Control
  <2> QED BY <1>1, <1>2, <2>1, <2>2, JElsewhere
<1>4. CASE Found
  <2>1. pc = "get" /\ pc' = "idle" /\ found' = Leads(memory[Block(virt)][Tuple[virt][LEVELS]])
    BY <1>1, <1>4, QuietStep
  <2>2. stage = "looked" /\ virt = page /\ known
    BY <1>1, <2>1 DEF Control, LookedUp
  <2>3. found' \in BOOLEAN /\ (~found' => LeadsNowhere(memory, page))
    BY <2>1, <2>2 DEF Leads, LeadsNowhere
  <2>4. SegInv'
    BY <1>1, <1>2, <2>2, <2>3 DEF SegInv, Loading
  <2>5. LookedUp'
    BY <1>1, <1>2, <2>1, <2>2, <2>3 DEF LookedUp, Loading, LeadsNowhere
  <2> QED BY <2>4, <2>5
<1> QED BY <1>3, <1>4

LEMMA JSetLeaf ==
  ASSUME JInv, stage /= "overlap", SetLeaf, UNCHANGED <<page, frame>>, Goto(stage), stage' /= "overlap"
  PROVE  LookedUp' /\ SegInv'
<1>1. /\ IInv /\ VmmInv /\ Control /\ LookedUp /\ SegInv /\ (Loading => file \in Files /\ seg \in 1 .. Len(file.segs))
      /\ stage' = stage /\ file' = file /\ seg' = seg /\ page' = page /\ Segment' = Segment
  BY JWalkStart
<1>2. pc = "map" /\ pc' = "idle" /\ virt' = virt /\ known' = known /\ found' = found
  BY <1>1, SetLeafFacts
<1>3. CASE stage = "page" /\ Low(virt) /\ virt \in PagesOf(Segment) /\ Block(virt) \notin Held
  <2>1. /\ memory'[Block(virt)][Tuple[virt][LEVELS]] = Entry(new)
        /\ \A j \in Indices : j /= Tuple[virt][LEVELS] => memory'[Block(virt)][j] = memory[Block(virt)][j]
        /\ \A q : q /= Block(virt) => memory'[q] = memory[q]
    BY <1>1, <1>3, SetLowLeaf
  <2>2. file \in Files /\ seg \in 1 .. Len(file.segs) /\ virt \in PagesOf(file.segs[seg])
    BY <1>1, <1>3 DEF Loading, Segment
  <2>3. seg = 1 \/ LeadsNowhere(memory, virt)
    BY <1>1, <1>2, <1>3 DEF LookedUp
  <2>4. memory'[Block(virt)][Tuple[virt][LEVELS]].kind = "entry"
    BY <2>1 DEF Entry
  <2>5. Loaded(file, memory, seg)
    BY <1>1, <1>3 DEF SegInv, Loading
  <2>6. Loaded(file, memory', seg)
    BY <2>1, <2>2, <2>3, <2>4, <2>5, LoadedUnderEntry
  <2>7. SegInv'
    BY <1>1, <1>2, <1>3, <2>6 DEF SegInv, Loading
  <2>8. LookedUp'
    BY <1>1, <1>2, <1>3 DEF LookedUp, Loading
  <2> QED BY <2>7, <2>8
<1>4. CASE stage = "stack" /\ Own(virt)
  <2>1. \A q : q \notin TablesOf(memory) => memory'[q] = memory[q]
    BY <1>1, <1>4, SetOwnLeaf
  <2>2. \A q \in Place(file) : memory'[q] = memory[q]
    BY <1>1, <2>1, PlaceIsNoTable
  <2> QED BY <1>1, <1>2, <1>4, <2>2, JElsewhere
<1> QED BY <1>1, <1>3, <1>4, SetLeafWhere

LEMMA StepJInv == JInv /\ [Next]_vars => JInv'
<1> SUFFICES ASSUME JInv, [Next]_vars PROVE JInv'
  OBVIOUS
<1>1. IInv'
  BY StepIInv DEF JInv
<1>2. CASE UNCHANGED vars
  BY <1>1, <1>2 DEF JInv, LookedUp, SegInv, Loading, Segment, vars, vmmvars, loadervars
<1>3. ASSUME Next, stage' /= "overlap" PROVE LookedUp' /\ SegInv'
  <2>1. stage /= "overlap"
    BY <1>3 DEF Next
  <2>2. ASSUME NEW f \in Files, loader_exec_buffer(f) PROVE LookedUp' /\ SegInv'
    BY <1>3, <2>2, JCallOfShell
  <2>3. CASE Load
    BY <1>3, <2>1, <2>3, JLookUp, JKeepPage, JAllocPage, JAllocNull, JMapPage, JStack, JWork, JCopySegment DEF Load
  <2>4. CASE Walk /\ UNCHANGED <<page, frame>> /\ Goto(stage)
    BY <1>3, <2>1, <2>4, JDescend, JNewTable, JQuiet, JSetLeaf DEF Walk
  <2> QED BY <1>3, <2>2, <2>3, <2>4 DEF Next
<1> QED BY <1>1, <1>2, <1>3 DEF JInv

LEMMA SegmentsAre == JInv => SegmentsAsInFile
<1> SUFFICES ASSUME JInv, stage = "entry", NEW i \in 1 .. Len(file.segs), InFull(file, i), NEW a \in Cells(file.segs[i])
             PROVE  Contents(a) = InFile(file.segs[i], a) \/ Overwritten(i, a)
  BY DEF SegmentsAsInFile, InFull
<1>1. VmmInv /\ file \in Files /\ Loaded(file, memory, Len(file.segs) + 1)
  BY JStart DEF SegInv
<1>2. file.segs \in Seq(Segments)
  BY <1>1, FileFacts
<1>3. i < Len(file.segs) + 1
  BY <1>2
<1>4. AsIn(file, memory, i, a)
  BY <1>1, <1>3 DEF Loaded, LoadedWhole
<1>5. a \div CELLS \in VPages /\ Low(a \div CELLS)
  BY <1>1, FileFacts
<1>6. Contents(a) = memory[a \div CELLS][a % CELLS]
  BY <1>1, <1>5, LowWay, PhysicalIsIn DEF Contents, VmmInv
<1>7. FileWord(file, file.segs[i], a) = InFile(file.segs[i], a)
  BY DEF FileWord, InFile
<1> QED BY <1>4, <1>6, <1>7 DEF AsIn, Later, Overwritten

\* When a program is entered, what its file has of every segment is in memory,
\* the rest zero, but for the words over which the entry of a page of a later
\* segment was written (elf.c:41-57, paging.c:42-50).
THEOREM SegmentsStayAsInFile == Spec => []SegmentsAsInFile
BY JInit, StepJInv, SegmentsAre, PTL DEF Spec

-----------------------------------------------------------------------------

-----------------------------------------------------------------------------
(* What a path means, component by component.                               *)

Onward(h, p, k) == IF k = 0 THEN RootInode ELSE Step(h[k - 1], p[k])
Goes(p, n, h) == h = [k \in 0 .. n |-> Onward(h, p, k)]

LEMMA GoesAt ==
  ASSUME NEW p, NEW n \in Nat, NEW h, Goes(p, n, h), NEW k \in Nat, k <= n
  PROVE  h[k] = Onward(h, p, k)
<1>1. h = [j \in 0 .. n |-> Onward(h, p, j)]
  BY DEF Goes
<1>2. k \in 0 .. n
  OBVIOUS
<1>3. \A j \in 0 .. n : h[j] = Onward(h, p, j)
  BY <1>1, Zenon
<1> QED BY <1>2, <1>3

LEMMA GoesMore ==
  ASSUME NEW p, NEW n \in Nat, NEW h, Goes(p, n, h)
  PROVE  \E g : Goes(p, n + 1, g)
<1> DEFINE g == [k \in 0 .. n + 1 |-> IF k = n + 1 THEN Onward(h, p, n + 1) ELSE h[k]]
<1>1. \A k \in 0 .. n : h[k] = Onward(h, p, k) /\ g[k] = h[k]
  BY DEF Goes
<1>2. ASSUME NEW k \in 0 .. n + 1 PROVE Onward(g, p, k) = Onward(h, p, k)
  <2>1. k > 0 => g[k - 1] = h[k - 1]
    BY <1>1
  <2> QED BY <2>1 DEF Onward
<1>3. ASSUME NEW k \in 0 .. n + 1 PROVE g[k] = Onward(g, p, k)
  <2>1. CASE k = n + 1
    <3>1. g[k] = Onward(h, p, n + 1)
      BY <2>1
    <3> QED BY <2>1, <3>1, <1>2
  <2>2. CASE k /= n + 1
    <3>1. k \in 0 .. n
      BY <2>2
    <3> QED BY <3>1, <1>1, <1>2
  <2> QED BY <2>1, <2>2
<1> HIDE DEF g
<1>4. g = [k \in 0 .. n + 1 |-> g[k]]
  BY DEF g
<1>5. g = [k \in 0 .. n + 1 |-> Onward(g, p, k)]
  BY <1>3, <1>4
<1> QED BY <1>5 DEF Goes

LEMMA GoesAll == ASSUME NEW p, NEW n \in Nat PROVE \E h : Goes(p, n, h)
<1> DEFINE S == {m \in Nat : ~\E h : Goes(p, m, h)}
<1> SUFFICES ASSUME S /= {} PROVE FALSE
  OBVIOUS
<1>1. PICK m \in S : \A l \in S : m <= l
  BY LeastExists
<1>2. m /= 0
  <2> DEFINE h == [k \in 0 .. 0 |-> RootInode]
  <2>1. h = [k \in 0 .. 0 |-> Onward(h, p, k)]
    BY DEF Onward
  <2> QED BY <2>1 DEF Goes
<1>3. m - 1 \in Nat /\ m - 1 \notin S
  BY <1>1, <1>2
<1>4. \E h : Goes(p, m - 1, h)
  BY <1>3
<1>5. \E h : Goes(p, (m - 1) + 1, h)
  BY <1>3, <1>4, GoesMore
<1> QED BY <1>5

LEMMA GoesAgree ==
  ASSUME NEW p, NEW n \in Nat, NEW m \in Nat, NEW g, NEW h, Goes(p, n, g), Goes(p, m, h)
  PROVE  \A k \in Nat : k <= n /\ k <= m => g[k] = h[k]
<1> DEFINE S == {k \in Nat : k <= n /\ k <= m /\ g[k] /= h[k]}
<1> SUFFICES ASSUME S /= {} PROVE FALSE
  OBVIOUS
<1>1. PICK k \in S : \A l \in S : k <= l
  BY LeastExists
<1>2. g[k] = Onward(g, p, k) /\ h[k] = Onward(h, p, k)
  BY GoesAt
<1>3. k /= 0 => g[k - 1] = h[k - 1]
  BY <1>1
<1>4. Onward(g, p, k) = Onward(h, p, k)
  BY <1>3 DEF Onward
<1> QED BY <1>2, <1>4

LEMMA AlongDef ==
  ASSUME NEW p
  PROVE  Along(p)[0] = RootInode /\ \A k \in Nat : Along(p)[k + 1] = Step(Along(p)[k], p[k + 1])
<1> DEFINE B(n) == CHOOSE h : Goes(p, n, h)
           f == [k \in Nat |-> B(k)[k]]
<1>1. \A n \in Nat : Goes(p, n, B(n))
  BY GoesAll
<1>2. \A n, k \in Nat : k <= n => B(n)[k] = B(k)[k]
  BY <1>1, GoesAgree
<1>3. ASSUME NEW k \in Nat PROVE f[k] = Onward(f, p, k)
  <2>1. B(k)[k] = Onward(B(k), p, k)
    <3> HIDE DEF B, f
    <3>1. Goes(p, k, B(k))
      BY <1>1
    <3> QED BY <3>1, GoesAt
  <2>2. k > 0 => k - 1 \in Nat /\ B(k)[k - 1] = f[k - 1]
    BY <1>2
  <2> HIDE DEF B, f
  <2>3. Onward(B(k), p, k) = Onward(f, p, k)
    BY <2>2 DEF Onward
  <2>4. f[k] = B(k)[k]
    BY DEF f
  <2> QED BY <2>1, <2>3, <2>4
<1> DEFINE Good(h) == h = [k \in Nat |-> IF k = 0 THEN RootInode ELSE Step(h[k - 1], p[k])]
<1>4. Good(f)
  <2> HIDE DEF B, f
  <2>1. f = [k \in Nat |-> f[k]]
    BY DEF f
  <2> QED BY <1>3, <2>1 DEF Onward
<1> HIDE DEF B, f
<1>5. Good(Along(p))
  <2>1. Along(p) = CHOOSE h : Good(h)
    BY DEF Along
  <2> HIDE DEF Good
  <2> QED BY <1>4, <2>1
<1> DEFINE L == Along(p)
<1>6. L = [k \in Nat |-> IF k = 0 THEN RootInode ELSE Step(L[k - 1], p[k])]
  BY <1>5
<1> HIDE DEF L
<1>7. \A k \in Nat : L[k] = IF k = 0 THEN RootInode ELSE Step(L[k - 1], p[k])
  BY <1>6, Zenon
<1>8. L[0] = RootInode /\ \A k \in Nat : L[k + 1] = Step(L[(k + 1) - 1], p[k + 1])
  BY <1>7
<1> QED BY <1>8 DEF L

LEMMA LowestIn == ASSUME NEW S \in SUBSET Nat, S # {} PROVE Lowest(S) \in S
<1>1. \E k \in S : \A l \in S : k <= l
  BY LeastExists
<1> QED BY <1>1, Zenon DEF Lowest

LEMMA ImageFacts ==
  ASSUME image \in Images
  PROVE  DOMAIN image \subseteq Nat /\ (DOMAIN image # {} => RootInode \in DOMAIN image)
BY VFSAssumption

LEMMA StepIs ==
  ASSUME image \in Images, NEW k, NEW name
  PROVE  \/ Step(k, name) = Nothing
         \/ /\ k # Nothing /\ image[k].dir
            /\ Step(k, name) \in DOMAIN image /\ Step(k, name) # k /\ Step(k, name) # Nothing
<1> DEFINE K == IF k = Nothing \/ ~image[k].dir THEN {} ELSE {c \in Children(k) : image[c].name = name}
<1>1. Step(k, name) = IF K = {} THEN Nothing ELSE Lowest(K)
  BY DEF Step
<1>2. K \in SUBSET Nat /\ K \subseteq DOMAIN image /\ k \notin K
  BY ImageFacts DEF Children
<1>3. K # {} => k # Nothing /\ image[k].dir
  OBVIOUS
<1> HIDE DEF K
<1>4. K # {} => Lowest(K) \in K
  BY <1>2, LowestIn
<1>5. Nothing \notin K
  BY <1>2 DEF Nothing
<1> QED BY <1>1, <1>2, <1>3, <1>4, <1>5

LEMMA AlongIs ==
  ASSUME image \in Images, DOMAIN image # {}, NEW p
  PROVE  /\ \A k \in Nat : Along(p)[k] \in DOMAIN image \cup {Nothing}
         /\ \A j, k \in Nat : j <= k /\ Along(p)[j] = Nothing => Along(p)[k] = Nothing
<1> DEFINE a(k) == Along(p)[k]
<1>1. a(0) = RootInode /\ \A k \in Nat : a(k + 1) = Step(a(k), p[k + 1])
  BY AlongDef
<1> HIDE DEF a
<1>2. ASSUME NEW k \in Nat PROVE a(k) \in DOMAIN image \cup {Nothing}
  <2>1. CASE k = 0
    BY <1>1, <2>1, ImageFacts
  <2>2. CASE k # 0
    <3>1. k - 1 \in Nat /\ (k - 1) + 1 = k
      BY <2>2
    <3>2. a((k - 1) + 1) = Step(a(k - 1), p[(k - 1) + 1])
      BY <1>1, <3>1
    <3>3. a(k) = Step(a(k - 1), p[k])
      BY <3>1, <3>2
    <3> QED BY <3>3, StepIs
  <2> QED BY <2>1, <2>2
<1>3. ASSUME NEW j \in Nat, a(j) = Nothing PROVE \A k \in Nat : j <= k => a(k) = Nothing
  <2> DEFINE S == {k \in Nat : j <= k /\ a(k) # Nothing}
  <2> SUFFICES ASSUME S # {} PROVE FALSE
    OBVIOUS
  <2>1. PICK k \in S : \A l \in S : k <= l
    BY LeastExists
  <2>2. k > j /\ k \in Nat
    BY <1>3, <2>1
  <2>3. k - 1 \in Nat /\ a(k - 1) = Nothing
    BY <2>1, <2>2
  <2>4. a((k - 1) + 1) = Step(a(k - 1), p[(k - 1) + 1])
    BY <1>1, <2>3
  <2>5. a((k - 1) + 1) = Nothing
    BY <2>3, <2>4, StepIs
  <2>6. a(k) = Nothing
    BY <2>2, <2>5
  <2> QED BY <2>1, <2>6
<1>4. (\A k \in Nat : a(k) \in DOMAIN image \cup {Nothing})
      /\ \A j, k \in Nat : j <= k /\ a(j) = Nothing => a(k) = Nothing
  BY <1>2, <1>3
<1> QED BY <1>4 DEF a

\* What is left of a path after its first components.
IsPath(p) == \E S : p \in Seq(S)
Rest(p, j) == [i \in 1 .. Len(p) - j |-> p[j + i]]

LEMMA RestIs ==
  ASSUME NEW p, IsPath(p), NEW j \in Nat, j <= Len(p)
  PROVE  /\ Len(p) \in Nat /\ Rest(p, 0) = p /\ (Rest(p, j) = <<>> <=> j = Len(p))
         /\ j < Len(p) => Head(Rest(p, j)) = p[j + 1] /\ Tail(Rest(p, j)) = Rest(p, j + 1)
<1>1. PICK S : p \in Seq(S)
  BY DEF IsPath
<1>2. Len(p) \in Nat /\ p = [i \in 1 .. Len(p) |-> p[i]] /\ \A i \in 1 .. Len(p) : p[i] \in S
  BY <1>1
<1>3. Rest(p, 0) = p
  BY <1>2 DEF Rest
<1>4. Rest(p, j) \in Seq(S) /\ Len(Rest(p, j)) = Len(p) - j
  BY <1>2 DEF Rest
<1>5. Rest(p, j) = <<>> <=> j = Len(p)
  BY <1>2, <1>4
<1>6. ASSUME j < Len(p)
      PROVE  Head(Rest(p, j)) = p[j + 1] /\ Tail(Rest(p, j)) = Rest(p, j + 1)
  <2>1. Head(Rest(p, j)) = Rest(p, j)[1] /\ Rest(p, j)[1] = p[j + 1]
    BY <1>2, <1>4, <1>6 DEF Rest
  <2>2. PICK r \in Seq(S) : r = Rest(p, j)
    BY <1>4
  <2>21. Len(r) \in Nat /\ Len(r) >= 1 /\ Len(r) = Len(p) - j
    BY <1>2, <1>4, <1>6, <2>2
  <2>22. Tail(r) \in Seq(S) /\ Len(Tail(r)) = Len(r) - 1 /\ \A i \in 1 .. Len(r) - 1 : Tail(r)[i] = r[i + 1]
    BY <2>21
  <2>23. Tail(r) = [i \in 1 .. Len(r) - 1 |-> Tail(r)[i]]
    <3>1. PICK t \in Seq(S) : t = Tail(r)
      BY <2>22
    <3>2. t = [i \in 1 .. Len(t) |-> t[i]]
      OBVIOUS
    <3> QED BY <2>22, <3>1, <3>2
  <2>24. Tail(r) = [i \in 1 .. Len(r) - 1 |-> r[i + 1]]
    BY <2>22, <2>23
  <2>3. \A i \in 1 .. Len(p) - j - 1 : Rest(p, j)[i + 1] = p[(j + 1) + i]
    BY <1>2, <1>6 DEF Rest
  <2>4. Tail(Rest(p, j)) = [i \in 1 .. Len(p) - j - 1 |-> p[(j + 1) + i]]
    BY <1>2, <1>4, <2>2, <2>21, <2>24, <2>3
  <2>5. Len(p) - (j + 1) = Len(p) - j - 1
    BY <1>2
  <2> QED BY <2>1, <2>4, <2>5 DEF Rest
<1> QED BY <1>2, <1>3, <1>5, <1>6

-----------------------------------------------------------------------------
(* Nodes.                                                                   *)

IsNode(r) ==
  r = [fs |-> r.fs, name |-> r.name, flags |-> r.flags, ops |-> r.ops,
       inode |-> r.inode, length |-> r.length, ptr |-> r.ptr, kids |-> r.kids]
IsNodes(ns) == (\E S : ns \in Seq(S)) /\ \A n \in 1 .. Len(ns) : IsNode(ns[n])

\* Only devices are added, and nothing changes but children and names.
Same(r, s) == r.fs = s.fs /\ r.inode = s.inode /\ r.flags = s.flags /\ r.ops = s.ops /\ r.ptr = s.ptr
Grows(ns, ms) ==
  /\ IsNodes(ms) /\ Len(ns) <= Len(ms)
  /\ \A n \in 1 .. Len(ns) : Same(ns[n], ms[n])
  /\ \A n \in 1 .. Len(ms) : n > Len(ns) => ms[n].fs = "dev"

LEMMA LenNodes == ASSUME NEW ns, IsNodes(ns) PROVE Len(ns) \in Nat /\ DOMAIN ns = 1 .. Len(ns)
BY DEF IsNodes

LEMMA AppendNode ==
  ASSUME NEW ns, IsNodes(ns), NEW r, IsNode(r)
  PROVE  /\ IsNodes(Append(ns, r)) /\ Len(Append(ns, r)) = Len(ns) + 1
         /\ Append(ns, r)[Len(ns) + 1] = r /\ \A n \in 1 .. Len(ns) : Append(ns, r)[n] = ns[n]
<1>1. PICK S : ns \in Seq(S)
  BY DEF IsNodes
<1>2. ns \in Seq(S \cup {r}) /\ Len(ns) \in Nat
  BY <1>1
<1>3. /\ Append(ns, r) \in Seq(S \cup {r}) /\ Len(Append(ns, r)) = Len(ns) + 1
      /\ Append(ns, r)[Len(ns) + 1] = r /\ \A n \in 1 .. Len(ns) : Append(ns, r)[n] = ns[n]
  BY <1>2
<1>4. ASSUME NEW n \in 1 .. Len(ns) + 1 PROVE IsNode(Append(ns, r)[n])
  <2>1. CASE n = Len(ns) + 1
    BY <1>3, <2>1
  <2>2. CASE n # Len(ns) + 1
    <3>1. n \in 1 .. Len(ns)
      BY <1>2, <2>2
    <3> QED BY <1>3, <3>1 DEF IsNodes
  <2> QED BY <2>1, <2>2
<1> QED BY <1>3, <1>4 DEF IsNodes

LEMMA AppendGrows ==
  ASSUME NEW ns, IsNodes(ns), NEW r, IsNode(r), r.fs = "dev"
  PROVE  Grows(ns, Append(ns, r))
<1>1. Len(ns) \in Nat
  BY LenNodes
<1> QED BY <1>1, AppendNode DEF Grows, Same

LEMMA KidGrows ==
  ASSUME NEW ns, IsNodes(ns), NEW parent, NEW child
  PROVE  Grows(ns, AddChild(ns, parent, child))
<1> DEFINE ms == [ns EXCEPT ![parent].kids = Append(@, child)]
<1>1. PICK S : ns \in Seq(S)
  BY DEF IsNodes
<1>2. Len(ns) \in Nat /\ DOMAIN ns = 1 .. Len(ns) /\ \A n \in 1 .. Len(ns) : IsNode(ns[n])
  BY LenNodes DEF IsNodes
<1>3. Grows(ns, ns)
  BY <1>2 DEF Grows, IsNodes, Same
<1>4. Grows(ns, ms)
  <2> DEFINE kids == Append(ns[parent].kids, child)
             r == [ns[parent] EXCEPT !.kids = kids]
  <2>1. CASE parent \notin 1 .. Len(ns)
    <3>1. ms = ns
      BY <1>1, <1>2, <2>1
    <3> QED BY <1>3, <3>1
  <2>2. CASE parent \in 1 .. Len(ns)
    <3>1. ms = [ns EXCEPT ![parent] = r]
      OBVIOUS
    <3> HIDE DEF kids
    <3>2. IsNode(r) /\ Same(ns[parent], r)
      <4>1. IsNode(ns[parent])
        BY <1>2, <2>2
      <4> QED BY <4>1 DEF IsNode, Same
    <3> HIDE DEF r, ms
    <3>3. ms \in Seq(S \cup {r}) /\ Len(ms) = Len(ns) /\ \A n \in 1 .. Len(ns) : ms[n] = IF n = parent THEN r ELSE ns[n]
      BY <1>1, <1>2, <2>2, <3>1
    <3>4. \A n \in 1 .. Len(ns) : IsNode(ms[n]) /\ Same(ns[n], ms[n])
      BY <1>2, <3>2, <3>3 DEF Same
    <3> QED BY <1>2, <3>3, <3>4 DEF Grows, IsNodes
  <2> QED BY <2>1, <2>2
<1> QED BY <1>3, <1>4 DEF AddChild

LEMMA GrowsOn ==
  ASSUME NEW ns, NEW ms, NEW ls, IsNodes(ns), Grows(ns, ms), Grows(ms, ls)
  PROVE  Grows(ns, ls)
<1>1. Len(ns) \in Nat /\ Len(ms) \in Nat /\ Len(ls) \in Nat
  BY LenNodes DEF Grows
<1>2. \A n \in 1 .. Len(ns) : Same(ns[n], ls[n])
  BY <1>1 DEF Grows, Same
<1>3. \A n \in 1 .. Len(ls) : n > Len(ns) => ls[n].fs = "dev"
  BY <1>1 DEF Grows, Same
<1> QED BY <1>1, <1>2, <1>3 DEF Grows

LEMMA RegisteredGrows ==
  ASSUME IsNodes(nodes), NEW r
  PROVE  Grows(nodes, Registered(r))
<1> DEFINE folder == IF Len(r.path) = 1 THEN dev_root ELSE Folder(nodes, r.path[1])
           dir == DevNode(r.path[1], VFS_DIRECTORY, {})
           ns == IF folder # NULL THEN nodes ELSE AddChild(Append(nodes, dir), dev_root, Len(nodes) + 1)
           parent == IF folder # NULL THEN folder ELSE Len(ns)
           dev == DevNode(r.path[Len(r.path)], r.flags, r.ops)
<1>1. IsNode(dir) /\ dir.fs = "dev" /\ IsNode(dev) /\ dev.fs = "dev"
  BY DEF DevNode, Node, IsNode
<1>2. Registered(r) = AddChild(Append(ns, dev), parent, Len(ns) + 1)
  BY DEF Registered
<1> HIDE DEF dir, dev, folder
<1>3. Grows(nodes, nodes)
  BY LenNodes DEF Grows, Same
<1>4. Grows(nodes, ns)
  <2>1. Grows(nodes, Append(nodes, dir)) /\ IsNodes(Append(nodes, dir))
    BY <1>1, AppendGrows DEF Grows
  <2>2. Grows(Append(nodes, dir), AddChild(Append(nodes, dir), dev_root, Len(nodes) + 1))
    BY <2>1, KidGrows
  <2>3. Grows(nodes, AddChild(Append(nodes, dir), dev_root, Len(nodes) + 1))
    BY <2>1, <2>2, GrowsOn
  <2> QED BY <1>3, <2>3
<1> HIDE DEF ns, parent
<1>5. Grows(ns, Append(ns, dev)) /\ IsNodes(Append(ns, dev))
  BY <1>1, <1>4, AppendGrows DEF Grows
<1>6. Grows(Append(ns, dev), AddChild(Append(ns, dev), parent, Len(ns) + 1))
  BY <1>5, KidGrows
<1>7. Grows(nodes, Append(ns, dev))
  BY <1>4, <1>5, GrowsOn
<1>8. Grows(nodes, AddChild(Append(ns, dev), parent, Len(ns) + 1))
  BY <1>6, <1>7, GrowsOn
<1> QED BY <1>2, <1>8

-----------------------------------------------------------------------------
(* Lookups.                                                                 *)

OfDisk(im, r) ==
  /\ r.inode \in DOMAIN im
  /\ r.flags = (IF im[r.inode].dir THEN VFS_DIRECTORY ELSE VFS_FILE)
  /\ r.ops = (IF im[r.inode].dir THEN DirOps ELSE {"read"})
NodesInv ==
  /\ image \in Images /\ IsNodes(nodes)
  /\ \A n \in 1 .. Len(nodes) : nodes[n].fs = "disk" => OfDisk(image, nodes[n])

\* Where a lookup may stand: nothing is mounted on a node it comes to.
Standing(n) ==
  /\ n \in 1 .. Len(nodes) /\ nodes[n].ptr = NULL
  /\ root_mounted => nodes[n].fs = "disk"
  /\ ~root_mounted => n = vfs_root /\ nodes[n].fs = "mem" /\ nodes[n].ops = {}
RootInv ==
  /\ Standing(vfs_root)
  /\ root_mounted => nodes[vfs_root].inode = RootInode /\ DOMAIN image # {}
OnWay(j) ==
  /\ j \in Nat /\ j <= Len(want) /\ path = Rest(want, j) /\ Standing(current)
  /\ root_mounted => nodes[current].inode = Along(want)[j]
  /\ ~root_mounted => j = 0
Answered ==
  /\ root_mounted => IF result = NULL THEN Resolve(want) = Nothing
                     ELSE /\ result \in 1 .. Len(nodes) /\ nodes[result].fs = "disk"
                          /\ nodes[result].inode = Resolve(want)
  /\ ~root_mounted => result = NULL \/ (want = <<>> /\ result = vfs_root)

LEMMA Grown ==
  ASSUME NodesInv, Grows(nodes, nodes'), UNCHANGED image
  PROVE  /\ NodesInv'
         /\ UNCHANGED <<vfs_root, root_mounted>> => \A n : Standing(n) => Standing(n)'
         /\ RootInv /\ UNCHANGED <<vfs_root, root_mounted>> => RootInv'
<1>1. Len(nodes) \in Nat /\ Len(nodes') \in Nat /\ Len(nodes) <= Len(nodes')
  BY LenNodes DEF NodesInv, Grows
<1>2. ASSUME NEW n \in 1 .. Len(nodes'), nodes'[n].fs = "disk" PROVE OfDisk(image', nodes'[n])
  <2>1. n \in 1 .. Len(nodes)
    BY <1>1, <1>2 DEF Grows
  <2> QED BY <1>2, <2>1 DEF Grows, Same, NodesInv, OfDisk
<1>3. NodesInv'
  BY <1>2 DEF NodesInv, Grows
<1>4. ASSUME UNCHANGED <<vfs_root, root_mounted>>, NEW n, Standing(n) PROVE Standing(n)'
  BY <1>1, <1>4 DEF Standing, Grows, Same
<1>5. ASSUME RootInv, UNCHANGED <<vfs_root, root_mounted>> PROVE RootInv'
  BY <1>1, <1>4, <1>5 DEF RootInv, Standing, Grows, Same
<1> QED BY <1>3, <1>4, <1>5

\* A disk node is added.
LEMMA DiskNodeIs ==
  ASSUME image \in Images, NEW k \in DOMAIN image
  PROVE  /\ IsNode(DiskNode(k)) /\ DiskNode(k).fs = "disk" /\ DiskNode(k).inode = k
         /\ DiskNode(k).ptr = NULL /\ OfDisk(image, DiskNode(k))
BY DEF DiskNode, Node, IsNode, OfDisk

LEMMA DiskAdded ==
  ASSUME NodesInv, NEW k \in DOMAIN image, nodes' = Append(nodes, DiskNode(k)), UNCHANGED image
  PROVE  /\ NodesInv' /\ Len(nodes') = Len(nodes) + 1 /\ Len(nodes) \in Nat
         /\ nodes'[Len(nodes) + 1].fs = "disk" /\ nodes'[Len(nodes) + 1].inode = k
         /\ nodes'[Len(nodes) + 1].ptr = NULL
         /\ \A n \in 1 .. Len(nodes) : nodes'[n] = nodes[n]
<1>1. image \in Images /\ IsNodes(nodes) /\ Len(nodes) \in Nat
  BY LenNodes DEF NodesInv
<1>2. PICK r : r = DiskNode(k)
  OBVIOUS
<1>3. IsNode(r) /\ r.fs = "disk" /\ r.inode = k /\ r.ptr = NULL /\ OfDisk(image, r)
  BY <1>1, <1>2, DiskNodeIs
<1>4. /\ IsNodes(nodes') /\ Len(nodes') = Len(nodes) + 1
      /\ nodes'[Len(nodes) + 1] = r /\ \A n \in 1 .. Len(nodes) : nodes'[n] = nodes[n]
  BY <1>1, <1>2, <1>3, AppendNode
<1>5. ASSUME NEW n \in 1 .. Len(nodes'), nodes'[n].fs = "disk" PROVE OfDisk(image', nodes'[n])
  <2>1. CASE n = Len(nodes) + 1
    BY <1>3, <1>4, <2>1 DEF OfDisk
  <2>2. CASE n # Len(nodes) + 1
    <3>1. n \in 1 .. Len(nodes) /\ nodes'[n] = nodes[n]
      BY <1>1, <1>4, <2>2
    <3> QED BY <1>5, <3>1 DEF NodesInv, OfDisk
  <2> QED BY <2>1, <2>2
<1>6. NodesInv'
  BY <1>1, <1>4, <1>5 DEF NodesInv
<1> QED BY <1>1, <1>3, <1>4, <1>6

\* What vfs_finddir finds is what the path means.
LEMMA ComponentIs ==
  ASSUME NodesInv, RootInv, root_mounted, IsPath(want), NEW j, OnWay(j), path # <<>>
  PROVE  LET s == Step(Along(want)[j], want[j + 1]) IN
         \/ s = Nothing /\ Component.ns = nodes /\ Component.found = NULL
         \/ s \in DOMAIN image /\ Component.ns = Append(nodes, DiskNode(s)) /\ Component.found = Len(nodes) + 1
<1> DEFINE k == nodes[current].inode
           name == Head(path)
           K == Match(current, name)
<1>1. j \in Nat /\ j < Len(want) /\ name = want[j + 1] /\ k = Along(want)[j]
  BY RestIs DEF OnWay
<1>2. current \in 1 .. Len(nodes) /\ nodes[current].fs = "disk" /\ Follow(current) = current
  BY DEF OnWay, Standing, Follow
<1>3. OfDisk(image, nodes[current]) /\ image \in Images
  BY <1>2 DEF NodesInv
<1>4. Component = Finddir(current, name)
  BY <1>2 DEF Component
<1>5. k \in DOMAIN image /\ k # Nothing
  BY <1>3, ImageFacts DEF OfDisk, Nothing
<1>6. (IsDir(current) /\ "finddir" \in nodes[current].ops) <=> image[k].dir
  BY <1>3 DEF OfDisk, IsDir, VFS_DIRECTORY, VFS_FILE, DirOps
<1>7. K = {c \in Children(k) : image[c].name = name} /\ K \in SUBSET Nat /\ K \subseteq DOMAIN image
  BY <1>3, ImageFacts DEF Match, Children
<1>8. Step(k, name) = IF ~image[k].dir \/ K = {} THEN Nothing ELSE Lowest(K)
  BY <1>5, <1>7 DEF Step
<1>9. CASE ~image[k].dir \/ K = {}
  <2>1. Component = [ns |-> nodes, found |-> NULL]
    BY <1>2, <1>4, <1>6, <1>9 DEF Finddir
  <2> QED BY <1>1, <1>8, <1>9, <2>1
<1>10. CASE image[k].dir /\ K # {}
  <2>1. Component = [ns |-> Append(nodes, DiskNode(Lowest(K))), found |-> Len(nodes) + 1]
    BY <1>2, <1>4, <1>6, <1>10 DEF Finddir
  <2>2. Lowest(K) \in K
    BY <1>7, <1>10, LowestIn
  <2>3. Step(k, name) = Lowest(K) /\ Lowest(K) \in DOMAIN image
    BY <1>7, <1>8, <1>10, <2>2
  <2> QED BY <1>1, <2>1, <2>3
<1> QED BY <1>9, <1>10

LEMMA LookupStepWalks ==
  ASSUME NodesInv, RootInv, IsPath(want), NEW j, OnWay(j), LookupStep
  PROVE  /\ NodesInv' /\ RootInv' /\ want' = want /\ caller' = caller
         /\ \/ doing' = "lookup" /\ \E i : OnWay(i)'
            \/ doing' = "answer" /\ Answered'
<1>1. path # <<>> /\ doing = "lookup" /\ nodes' = Component.ns
      /\ UNCHANGED <<image, vfs_root, root_mounted, want, caller>>
  BY DEF LookupStep, Answer
<1>2. CASE Component.found = NULL /\ Component.ns = nodes
  <2>1. nodes' = nodes /\ doing' = "answer" /\ result' = NULL
    BY <1>1, <1>2 DEF LookupStep, Answer
  <2>2. NodesInv' /\ RootInv'
    BY <1>1, <2>1 DEF NodesInv, RootInv, Standing, OfDisk
  <2>3. ASSUME root_mounted PROVE Resolve(want) = Nothing
    <3>1. j \in Nat /\ j < Len(want) /\ Len(want) \in Nat
      BY <1>1, RestIs DEF OnWay
    <3>2. Component.found # Len(nodes) + 1
      BY <1>2, LenNodes DEF NodesInv, NULL
    <3>3. Step(Along(want)[j], want[j + 1]) = Nothing
      BY <1>1, <2>3, <3>2, ComponentIs
    <3>4. Along(want)[j + 1] = Nothing
      BY <3>1, <3>3, AlongDef
    <3> QED BY <2>3, <3>1, <3>4, AlongIs DEF Resolve, NodesInv, RootInv
  <2>4. Resolve(want)' = Resolve(want)
    BY <1>1 DEF Resolve, Along, Step, Children
  <2> QED BY <1>1, <2>1, <2>2, <2>3, <2>4 DEF Answered
<1>3. CASE ~(Component.found = NULL /\ Component.ns = nodes)
  <2>1. root_mounted
    <3>1. SUFFICES ASSUME ~root_mounted PROVE FALSE
      OBVIOUS
    <3>2. Follow(current) = current /\ nodes[current].ops = {}
      BY <3>1 DEF OnWay, Standing, Follow
    <3>3. Component = [ns |-> nodes, found |-> NULL]
      BY <3>2 DEF Component, Finddir
    <3> QED BY <1>3, <3>3
  <2> DEFINE s == Step(Along(want)[j], want[j + 1])
  <2>2. s \in DOMAIN image /\ nodes' = Append(nodes, DiskNode(s)) /\ Component.found = Len(nodes) + 1
    BY <1>1, <1>3, <2>1, ComponentIs
  <2>3. j \in Nat /\ j < Len(want) /\ Len(want) \in Nat /\ Tail(path) = Rest(want, j + 1)
    BY <1>1, RestIs DEF OnWay
  <2>4. s = Along(want)[j + 1]
    BY <2>3, AlongDef
  <2> HIDE DEF s
  <2>5. /\ NodesInv' /\ Len(nodes') = Len(nodes) + 1 /\ Len(nodes) \in Nat
        /\ nodes'[Len(nodes) + 1].fs = "disk" /\ nodes'[Len(nodes) + 1].inode = s
        /\ nodes'[Len(nodes) + 1].ptr = NULL /\ \A n \in 1 .. Len(nodes) : nodes'[n] = nodes[n]
    BY <1>1, <2>2, DiskAdded
  <2>6. doing' = "lookup" /\ current' = Len(nodes) + 1 /\ path' = Rest(want, j + 1)
    <3>1. Component.found # NULL
      BY <2>2, <2>5 DEF NULL
    <3>2. current' = Component.found /\ path' = Tail(path) /\ doing' = doing
      BY <3>1 DEF LookupStep
    <3> QED BY <1>1, <2>2, <2>3, <3>2
  <2>7. RootInv'
    BY <1>1, <2>1, <2>5 DEF RootInv, Standing
  <2>8. Along(want)' = Along(want) /\ Rest(want, j + 1)' = Rest(want, j + 1)
    BY <1>1 DEF Along, Step, Children, Rest
  <2>9. Standing(current)' /\ nodes'[current'].inode = s /\ root_mounted'
    BY <1>1, <2>1, <2>5, <2>6 DEF Standing
  <2>10. OnWay(j + 1)'
    BY <1>1, <2>3, <2>4, <2>6, <2>8, <2>9 DEF OnWay
  <2> QED BY <1>1, <2>5, <2>6, <2>7, <2>10
<1> QED BY <1>2, <1>3

LEMMA LookupEndAnswers ==
  ASSUME NodesInv, RootInv, IsPath(want), NEW j, OnWay(j), LookupEnd
  PROVE  /\ NodesInv' /\ RootInv' /\ want' = want /\ caller' = caller /\ doing' = "answer" /\ Answered'
<1>1. path = <<>> /\ UNCHANGED <<image, nodes, vfs_root, root_mounted, want, caller>> /\ doing' = "answer"
      /\ result' = (IF want = <<>> THEN vfs_root ELSE Follow(current))
  BY DEF LookupEnd, Answer
<1>2. NodesInv' /\ RootInv'
  BY <1>1 DEF NodesInv, RootInv, Standing, OfDisk
<1>3. j = Len(want) /\ Len(want) \in Nat /\ Follow(current) = current
  BY <1>1, RestIs DEF OnWay, Follow, Standing
<1>4. want = <<>> => Along(want)[Len(want)] = RootInode /\ Len(want) = 0
  BY AlongDef
<1>5. want # <<>> => Len(want) # 0
  BY DEF IsPath
<1>6. Resolve(want)' = Resolve(want)
  BY <1>1 DEF Resolve, Along, Step, Children
<1>7. result' = vfs_root \/ (result' = current /\ want # <<>>)
  BY <1>1, <1>3
<1>8. result' \in 1 .. Len(nodes) /\ Len(nodes) \in Nat /\ result' # NULL
  BY <1>7, LenNodes DEF RootInv, OnWay, Standing, NULL, NodesInv
<1>9. ASSUME root_mounted PROVE nodes[result'].fs = "disk" /\ nodes[result'].inode = Resolve(want)
  BY <1>1, <1>3, <1>4, <1>9 DEF RootInv, OnWay, Standing, Resolve
<1>10. ASSUME ~root_mounted PROVE want = <<>> /\ result' = vfs_root
  BY <1>1, <1>3, <1>5, <1>10 DEF OnWay
<1>11. Answered'
  BY <1>1, <1>6, <1>8, <1>9, <1>10 DEF Answered
<1> QED BY <1>1, <1>2, <1>11

LEMMA StartWalks ==
  ASSUME NodesInv, RootInv, NEW who, NEW p, IsPath(p), StartLookup(who, p),
         UNCHANGED <<image, nodes, vfs_root, root_mounted>>
  PROVE  NodesInv' /\ RootInv' /\ IsPath(want)' /\ OnWay(0)'
<1>1. want' = p /\ path' = p /\ current' = vfs_root
  BY DEF StartLookup
<1>2. NodesInv' /\ RootInv'
  BY DEF NodesInv, RootInv, Standing
<1>3. 0 <= Len(p) /\ Rest(p, 0) = p
  BY DEF IsPath, Rest
<1>4. Along(want)[0]' = RootInode
  <2>1. \A q : Along(q)[0] = RootInode
    BY AlongDef
  <2>2. \A q : Along(q)' = Along(q)
    BY DEF Along, Step, Children
  <2> QED BY <2>1, <2>2
<1>5. OnWay(0)'
  <2>1. Rest(want, 0)' = p /\ Len(want)' = Len(p)
    BY <1>1, <1>3 DEF Rest
  <2> QED BY <1>1, <1>2, <1>3, <1>4, <2>1 DEF OnWay, RootInv
<1> QED BY <1>1, <1>2, <1>5 DEF IsPath

LEMMA SamePlace ==
  ASSUME UNCHANGED <<image, nodes, vfs_root, root_mounted>>
  PROVE  /\ NodesInv' = NodesInv /\ RootInv' = RootInv
         /\ \A t \in DOMAIN InitPaths : Present(t)' = Present(t)
         /\ UNCHANGED <<want, result>> => Answered' = Answered
         /\ UNCHANGED <<want, path, current>> => \A j : OnWay(j)' = OnWay(j)
<1>1. NodesInv' = NodesInv /\ RootInv' = RootInv /\ \A n : Standing(n)' = Standing(n)
  BY DEF NodesInv, RootInv, Standing
<1>2. \A p : Along(p)' = Along(p)
  BY DEF Along, Step, Children
<1>3. \A p : Resolve(p)' = Resolve(p)
  BY <1>2 DEF Resolve
<1>4. \A t \in DOMAIN InitPaths : Present(t)' = Present(t)
  BY <1>3 DEF Present, InitPaths
<1>5. UNCHANGED <<want, result>> => Answered' = Answered
  BY <1>3 DEF Answered
<1>6. UNCHANGED <<want, path, current>> => \A j : OnWay(j)' = OnWay(j)
  BY <1>1, <1>2 DEF OnWay, Rest
<1> QED BY <1>1, <1>4, <1>5, <1>6

LEMMA PairIsPath ==
  ASSUME NEW a, NEW b PROVE IsPath(<<a, b>>) /\ <<a, b>> # <<>>
<1>1. <<a, b>> \in Seq({a, b})
  OBVIOUS
<1>2. Len(<<a, b>>) = 2 /\ Len(<<>>) = 0
  OBVIOUS
<1> QED BY <1>1, <1>2 DEF IsPath

LEMMA InitPathsAre ==
  /\ DOMAIN InitPaths = 1 .. 3 /\ Len(InitPaths) = 3
  /\ \A t \in 1 .. 3 : IsPath(InitPaths[t]) /\ InitPaths[t] # <<>>
<1>1. DOMAIN InitPaths = 1 .. 3 /\ Len(InitPaths) = 3
  BY DEF InitPaths
<1>2. InitPaths[1] = <<"sbin", "main">> /\ InitPaths[2] = <<"bin", "main">> /\ InitPaths[3] = <<"sbin", "main.jex">>
  BY DEF InitPaths
<1>3. ASSUME NEW t \in 1 .. 3 PROVE \E a, b : InitPaths[t] = <<a, b>>
  <2>1. t = 1 \/ t = 2 \/ t = 3
    OBVIOUS
  <2> QED BY <1>2, <2>1, Zenon
<1>4. ASSUME NEW t \in 1 .. 3 PROVE IsPath(InitPaths[t]) /\ InitPaths[t] # <<>>
  BY <1>3, PairIsPath, Zenon
<1> QED BY <1>1, <1>4

\* devfs is mounted on a node that only that lookup found, never on the root.
LEMMA MountKeepsRoot ==
  ASSUME NodesInv, RootInv, Answered, want = <<"dev">>, DevMounted
  PROVE  NodesInv' /\ RootInv'
<1>1. UNCHANGED <<image, vfs_root, root_mounted>>
      /\ nodes' = (IF result = NULL THEN nodes ELSE [nodes EXCEPT ![result].ptr = dev_root])
  BY DEF DevMounted
<1>2. CASE result = NULL
  BY <1>1, <1>2 DEF NodesInv, RootInv, Standing
<1>3. CASE result # NULL
  <2>1. root_mounted /\ result \in 1 .. Len(nodes) /\ nodes[result].fs = "disk"
        /\ nodes[result].inode = Resolve(want)
    BY <1>3 DEF Answered
  <2>2. result # vfs_root
    <3>1. Len(want) = 1 /\ Resolve(want) = Along(want)[0 + 1]
      BY DEF Resolve
    <3>2. Along(want)[0] = RootInode /\ Along(want)[0 + 1] = Step(Along(want)[0], want[0 + 1])
      BY AlongDef
    <3>3. Resolve(want) # RootInode
      <4>1. Step(RootInode, want[0 + 1]) # RootInode
        BY StepIs DEF NodesInv, Nothing, RootInode
      <4> QED BY <3>1, <3>2, <4>1
    <3> QED BY <2>1, <3>3 DEF RootInv
  <2> DEFINE r == [nodes[result] EXCEPT !.ptr = dev_root]
  <2>3. PICK S : nodes \in Seq(S)
    BY DEF NodesInv, IsNodes
  <2>4. IsNode(r) /\ r.fs = "disk" /\ r.inode = nodes[result].inode /\ r.flags = nodes[result].flags
        /\ r.ops = nodes[result].ops
    <3>1. IsNode(nodes[result])
      BY <2>1 DEF NodesInv, IsNodes
    <3> QED BY <2>1, <3>1 DEF IsNode
  <2>5. nodes' = [nodes EXCEPT ![result] = r]
    BY <1>1, <1>3
  <2> HIDE DEF r
  <2>6. nodes' \in Seq(S \cup {r}) /\ Len(nodes') = Len(nodes)
        /\ \A n \in 1 .. Len(nodes) : nodes'[n] = IF n = result THEN r ELSE nodes[n]
    BY <2>1, <2>3, <2>5
  <2>7. IsNodes(nodes')
    BY <2>4, <2>6 DEF NodesInv, IsNodes
  <2>8. \A n \in 1 .. Len(nodes) : nodes'[n].fs = "disk" => OfDisk(image, nodes'[n])
    BY <2>1, <2>4, <2>6 DEF NodesInv, OfDisk
  <2>9. NodesInv'
    BY <1>1, <2>6, <2>7, <2>8 DEF NodesInv
  <2> QED BY <1>1, <2>1, <2>2, <2>6, <2>9 DEF RootInv, Standing
<1> QED BY <1>2, <1>3

-----------------------------------------------------------------------------
(* The kernel from boot to the shell.                                       *)

Commands == {"ls", "cat", "exec", "run", "bin"}
Looking == doing \in {"lookup", "answer"}
Executing == doing \in {"exec", "running"}
Early == doing \in {"pci_scan", "vfs_init"}
Booting == Early \/ doing \in {"devfs_init", "register", "module"} \/ (Looking /\ caller = "mount")
Trying == doing = "init" \/ ((Looking \/ Executing) /\ caller = "init")
AtPrompt == doing \in {"shell", "list", "cat"} \/ ((Looking \/ Executing \/ doing = "returned") /\ caller \in Commands)

PlaceInv ==
  /\ NodesInv
  /\ Early => ~root_mounted
  /\ ~Early /\ doing # "panic" => RootInv
  /\ doing = "lookup" => IsPath(want) /\ \E j : OnWay(j)
  /\ doing = "answer" \/ Executing => Answered
  /\ Executing => result # NULL
  /\ doing = "running" => "read" \in nodes[result].ops
BootInv ==
  /\ doing = "panic" \/ Booting \/ Trying \/ AtPrompt \/ (doing = "returned" /\ caller = "init")
  /\ doing = "answer" /\ caller = "run" => IsPath(want)
  /\ Booting => try = 1
  /\ doing = "module" => ~root_mounted
  /\ Looking /\ caller = "mount" => want = <<"dev">>
  /\ Trying \/ AtPrompt => DOMAIN image = {} \/ root_mounted
  /\ Trying => try \in 1 .. 3 /\ \A t \in 1 .. 3 : t < try => ~Present(t)
  /\ Trying /\ doing # "init" => want = InitPaths[try]
  /\ AtPrompt => \A t \in 1 .. 3 : ~Present(t)
BootedInv == PlaceInv /\ BootInv

LEMMA VFSInitInv == ASSUME VFSInit PROVE BootedInv
<1>1. nodes = <<>> /\ image \in Images /\ ~root_mounted /\ doing = "pci_scan" /\ try = 1 /\ caller = "none"
  BY DEF VFSInit
<1>2. NodesInv
  <2>1. nodes \in Seq({}) /\ Len(nodes) = 0
    BY <1>1
  <2> QED BY <1>1, <2>1 DEF NodesInv, IsNodes
<1> QED BY <1>1, <1>2 DEF BootedInv, PlaceInv, BootInv, Early, Booting, Trying, AtPrompt, Looking, Executing

LEMMA BuildStep ==
  ASSUME BootedInv, pci_scan \/ vfs_init \/ devfs_init \/ devfs_register \/ MountDisk
  PROVE  BootedInv'
<1> USE DEF Early, Looking, Executing, Booting, Trying, AtPrompt, Commands
<1>0. NodesInv /\ image' = image
  BY DEF BootedInv, PlaceInv, pci_scan, vfs_init, devfs_init, devfs_register, MountDisk
<1>1. CASE pci_scan
  <2>1. doing = "pci_scan" /\ doing' \in {"pci_scan", "vfs_init"} /\ try' = try
        /\ UNCHANGED <<image, nodes, vfs_root, root_mounted>>
    BY <1>1 DEF pci_scan
  <2> QED BY <2>1, SamePlace DEF BootedInv, PlaceInv, BootInv
<1>2. CASE vfs_init
  <2>1. doing = "vfs_init" /\ doing' = "devfs_init" /\ try' = try /\ UNCHANGED <<image, root_mounted>>
        /\ nodes' = Append(nodes, Node("mem", "/", VFS_DIRECTORY, {}, 0, 0)) /\ vfs_root' = Len(nodes')
    BY <1>2 DEF vfs_init
  <2>2. PICK r : r = Node("mem", "/", VFS_DIRECTORY, {}, 0, 0)
    OBVIOUS
  <2>3. IsNode(r) /\ r.fs = "mem" /\ r.ops = {} /\ r.ptr = NULL
    BY <2>2 DEF Node, IsNode
  <2>4. /\ IsNodes(nodes') /\ Len(nodes') = Len(nodes) + 1 /\ Len(nodes) \in Nat
        /\ nodes'[Len(nodes) + 1] = r /\ \A n \in 1 .. Len(nodes) : nodes'[n] = nodes[n]
    BY <1>0, <2>1, <2>2, <2>3, AppendNode, LenNodes DEF NodesInv
  <2>5. NodesInv'
    BY <1>0, <2>3, <2>4 DEF NodesInv
  <2>6. RootInv'
    BY <2>1, <2>3, <2>4 DEF RootInv, Standing, BootedInv, PlaceInv
  <2> QED BY <2>1, <2>5, <2>6 DEF BootedInv, PlaceInv, BootInv
<1>3. CASE devfs_init \/ devfs_register
  <2>1. doing \in {"devfs_init", "register"} /\ doing' = "register" /\ try' = try
        /\ UNCHANGED <<image, vfs_root, root_mounted>>
    BY <1>3 DEF devfs_init, devfs_register
  <2>2. CASE devfs_init
    <3>1. PICK r : r = DevNode("dev", VFS_DIRECTORY, {})
      OBVIOUS
    <3>2. IsNode(r) /\ r.fs = "dev" /\ nodes' = Append(nodes, r)
      BY <2>2, <3>1 DEF DevNode, Node, IsNode, devfs_init
    <3>3. Grows(nodes, nodes')
      BY <1>0, <3>2, AppendGrows DEF NodesInv
    <3>4. NodesInv' /\ RootInv'
      BY <2>1, <3>3, Grown DEF BootedInv, PlaceInv
    <3> QED BY <2>1, <3>4 DEF BootedInv, PlaceInv, BootInv
  <2>3. CASE devfs_register
    <3>1. Grows(nodes, nodes')
      BY <1>0, <2>3, RegisteredGrows DEF NodesInv, devfs_register
    <3>2. NodesInv' /\ RootInv'
      BY <2>1, <3>1, Grown DEF BootedInv, PlaceInv
    <3> QED BY <2>1, <3>2 DEF BootedInv, PlaceInv, BootInv
  <2> QED BY <1>3, <2>2, <2>3
<1>4. CASE MountDisk
  <2>1. doing = "module" /\ doing' = "devfs_init" /\ try' = try /\ DOMAIN image # {}
        /\ nodes' = Append(nodes, DiskNode(RootInode)) /\ vfs_root' = Len(nodes') /\ root_mounted' = TRUE
    BY <1>4 DEF MountDisk
  <2>2. RootInode \in DOMAIN image
    BY <1>0, <2>1, ImageFacts DEF NodesInv
  <2>3. /\ NodesInv' /\ Len(nodes') = Len(nodes) + 1 /\ Len(nodes) \in Nat
        /\ nodes'[Len(nodes) + 1].fs = "disk" /\ nodes'[Len(nodes) + 1].inode = RootInode
        /\ nodes'[Len(nodes) + 1].ptr = NULL
    BY <1>0, <2>1, <2>2, DiskAdded
  <2>4. RootInv'
    BY <1>0, <2>1, <2>3 DEF RootInv, Standing
  <2> QED BY <2>1, <2>3, <2>4 DEF BootedInv, PlaceInv, BootInv
<1> QED BY <1>1, <1>2, <1>3, <1>4

LEMMA FirstInitStep ==
  ASSUME BootedInv, MountDev \/ DevMounted \/ NoDisk \/ FindInit \/ InitFound
  PROVE  BootedInv'
<1> USE DEF Early, Looking, Executing, Booting, Trying, AtPrompt, Commands
<1>1. CASE MountDev
  <2>1. doing = "register" /\ StartLookup("mount", <<"dev">>) /\ UNCHANGED <<image, nodes, vfs_root, root_mounted, try>>
    BY <1>1 DEF MountDev
  <2>2. IsPath(<<"dev">>)
    <3>1. <<"dev">> \in Seq({"dev"})
      OBVIOUS
    <3> QED BY <3>1 DEF IsPath
  <2>3. NodesInv' /\ RootInv' /\ IsPath(want)' /\ OnWay(0)'
    BY <2>1, <2>2, StartWalks DEF BootedInv, PlaceInv
  <2>4. doing' = "lookup" /\ caller' = "mount" /\ want' = <<"dev">>
    BY <2>1 DEF StartLookup
  <2> QED BY <2>1, <2>3, <2>4 DEF BootedInv, PlaceInv, BootInv
<1>2. CASE DevMounted
  <2>1. doing = "answer" /\ caller = "mount" /\ doing' = (IF root_mounted THEN "init" ELSE "module")
        /\ UNCHANGED <<image, root_mounted, try>>
    BY <1>2 DEF DevMounted
  <2>2. NodesInv' /\ RootInv'
    BY <1>2, <2>1, MountKeepsRoot DEF BootedInv, PlaceInv, BootInv
  <2>3. try = 1
    BY <2>1 DEF BootedInv, BootInv
  <2>4. PlaceInv'
    BY <2>1, <2>2 DEF PlaceInv
  <2>5. BootInv'
    BY <2>1, <2>3 DEF BootInv
  <2> QED BY <2>4, <2>5 DEF BootedInv
<1>3. CASE NoDisk
  <2>1. doing = "module" /\ doing' = "init" /\ DOMAIN image = {} /\ UNCHANGED <<image, nodes, vfs_root, root_mounted, try>>
    BY <1>3 DEF NoDisk
  <2> QED BY <2>1, SamePlace DEF BootedInv, PlaceInv, BootInv
<1>4. CASE FindInit
  <2>1. doing = "init" /\ StartLookup("init", InitPaths[try]) /\ UNCHANGED <<image, nodes, vfs_root, root_mounted, try>>
    BY <1>4 DEF FindInit
  <2>2. try \in 1 .. 3 /\ IsPath(InitPaths[try])
    BY <2>1, InitPathsAre DEF BootedInv, BootInv
  <2>3. NodesInv' /\ RootInv' /\ IsPath(want)' /\ OnWay(0)'
    BY <2>1, <2>2, StartWalks DEF BootedInv, PlaceInv
  <2>4. doing' = "lookup" /\ caller' = "init" /\ want' = InitPaths[try]
    BY <2>1 DEF StartLookup
  <2>5. PlaceInv'
    BY <2>3, <2>4 DEF PlaceInv
  <2>6. \A t \in 1 .. 3 : Present(t)' = Present(t)
    BY <2>1, SamePlace, InitPathsAre
  <2>7. BootInv'
    BY <2>1, <2>4, <2>6 DEF BootedInv, BootInv, InitPaths
  <2> QED BY <2>5, <2>7 DEF BootedInv
<1>5. CASE InitFound
  <2>1. doing = "answer" /\ caller = "init" /\ UNCHANGED <<image, nodes, vfs_root, root_mounted, caller, want, result>>
    BY <1>5 DEF InitFound, lookup
  <2>2. \A t \in 1 .. 3 : Present(t)' = Present(t)
    BY <2>1, SamePlace, InitPathsAre
  <2>3. NodesInv' /\ RootInv' /\ Answered' /\ Answered
    BY <2>1, SamePlace DEF BootedInv, PlaceInv
  <2>4. try \in 1 .. 3 /\ (\A t \in 1 .. 3 : t < try => ~Present(t)) /\ want = InitPaths[try]
        /\ (DOMAIN image = {} \/ root_mounted)
    BY <2>1 DEF BootedInv, BootInv
  <2>5. ASSUME result = NULL PROVE ~Present(try)
    BY <2>4, <2>5, <2>3 DEF Answered, Present
  <2>6. CASE NextInit
    <3>1. try' = try + 1 /\ doing' = "init" /\ result = NULL /\ try' \in 1 .. 3
      BY <1>5, <2>4, <2>6, InitPathsAre DEF InitFound, NextInit
    <3>2. \A t \in 1 .. 3 : t < try' => ~Present(t)
      BY <2>4, <2>5, <3>1
    <3>3. PlaceInv'
      BY <2>3, <3>1 DEF PlaceInv
    <3>4. BootInv'
      BY <2>1, <2>2, <2>4, <3>1, <3>2 DEF BootInv
    <3> QED BY <3>3, <3>4 DEF BootedInv
  <2>7. CASE ~NextInit
    <3>1. try' = try /\ doing' = (IF result # NULL THEN "exec" ELSE "shell")
      BY <1>5, <2>7 DEF InitFound
    <3>2. ASSUME result = NULL PROVE \A t \in 1 .. 3 : ~Present(t)
      BY <2>4, <2>5, <2>7, <3>2, InitPathsAre DEF NextInit
    <3>3. PlaceInv'
      BY <2>1, <2>3, <3>1 DEF PlaceInv
    <3>4. CASE result = NULL
      <4>1. doing' = "shell" /\ caller' = "init" /\ (DOMAIN image' = {} \/ root_mounted') /\ \A t \in 1 .. 3 : ~Present(t)'
        BY <2>1, <2>2, <2>4, <3>1, <3>2, <3>4
      <4>2. BootInv'
        BY <4>1 DEF BootInv
      <4> QED BY <3>3, <4>2 DEF BootedInv
    <3>5. CASE result # NULL
      <4>1. doing' = "exec" /\ caller' = "init" /\ (DOMAIN image' = {} \/ root_mounted')
            /\ try' \in 1 .. 3 /\ (\A t \in 1 .. 3 : t < try' => ~Present(t)') /\ want' = InitPaths[try]'
        BY <2>1, <2>2, <2>4, <3>1, <3>5 DEF InitPaths
      <4>2. BootInv'
        BY <4>1 DEF BootInv
      <4> QED BY <3>3, <4>2 DEF BootedInv
    <3> QED BY <3>4, <3>5
  <2> QED BY <2>6, <2>7
<1> QED BY <1>1, <1>2, <1>3, <1>4, <1>5

LEMMA LookupInv ==
  ASSUME BootedInv, LookupStep \/ LookupEnd
  PROVE  BootedInv'
<1> USE DEF Early, Looking, Executing, Booting, Trying, AtPrompt, Commands
<1>1. doing = "lookup" /\ UNCHANGED <<image, vfs_root, root_mounted, try, want, caller>>
  BY DEF LookupStep, LookupEnd, Answer
<1>2. NodesInv /\ RootInv /\ IsPath(want) /\ \E j : OnWay(j)
  BY <1>1 DEF BootedInv, PlaceInv
<1>3. PICK j : OnWay(j)
  BY <1>2
<1>4. /\ NodesInv' /\ RootInv'
      /\ \/ doing' = "lookup" /\ \E i : OnWay(i)'
         \/ doing' = "answer" /\ Answered'
  BY <1>2, <1>3, LookupStepWalks, LookupEndAnswers
<1>5. IsPath(want)'
  BY <1>1, <1>2 DEF IsPath
<1>6. PlaceInv'
  BY <1>4, <1>5 DEF PlaceInv
<1>7. \A t \in 1 .. 3 : Present(t)' = Present(t)
  <2>1. \A p : Resolve(p)' = Resolve(p)
    BY <1>1 DEF Resolve, Along, Step, Children
  <2> QED BY <1>1, <2>1 DEF Present, InitPaths
<1>8. InitPaths[try]' = InitPaths[try]
  BY <1>1 DEF InitPaths
<1>9. BootInv'
  BY <1>1, <1>2, <1>4, <1>5, <1>7, <1>8 DEF BootedInv, BootInv
<1> QED BY <1>6, <1>9 DEF BootedInv

\* Steps that leave the nodes and the lookup alone.
LEMMA BootQuiet ==
  ASSUME BootedInv,
         loader_exec \/ ProgramReturns \/ ExecReturned \/ shell_ls \/ ListEntry \/ shell_cat \/ CatBuffer
           \/ ShellExec \/ Fault \/ UNCHANGED vfsvars
  PROVE  BootedInv'
<1> USE DEF Early, Looking, Executing, Booting, Trying, AtPrompt, Commands
<1>1. UNCHANGED <<image, nodes, vfs_root, root_mounted, try, caller, want, path, current, result>>
  BY DEF loader_exec, ProgramReturns, ExecReturned, shell_ls, ListEntry, shell_cat, CatBuffer, ShellExec, Fault,
         vfsvars, lookup
<1>2. NodesInv' = NodesInv /\ RootInv' = RootInv /\ Answered' = Answered /\ IsPath(want)' = IsPath(want)
      /\ (\A j : OnWay(j)' = OnWay(j)) /\ (\A t \in 1 .. 3 : Present(t)' = Present(t))
      /\ InitPaths[try]' = InitPaths[try]
  BY <1>1, SamePlace, InitPathsAre DEF IsPath, InitPaths
<1>3. \/ doing = "exec" /\ doing' = "running" /\ "read" \in nodes[result].ops
      \/ doing \in {"exec", "running"} /\ doing' = "returned"
      \/ doing = "returned" /\ doing' = (IF caller = "init" THEN "panic" ELSE "shell")
      \/ doing = "answer" /\ caller \in {"ls", "cat"} /\ doing' \in {"list", "cat", "shell"}
      \/ doing \in {"list", "cat"} /\ doing' \in {doing, "shell"}
      \/ doing = "answer" /\ caller \in {"exec", "bin"} /\ doing' = (IF result # NULL THEN "exec" ELSE "shell")
      \/ doing' = "panic"
      \/ doing' = doing
  BY DEF loader_exec, Runnable, ProgramReturns, ExecReturned, shell_ls, ListEntry, shell_cat, CatBuffer, ShellExec, Fault,
         vfsvars
<1>4. PlaceInv'
  BY <1>1, <1>2, <1>3 DEF BootedInv, PlaceInv
<1>5. BootInv'
  BY <1>1, <1>2, <1>3 DEF BootedInv, BootInv
<1> QED BY <1>4, <1>5 DEF BootedInv

LEMMA PromptStep ==
  ASSUME BootedInv, Typed \/ ShellRun
  PROVE  BootedInv'
<1> USE DEF Early, Looking, Executing, Booting, Trying, AtPrompt, Commands
<1>1. UNCHANGED <<image, nodes, vfs_root, root_mounted, try>>
  BY DEF Typed, Command, ShellRun
<1>2. \A t \in 1 .. 3 : Present(t)' = Present(t)
  BY <1>1, SamePlace, InitPathsAre
<1>3. ASSUME AtPrompt, doing \notin {"panic"}, NEW who \in Commands, NEW p, IsPath(p), StartLookup(who, p),
             ~Early
      PROVE  BootedInv'
  <2>1. NodesInv' /\ RootInv' /\ IsPath(want)' /\ OnWay(0)'
    BY <1>1, <1>3, StartWalks DEF BootedInv, PlaceInv
  <2>2. doing' = "lookup" /\ caller' \in Commands
    BY <1>3 DEF StartLookup
  <2>3. PlaceInv'
    BY <2>1, <2>2 DEF PlaceInv
  <2>4. BootInv'
    BY <1>1, <1>2, <1>3, <2>2 DEF BootedInv, BootInv
  <2> QED BY <2>3, <2>4 DEF BootedInv
<1>4. CASE Typed
  <2>1. PICK p \in Paths : \E cmd \in {"ls", "cat", "exec", "run"} : Command(cmd, p)
    BY <1>4 DEF Typed
  <2>2. PICK cmd \in {"ls", "cat", "exec", "run"} : Command(cmd, p)
    BY <2>1
  <2>3. IsPath(p)
    BY VFSAssumption DEF IsPath
  <2>4. doing = "shell" /\ StartLookup(cmd, p) /\ cmd \in Commands
    BY <2>2 DEF Command
  <2> QED BY <1>3, <2>3, <2>4
<1>5. CASE ShellRun
  <2>1. doing = "answer" /\ caller = "run"
    BY <1>5 DEF ShellRun
  <2>2. CASE result = NULL
    <3>1. StartLookup("bin", <<"bin">> \o want)
      BY <1>5, <2>2 DEF ShellRun
    <3>2. PICK S : want \in Seq(S)
      BY <2>1 DEF BootedInv, BootInv, IsPath
    <3>3. <<"bin">> \in Seq(S \cup {"bin"}) /\ want \in Seq(S \cup {"bin"})
      BY <3>2
    <3>4. IsPath(<<"bin">> \o want)
      BY <3>3 DEF IsPath
    <3>5. "bin" \in Commands
      OBVIOUS
    <3> QED BY <1>3, <2>1, <3>1, <3>4, <3>5
  <2>3. CASE result # NULL
    <3>1. doing' = "exec" /\ UNCHANGED <<caller, want, result>>
      BY <1>5, <2>3 DEF ShellRun, lookup
    <3>2. NodesInv' /\ RootInv' /\ Answered'
      BY <1>1, <2>1, <3>1, SamePlace DEF BootedInv, PlaceInv
    <3>3. PlaceInv'
      BY <2>3, <3>1, <3>2 DEF PlaceInv
    <3>4. BootInv'
      BY <1>1, <1>2, <2>1, <3>1 DEF BootedInv, BootInv
    <3> QED BY <3>3, <3>4 DEF BootedInv
  <2> QED BY <2>2, <2>3
<1> QED BY <1>4, <1>5

LEMMA BootedStep == BootedInv /\ [VFSNext]_vfsvars => BootedInv'
BY BuildStep, FirstInitStep, LookupInv, BootQuiet, PromptStep DEF VFSNext, Kernel, Boot, Exec, Shell

LEMMA BootedMeans == ASSUME BootedInv PROVE LookupMatchesDisk /\ InitChoice
<1> USE DEF Early, Looking, Executing, Booting, Trying, AtPrompt, Commands
<1>1. LookupMatchesDisk
  BY DEF BootedInv, PlaceInv, Answered, LookupMatchesDisk
<1>2. ASSUME doing \in {"exec", "running"}, caller = "init"
      PROVE  nodes[result].inode = Resolve(InitPaths[try]) /\ \A t \in DOMAIN InitPaths : t < try => ~Present(t)
  <2>1. Answered /\ result # NULL /\ want = InitPaths[try] /\ try \in 1 .. 3
        /\ \A t \in 1 .. 3 : t < try => ~Present(t)
    BY <1>2 DEF BootedInv, PlaceInv, BootInv
  <2>2. want # <<>>
    BY <2>1, InitPathsAre
  <2> QED BY <2>1, <2>2, InitPathsAre DEF Answered
<1>3. ASSUME doing = "shell" PROVE \A t \in DOMAIN InitPaths : ~Present(t)
  BY <1>3, InitPathsAre DEF BootedInv, BootInv
<1>4. ASSUME doing = "running" PROVE nodes[result].flags = VFS_FILE
  <2>1. Answered /\ result # NULL /\ "read" \in nodes[result].ops /\ NodesInv /\ RootInv
    BY <1>4 DEF BootedInv, PlaceInv
  <2>2. CASE root_mounted
    <3>1. OfDisk(image, nodes[result])
      BY <2>1, <2>2 DEF Answered, NodesInv
    <3> QED BY <2>1, <3>1 DEF OfDisk, DirOps
  <2>3. CASE ~root_mounted
    BY <2>1, <2>3 DEF Answered, RootInv, Standing
  <2> QED BY <2>2, <2>3
<1> QED BY <1>1, <1>2, <1>3, <1>4 DEF InitChoice

\* With a disk mounted vfs_lookup answers a path outside /dev with the file that
\* the disk has there, whatever was looked up, registered or mounted before
\* (vfs.c:56-90).
THEOREM LookupsMatch == VFSSpec => []LookupMatchesDisk
<1>1. BootedInv => LookupMatchesDisk
  BY BootedMeans
<1> QED BY <1>1, VFSInitInv, BootedStep, PTL DEF VFSSpec

\* PID 1 is the first of the three paths that exists, the shell runs only without
\* any, and what runs is a file (kernel_main.c:422-438).
THEOREM FirstInitRuns == VFSSpec => []InitChoice
<1>1. BootedInv => InitChoice
  BY BootedMeans
<1> QED BY <1>1, VFSInitInv, BootedStep, PTL DEF VFSSpec

-----------------------------------------------------------------------------
(* The listing.                                                              *)

\* The entries that readdir has found when it has come to index i.
Taken(K, i) == {k \in K : Rank(K, k) < i}
Counts(K, i) == i \in Nat /\ IsFiniteSet(Taken(K, i)) /\ Cardinality(Taken(K, i)) = i

LEMMA RankFacts ==
  ASSUME NEW K \in SUBSET Nat, IsFiniteSet(K), NEW k \in K
  PROVE  IsFiniteSet({l \in K : l < k}) /\ Rank(K, k) \in Nat
<1>1. {l \in K : l < k} \subseteq K
  OBVIOUS
<1> QED BY <1>1, FS_Subset, FS_CardinalityType DEF Rank

LEMMA RanksGrow ==
  ASSUME NEW K \in SUBSET Nat, IsFiniteSet(K), NEW j \in K, NEW k \in K, j < k
  PROVE  Rank(K, j) < Rank(K, k)
<1> DEFINE J == {l \in K : l < j}
           L == {l \in K : l < k}
<1>1. IsFiniteSet(J) /\ Cardinality(J) = Rank(K, j) /\ Rank(K, j) \in Nat
  BY RankFacts DEF Rank
<1>2. IsFiniteSet(L) /\ Cardinality(L) = Rank(K, k) /\ Rank(K, k) \in Nat
  BY RankFacts DEF Rank
<1>3. j \notin J /\ J \cup {j} \subseteq L
  <2>1. j \in Nat /\ k \in Nat /\ ~(j < j)
    OBVIOUS
  <2>2. \A l \in K : l < j => l < k
    BY <2>1
  <2> QED BY <2>1, <2>2
<1>4. Cardinality(J \cup {j}) = Rank(K, j) + 1
  BY <1>1, <1>3, FS_AddElement
<1>5. Cardinality(J \cup {j}) <= Cardinality(L)
  BY <1>2, <1>3, FS_Subset
<1> QED BY <1>1, <1>2, <1>4, <1>5

\* One entry at most is at an index, and it was not found before.
LEMMA NextTaken ==
  ASSUME NEW K \in SUBSET Nat, IsFiniteSet(K), NEW i, Counts(K, i), NEW k \in AtIndex(K, i)
  PROVE  /\ AtIndex(K, i) = {k} /\ k \in K
         /\ Taken(K, i + 1) = Taken(K, i) \cup {k} /\ Counts(K, i + 1)
<1>1. i \in Nat /\ k \in K /\ Rank(K, k) = i
  BY DEF Counts, AtIndex
<1>2. ASSUME NEW j \in K, Rank(K, j) = i PROVE j = k
  <2>1. ~(j < k) /\ ~(k < j)
    BY <1>1, <1>2, RanksGrow
  <2>2. j \in Nat /\ k \in Nat
    BY <1>1
  <2> QED BY <2>1, <2>2
<1>3. AtIndex(K, i) = {k}
  BY <1>1, <1>2 DEF AtIndex
<1>4. Taken(K, i + 1) = Taken(K, i) \cup {k}
  <2>1. ASSUME NEW j \in K PROVE Rank(K, j) < i + 1 <=> Rank(K, j) < i \/ j = k
    <3>1. Rank(K, j) \in Nat
      BY RankFacts
    <3>2. Rank(K, j) = i <=> j = k
      BY <1>1, <1>2
    <3> QED BY <1>1, <3>1, <3>2
  <2> QED BY <1>1, <2>1 DEF Taken
<1>5. k \notin Taken(K, i)
  BY <1>1 DEF Taken
<1>6. Counts(K, i + 1)
  BY <1>1, <1>4, <1>5, FS_AddElement DEF Counts
<1> QED BY <1>1, <1>3, <1>4, <1>6

\* Where none is, all were found before.
LEMMA AllTaken ==
  ASSUME NEW K \in SUBSET Nat, IsFiniteSet(K), NEW i, Counts(K, i), AtIndex(K, i) = {}
  PROVE  Taken(K, i) = K
<1> DEFINE S == {k \in K : Rank(K, k) >= i}
<1>1. i \in Nat
  BY DEF Counts
<1>2. \A k \in K : Rank(K, k) \in Nat /\ Rank(K, k) # i
  BY RankFacts DEF AtIndex
<1>3. ASSUME S # {} PROVE FALSE
  <2>1. S \in SUBSET Nat
    OBVIOUS
  <2>2. PICK k \in S : \A j \in S : k <= j
    BY <1>3, <2>1, LeastExists
  <2>3. k \in K /\ k \in Nat /\ Rank(K, k) \in Nat /\ Rank(K, k) > i
    BY <1>1, <1>2
  <2>4. {l \in K : l < k} \subseteq Taken(K, i)
    <3>1. ASSUME NEW l \in K, l < k PROVE Rank(K, l) < i
      <4>1. l \notin S
        BY <2>2, <2>3, <3>1
      <4>2. Rank(K, l) \in Nat
        BY <1>2
      <4> QED BY <1>1, <4>1, <4>2
    <3> QED BY <3>1 DEF Taken
  <2>5. Rank(K, k) <= i
    BY <2>4, FS_Subset DEF Counts, Rank
  <2> QED BY <1>1, <2>3, <2>5
<1>4. ASSUME NEW k \in K PROVE Rank(K, k) < i
  BY <1>1, <1>2, <1>3
<1> QED BY <1>4 DEF Taken

\* What ls has printed when it has come to index i.
Printed(im, K, i) ==
  /\ Counts(K, i) /\ i = Len(listing) /\ (\E S : listing \in Seq(S))
  /\ ToSet(listing) = {im[k].name : k \in Taken(K, i)}
Whole(im, K) == ToSet(listing) = {im[k].name : k \in K} /\ Len(listing) = Cardinality(K)
Inodes(r) == Children(r.inode)
DiskDir(n) == n \in 1 .. Len(nodes) /\ nodes[n].fs = "disk" /\ IsDir(n) /\ "readdir" \in nodes[n].ops

ListingInv ==
  /\ Looking /\ caller = "ls" => idx = 0 /\ listing = <<>>
  /\ doing = "list" /\ root_mounted => DiskDir(result) /\ Printed(image, Inodes(nodes[result]), idx)
  /\ doing = "shell" /\ caller = "ls" /\ root_mounted /\ result # NULL /\ IsDir(result) =>
       Whole(image, Inodes(nodes[result]))
  /\ doing = "cat" => caller = "cat"
  /\ Executing \/ doing = "returned" => caller # "ls"

LEMMA NoneTaken == ASSUME NEW K \in SUBSET Nat, IsFiniteSet(K) PROVE Taken(K, 0) = {} /\ Counts(K, 0)
<1>1. ASSUME NEW k \in K PROVE ~(Rank(K, k) < 0)
  <2>1. Rank(K, k) \in Nat
    BY RankFacts
  <2> QED BY <2>1
<1>2. Taken(K, 0) = {}
  BY <1>1 DEF Taken
<1> QED BY <1>2, FS_EmptySet DEF Counts

LEMMA InodesAre ==
  ASSUME image \in Images, NEW r
  PROVE  Inodes(r) \in SUBSET Nat /\ IsFiniteSet(Inodes(r))
<1>1. Inodes(r) \subseteq DOMAIN image
  BY DEF Inodes, Children
<1>2. DOMAIN image \in SUBSET Nat /\ IsFiniteSet(DOMAIN image)
  BY VFSAssumption, ImageFacts
<1>3. Inodes(r) \in SUBSET (DOMAIN image)
  BY <1>1
<1>4. IsFiniteSet(Inodes(r))
  BY <1>2, <1>3, FS_Subset, Zenon
<1> QED BY <1>1, <1>2, <1>4

LEMMA SetOfAppend ==
  ASSUME NEW S, NEW s \in Seq(S), NEW e
  PROVE  /\ ToSet(Append(s, e)) = ToSet(s) \cup {e} /\ Len(Append(s, e)) = Len(s) + 1
         /\ Append(s, e) \in Seq(S \cup {e})
<1>1. /\ Len(Append(s, e)) = Len(s) + 1 /\ Len(s) \in Nat /\ Append(s, e) \in Seq(S \cup {e})
      /\ Append(s, e)[Len(s) + 1] = e /\ \A i \in 1 .. Len(s) : Append(s, e)[i] = s[i]
  <2>1. s \in Seq(S \cup {e}) /\ e \in S \cup {e}
    OBVIOUS
  <2> QED BY <2>1
<1>2. DOMAIN s = 1 .. Len(s) /\ DOMAIN Append(s, e) = 1 .. Len(s) + 1
  BY <1>1
<1>3. \A i \in 1 .. Len(s) + 1 : i \in 1 .. Len(s) \/ i = Len(s) + 1
  BY <1>1
<1>4. \A i \in 1 .. Len(s) : i \in 1 .. Len(s) + 1
  BY <1>1
<1>5. Len(s) + 1 \in 1 .. Len(s) + 1
  BY <1>1
<1>6. ToSet(Append(s, e)) = ToSet(s) \cup {e}
  BY <1>1, <1>2, <1>3, <1>4, <1>5, Zenon DEF ToSet
<1> QED BY <1>1, <1>6

\* One more entry, or the end.
LEMMA PrintOne ==
  ASSUME image \in Images, NEW r, Printed(image, Inodes(r), idx), UNCHANGED image,
         NEW name \in {image[k].name : k \in AtIndex(Inodes(r), idx)},
         listing' = Append(listing, name), idx' = idx + 1
  PROVE  Printed(image, Inodes(r), idx)'
<1> USE DEF Printed
<1>1. Inodes(r)' = Inodes(r)
  BY DEF Inodes, Children
<1>2. PICK k \in AtIndex(Inodes(r), idx) : name = image[k].name
  OBVIOUS
<1>3. /\ Taken(Inodes(r), idx + 1) = Taken(Inodes(r), idx) \cup {k} /\ Counts(Inodes(r), idx + 1)
  BY InodesAre, NextTaken
<1>4. PICK S : listing \in Seq(S)
  OBVIOUS
<1>5. /\ ToSet(listing') = ToSet(listing) \cup {name} /\ Len(listing') = Len(listing) + 1
      /\ listing' \in Seq(S \cup {name})
  BY <1>4, SetOfAppend
<1>6. {image[l].name : l \in Taken(Inodes(r), idx + 1)} = {image[l].name : l \in Taken(Inodes(r), idx)} \cup {name}
  BY <1>2, <1>3
<1> QED BY <1>1, <1>3, <1>5, <1>6

LEMMA PrintEnds ==
  ASSUME image \in Images, NEW r, Printed(image, Inodes(r), idx),
         {image[k].name : k \in AtIndex(Inodes(r), idx)} = {}
  PROVE  Whole(image, Inodes(r))
<1>1. AtIndex(Inodes(r), idx) = {}
  OBVIOUS
<1>2. Taken(Inodes(r), idx) = Inodes(r)
  BY <1>1, InodesAre, AllTaken DEF Printed
<1> QED BY <1>2 DEF Printed, Whole, Counts

LEMMA ListEntryStep ==
  ASSUME BootedInv, ListingInv, ListEntry
  PROVE  ListingInv'
<1>1. doing = "list" /\ UNCHANGED <<image, nodes, root_mounted, caller, result>>
  BY DEF ListEntry, lookup
<1>2. CASE ~root_mounted
  BY <1>1, <1>2 DEF ListingInv, ListEntry, Looking, Executing
<1>3. CASE root_mounted
  <2> DEFINE r == nodes[result]
  <2>1. DiskDir(result) /\ Printed(image, Inodes(r), idx) /\ image \in Images
    BY <1>1, <1>3 DEF ListingInv, BootedInv, PlaceInv, NodesInv
  <2>2. Readdir(result, idx) = {image[k].name : k \in AtIndex(Inodes(r), idx)}
    BY <2>1 DEF DiskDir, Readdir, Inodes
  <2>3. DiskDir(result)'
    BY <1>1, <2>1 DEF DiskDir, IsDir
  <2>4. CASE \E name \in Readdir(result, idx) : listing' = Append(listing, name)
             /\ idx' = idx + 1 /\ UNCHANGED doing
    <3>1. PICK name \in Readdir(result, idx) : listing' = Append(listing, name) /\ idx' = idx + 1 /\ UNCHANGED doing
      BY <2>4
    <3>2. PICK q : q = r
      OBVIOUS
    <3>3. Printed(image, Inodes(q), idx)'
      BY <1>1, <2>1, <2>2, <3>1, <3>2, PrintOne
    <3>4. q = r'
      BY <1>1, <3>2
    <3>5. Printed(image, Inodes(nodes[result]), idx)'
      BY <3>3, <3>4 DEF Printed, Inodes, Children
    <3> QED BY <1>1, <2>3, <3>1, <3>5 DEF ListingInv, Looking, Executing
  <2>5. CASE Readdir(result, idx) = {} /\ doing' = "shell" /\ UNCHANGED shell
    <3>1. Whole(image, Inodes(r))
      BY <2>1, <2>2, <2>5, PrintEnds
    <3>2. Whole(image, Inodes(nodes[result]))'
      BY <1>1, <2>5, <3>1 DEF Whole, Inodes, Children, shell
    <3> QED BY <2>5, <3>2 DEF ListingInv, Looking, Executing
  <2> QED BY <2>4, <2>5 DEF ListEntry, ListNext
<1> QED BY <1>2, <1>3

LEMMA LsStep ==
  ASSUME BootedInv, ListingInv, shell_ls
  PROVE  ListingInv'
<1>1. doing = "answer" /\ caller = "ls" /\ UNCHANGED <<image, nodes, root_mounted, caller, result, idx, listing>>
      /\ doing' = IF result # NULL /\ IsDir(result) THEN "list" ELSE "shell"
  BY DEF shell_ls, lookup, shell
<1>2. idx = 0 /\ listing = <<>> /\ NodesInv /\ Answered
  BY <1>1 DEF ListingInv, Looking, BootedInv, PlaceInv
<1>3. IsDir(result)' = IsDir(result)
  BY <1>1 DEF IsDir
<1>4. CASE result # NULL /\ IsDir(result) /\ root_mounted
  <2>1. result \in 1 .. Len(nodes) /\ nodes[result].fs = "disk" /\ OfDisk(image, nodes[result]) /\ image \in Images
    BY <1>2, <1>4 DEF Answered, NodesInv
  <2>2. "readdir" \in nodes[result].ops
    BY <1>4, <2>1 DEF OfDisk, IsDir, VFS_DIRECTORY, VFS_FILE, DirOps
  <2>3. DiskDir(result)'
    BY <1>1, <1>3, <1>4, <2>1, <2>2 DEF DiskDir
  <2>4. Inodes(nodes[result])' = Inodes(nodes[result])
    BY <1>1 DEF Inodes, Children
  <2>5. Taken(Inodes(nodes[result]), 0) = {} /\ Counts(Inodes(nodes[result]), 0)
    BY <2>1, InodesAre, NoneTaken
  <2>6. listing \in Seq({}) /\ Len(listing) = 0 /\ ToSet(listing) = {}
    BY <1>2 DEF ToSet
  <2>7. Printed(image, Inodes(nodes[result]), idx)'
    BY <1>1, <1>2, <2>4, <2>5, <2>6 DEF Printed
  <2> QED BY <1>1, <1>4, <2>3, <2>7 DEF ListingInv, Looking, Executing
<1>5. CASE ~(result # NULL /\ IsDir(result) /\ root_mounted)
  BY <1>1, <1>3, <1>5 DEF ListingInv, Looking, Executing
<1> QED BY <1>4, <1>5

\* The other steps: what the lookup of ls begins with, and what ends elsewhere.
LEMMA LookupsForLs ==
  ASSUME BootedInv, ListingInv,
         LookupStep \/ LookupEnd \/ MountDev \/ FindInit \/ Typed \/ ShellRun
  PROVE  ListingInv'
<1> USE DEF Looking, Executing, ListingInv
<1>1. CASE LookupStep \/ LookupEnd
  BY <1>1 DEF LookupStep, LookupEnd, Answer, shell
<1>2. CASE MountDev \/ FindInit
  BY <1>2 DEF MountDev, FindInit, StartLookup
<1>3. CASE Typed
  BY <1>3 DEF Typed, Command, StartLookup
<1>4. CASE ShellRun
  BY <1>4 DEF ShellRun, StartLookup, lookup
<1> QED BY <1>1, <1>2, <1>3, <1>4

LEMMA OthersForLs ==
  ASSUME BootedInv, ListingInv,
         \/ pci_scan \/ vfs_init \/ devfs_init \/ devfs_register \/ DevMounted \/ MountDisk \/ NoDisk \/ InitFound
         \/ loader_exec \/ ProgramReturns \/ ExecReturned \/ shell_cat \/ CatBuffer \/ ShellExec \/ Fault
         \/ UNCHANGED vfsvars
  PROVE  ListingInv'
<1> USE DEF Looking, Executing, ListingInv
<1>1. CASE pci_scan \/ vfs_init \/ devfs_init \/ devfs_register \/ DevMounted \/ MountDisk \/ NoDisk
  BY <1>1 DEF pci_scan, vfs_init, devfs_init, devfs_register, DevMounted, MountDisk, NoDisk
<1>2. CASE InitFound \/ ShellExec
  BY <1>2 DEF InitFound, ShellExec, lookup
<1>3. CASE loader_exec \/ ProgramReturns \/ ExecReturned
  BY <1>3 DEF loader_exec, ProgramReturns, ExecReturned, lookup
<1>4. CASE shell_cat \/ CatBuffer
  BY <1>4 DEF shell_cat, CatBuffer, lookup
<1>5. CASE Fault
  BY <1>5 DEF Fault
<1>6. CASE UNCHANGED vfsvars
  <2>1. UNCHANGED <<image, nodes, doing, caller, root_mounted, result, idx, listing>>
    BY <1>6 DEF vfsvars, lookup, shell
  <2>2. DiskDir(result)' = DiskDir(result) /\ IsDir(result)' = IsDir(result) /\ idx' = idx
        /\ Inodes(nodes[result])' = Inodes(nodes[result]) /\ image' = image
    BY <2>1 DEF DiskDir, IsDir, Inodes, Children
  <2>3. \A im, K, i : Printed(im, K, i)' = Printed(im, K, i) /\ Whole(im, K)' = Whole(im, K)
    BY <2>1 DEF Printed, Whole
  <2> QED BY <2>1, <2>2, <2>3
<1> QED BY <1>1, <1>2, <1>3, <1>4, <1>5, <1>6

LEMMA ListingStep == BootedInv /\ ListingInv /\ [VFSNext]_vfsvars => (BootedInv /\ ListingInv)'
<1>1. BootedInv /\ [VFSNext]_vfsvars => BootedInv'
  BY BootedStep
<1>2. BootedInv /\ ListingInv /\ [VFSNext]_vfsvars => ListingInv'
  BY ListEntryStep, LsStep, LookupsForLs, OthersForLs DEF VFSNext, Kernel, Boot, Exec, Shell
<1> QED BY <1>1, <1>2

\* ls prints the names of a directory's entries, each as often as it is there
\* (kernel_main.c:172-188, jurkvfs.c:36-53).
THEOREM ListsWholeDirectory == VFSSpec => []ListsDirectory
<1>1. VFSInit => BootedInv /\ ListingInv
  <2>1. VFSInit => ListingInv
    BY DEF VFSInit, ListingInv, Looking, Executing
  <2> QED BY <2>1, VFSInitInv
<1>2. BootedInv /\ ListingInv => ListsDirectory
  BY DEF ListingInv, ListsDirectory, Whole, Inodes, Names
<1> QED BY <1>1, <1>2, ListingStep, PTL DEF VFSSpec

-----------------------------------------------------------------------------
(* The PCI bus.                                                              *)

Multi(s) == \E n \in Answering(s, 0) : PciFunctions[n].multi
SlotOf(n) == PciFunctions[n].slot
FuncOf(n) == PciFunctions[n].func
Behind(n, s, f) == SlotOf(n) < s \/ (SlotOf(n) = s /\ FuncOf(n) < f)
Scanned(s, f) == {n \in Installed : Behind(n, s, f)}

\* A table that has each of S once, or is full.
Table(P, S) ==
  /\ \E T : P \in Seq(T)
  /\ \A i, j \in 1 .. Len(P) : P[i] = P[j] => i = j
  /\ IsFiniteSet(ToSet(P)) /\ Cardinality(ToSet(P)) = Len(P)
  /\ ToSet(P) \subseteq S /\ Len(P) <= MAX_PCI_DEVICES /\ (Len(P) < MAX_PCI_DEVICES => ToSet(P) = S)
AskedInv ==
  /\ pci_slot \in 0 .. Slots /\ pci_func \in 0 .. 7
  /\ pci_func > 0 => pci_slot < Slots /\ Multi(pci_slot)
FoundInv == AskedInv /\ Table(pci_devices, Scanned(pci_slot, pci_func))

LEMMA PlacesAre ==
  ASSUME NEW n \in DOMAIN PciFunctions
  PROVE  /\ SlotOf(n) \in Nat /\ SlotOf(n) < Slots /\ FuncOf(n) \in Nat /\ FuncOf(n) <= 7
         /\ \A m \in DOMAIN PciFunctions : SlotOf(m) = SlotOf(n) /\ FuncOf(m) = FuncOf(n) => m = n
<1>1. /\ PciFunctions[n].slot \in 0 .. Slots - 1 /\ PciFunctions[n].func \in 0 .. 7 /\ Slots \in Nat
  BY PCIAssumption
<1>2. \A m \in DOMAIN PciFunctions :
        PciFunctions[m].slot = PciFunctions[n].slot /\ PciFunctions[m].func = PciFunctions[n].func => m = n
  BY PCIAssumption, Zenon
<1> QED BY <1>1, <1>2 DEF SlotOf, FuncOf

LEMMA InstalledAre ==
  ASSUME NEW n \in DOMAIN PciFunctions
  PROVE  n \in Installed <=> FuncOf(n) = 0 \/ Multi(SlotOf(n))
<1>1. n \in Installed <=> \E m \in DOMAIN PciFunctions : SlotOf(m) = SlotOf(n) /\ FuncOf(m) = 0 /\ (m = n \/ PciFunctions[m].multi)
  BY DEF Installed, SlotOf, FuncOf
<1>2. Multi(SlotOf(n)) <=> \E m \in DOMAIN PciFunctions : SlotOf(m) = SlotOf(n) /\ FuncOf(m) = 0 /\ PciFunctions[m].multi
  BY DEF Multi, Answering, SlotOf, FuncOf
<1> QED BY <1>1, <1>2

LEMMA AtMostOne ==
  ASSUME NEW s, NEW f, NEW n \in Answering(s, f)
  PROVE  Answering(s, f) = {n}
BY PlacesAre DEF Answering, SlotOf, FuncOf

\* One question further, Answering(s, f) is behind.
LEMMA ScannedNext ==
  ASSUME AskedInv, ScanFunction
  PROVE  /\ AskedInv'
         /\ Scanned(pci_slot', pci_func') = Scanned(pci_slot, pci_func) \cup Answering(pci_slot, pci_func)
         /\ \A n \in Answering(pci_slot, pci_func) : n \notin Scanned(pci_slot, pci_func)
<1> DEFINE s == pci_slot  f == pci_func  t == pci_slot'  g == pci_func'
<1>1. /\ s \in Nat /\ f \in Nat /\ f <= 7 /\ s < Slots /\ Slots \in Nat /\ (f > 0 => Multi(s))
      /\ IF f < 7 /\ Multi(s) THEN g = f + 1 /\ t = s ELSE g = 0 /\ t = s + 1
  BY PCIAssumption DEF AskedInv, ScanFunction, Multi
<1>2. AskedInv'
  <2>1. \A x : Multi(x)' = Multi(x)
    BY DEF Multi, Answering
  <2>2. pci_slot' \in 0 .. Slots /\ pci_func' \in 0 .. 7 /\ (pci_func' > 0 => pci_slot' < Slots /\ Multi(pci_slot'))
    BY <1>1
  <2> QED BY <2>1, <2>2 DEF AskedInv, Multi, Answering
<1>3. ASSUME NEW n \in DOMAIN PciFunctions
      PROVE  n \in Scanned(t, g) <=> n \in Scanned(s, f) \/ n \in Answering(s, f)
  <2> DEFINE x == SlotOf(n)  y == FuncOf(n)
  <2>1. x \in Nat /\ y \in Nat /\ y <= 7 /\ (n \in Installed <=> y = 0 \/ Multi(x)) /\ (n \in Answering(s, f) <=> x = s /\ y = f)
    BY PlacesAre, InstalledAre DEF Answering, SlotOf, FuncOf
  <2>2. \A u, v : n \in Scanned(u, v) <=> n \in Installed /\ (x < u \/ (x = u /\ y < v))
    BY DEF Scanned, Behind
  <2> HIDE DEF x, y
  <2>3. CASE x # s
    <3>1. n \notin Answering(s, f)
      BY <2>1, <2>3
    <3>2. (x < t \/ (x = t /\ y < g)) <=> (x < s \/ (x = s /\ y < f))
      BY <1>1, <2>1, <2>3
    <3> QED BY <2>2, <3>1, <3>2
  <2>4. CASE x = s /\ f < 7 /\ Multi(s)
    <3>1. n \in Installed
      BY <2>1, <2>4
    <3>2. (x < t \/ (x = t /\ y < g)) <=> (x < s \/ (x = s /\ y < f)) \/ y = f
      BY <1>1, <2>1, <2>4
    <3> QED BY <2>1, <2>2, <2>4, <3>1, <3>2
  <2>5. CASE x = s /\ ~(f < 7 /\ Multi(s))
    <3>1. n \in Scanned(t, g) <=> n \in Installed
      BY <1>1, <2>1, <2>2, <2>5
    <3>2. n \in Scanned(s, f) <=> n \in Installed /\ y < f
      BY <1>1, <2>1, <2>2, <2>5
    <3>3. n \in Installed /\ ~(y < f) => y = f
      BY <1>1, <2>1, <2>5
    <3>4. y = f => n \in Installed
      BY <1>1, <2>1, <2>5
    <3> QED BY <2>1, <2>5, <3>1, <3>2, <3>3, <3>4
  <2> QED BY <2>3, <2>4, <2>5
<1>4. \A u, v : Scanned(u, v) \subseteq DOMAIN PciFunctions /\ Answering(u, v) \subseteq DOMAIN PciFunctions
  BY DEF Scanned, Installed, Answering
<1>5. Scanned(t, g) = Scanned(s, f) \cup Answering(s, f)
  BY <1>3, <1>4
<1>6. \A n \in Answering(s, f) : n \notin Scanned(s, f)
  BY <1>1 DEF Answering, Scanned, Behind, SlotOf, FuncOf
<1> QED BY <1>2, <1>5, <1>6

LEMMA TableGrows ==
  ASSUME NEW P, NEW S, Table(P, S), NEW n, n \notin S
  PROVE  Table(pci_check_function(P, n), S \cup {n})
<1>1. PICK T : P \in Seq(T)
  BY DEF Table
<1>2. MAX_PCI_DEVICES \in Nat /\ Len(P) \in Nat
  BY <1>1, PCIAssumption
<1>3. CASE ~(Len(P) < MAX_PCI_DEVICES)
  BY <1>3 DEF pci_check_function, Table
<1>4. CASE Len(P) < MAX_PCI_DEVICES
  <2> DEFINE Q == Append(P, n)
  <2>1. ToSet(Q) = ToSet(P) \cup {n} /\ Len(Q) = Len(P) + 1 /\ Q \in Seq(T \cup {n})
    BY <1>1, SetOfAppend
  <2>2. \A i \in 1 .. Len(P) : Q[i] = P[i] /\ P[i] \in ToSet(P)
    BY <1>1 DEF ToSet
  <2>3. Q[Len(P) + 1] = n
    BY <1>1
  <2>4. ToSet(P) = S /\ n \notin ToSet(P)
    BY <1>4 DEF Table
  <2> HIDE DEF Q
  <2>5. ASSUME NEW i \in 1 .. Len(Q), NEW j \in 1 .. Len(Q), Q[i] = Q[j] PROVE i = j
    <3>1. (i \in 1 .. Len(P) \/ i = Len(P) + 1) /\ (j \in 1 .. Len(P) \/ j = Len(P) + 1)
      BY <1>2, <2>1
    <3> QED BY <2>2, <2>3, <2>4, <2>5, <3>1 DEF Table
  <2>6. IsFiniteSet(ToSet(Q)) /\ Cardinality(ToSet(Q)) = Len(Q)
    <3>1. PICK D : D = ToSet(P)
      OBVIOUS
    <3>2. IsFiniteSet(D) /\ Cardinality(D) = Len(P) /\ n \notin D /\ ToSet(Q) = D \cup {n}
      BY <2>1, <2>4, <3>1 DEF Table
    <3>3. IsFiniteSet(D \cup {n}) /\ Cardinality(D \cup {n}) = Cardinality(D) + 1
      BY <3>2, FS_AddElement
    <3> QED BY <2>1, <3>2, <3>3
  <2>7. Table(Q, S \cup {n})
    BY <1>2, <1>4, <2>1, <2>4, <2>5, <2>6 DEF Table
  <2> QED BY <1>4, <2>7 DEF pci_check_function, Q
<1> QED BY <1>3, <1>4

LEMMA FoundStep ==
  ASSUME FoundInv, ScanFunction
  PROVE  FoundInv'
<1> DEFINE S == Scanned(pci_slot, pci_func)
<1>1. /\ AskedInv' /\ Scanned(pci_slot', pci_func') = S \cup Answering(pci_slot, pci_func)
      /\ \A n \in Answering(pci_slot, pci_func) : n \notin S
  BY ScannedNext DEF FoundInv
<1>2. CASE Answering(pci_slot, pci_func) = {} /\ UNCHANGED pci_devices
  BY <1>1, <1>2 DEF FoundInv, Table, Scanned, Installed, Behind, SlotOf, FuncOf
<1>3. CASE \E n \in Answering(pci_slot, pci_func) : pci_devices' = pci_check_function(pci_devices, n)
  <2>1. PICK n \in Answering(pci_slot, pci_func) : pci_devices' = pci_check_function(pci_devices, n)
    BY <1>3
  <2>2. Answering(pci_slot, pci_func) = {n} /\ n \notin S
    BY <1>1, AtMostOne
  <2>3. Table(pci_devices', S \cup {n})
    BY <2>1, <2>2, TableGrows DEF FoundInv
  <2>4. Table(pci_devices', Scanned(pci_slot', pci_func'))
    BY <1>1, <2>2, <2>3
  <2> QED BY <1>1, <2>4 DEF FoundInv, Table, Scanned, Installed, Behind, SlotOf, FuncOf
<1> QED BY <1>2, <1>3 DEF ScanFunction

LEMMA FoundInit == ASSUME PciInit PROVE FoundInv
<1>1. Slots \in Nat /\ MAX_PCI_DEVICES \in Nat /\ pci_devices = <<>> /\ pci_slot = 0 /\ pci_func = 0
  BY PCIAssumption DEF PciInit
<1>2. Scanned(0, 0) = {}
  <2>1. ASSUME NEW n \in Installed PROVE ~Behind(n, 0, 0)
    <3>1. n \in DOMAIN PciFunctions
      BY DEF Installed
    <3>2. SlotOf(n) \in Nat /\ FuncOf(n) \in Nat
      BY <3>1, PlacesAre
    <3> QED BY <3>2 DEF Behind
  <2> QED BY <2>1 DEF Scanned
<1>3. <<>> \in Seq({}) /\ Len(<<>>) = 0 /\ ToSet(<<>>) = {}
  BY DEF ToSet
<1>4. IsFiniteSet({}) /\ Cardinality({}) = 0
  BY FS_EmptySet
<1>5. Table(<<>>, {})
  <2>1. \A i, j \in 1 .. Len(<<>>) : <<>>[i] = <<>>[j] => i = j
    BY <1>3
  <2>2. IsFiniteSet(ToSet(<<>>)) /\ Cardinality(ToSet(<<>>)) = Len(<<>>)
    BY <1>3, <1>4
  <2>3. /\ ToSet(<<>>) \subseteq {} /\ Len(<<>>) <= MAX_PCI_DEVICES
        /\ (Len(<<>>) < MAX_PCI_DEVICES => ToSet(<<>>) = {})
    BY <1>1, <1>3
  <2>4. \E T : <<>> \in Seq(T)
    BY <1>3
  <2> QED BY <2>1, <2>2, <2>3, <2>4 DEF Table
<1>6. Table(pci_devices, Scanned(pci_slot, pci_func))
  BY <1>1, <1>2, <1>5
<1>7. AskedInv
  BY <1>1 DEF AskedInv
<1> QED BY <1>6, <1>7 DEF FoundInv

\* When every slot has been asked.
LEMMA AllFound ==
  ASSUME FoundInv, pci_slot = Slots
  PROVE  /\ Table(pci_devices, Installed) /\ IsFiniteSet(Installed)
         /\ Cardinality(Installed) <= MAX_PCI_DEVICES => ToSet(pci_devices) = Installed
<1>1. Scanned(pci_slot, pci_func) = Installed
  <2>1. ASSUME NEW n \in Installed PROVE Behind(n, Slots, pci_func)
    <3>1. n \in DOMAIN PciFunctions
      BY DEF Installed
    <3> QED BY <3>1, PlacesAre DEF Behind
  <2> QED BY <2>1 DEF Scanned
<1>2. Table(pci_devices, Installed)
  BY <1>1 DEF FoundInv
<1>3. IsFiniteSet(Installed)
  <2>1. IsFiniteSet(DOMAIN PciFunctions)
    BY PCIAssumption
  <2>2. Installed \in SUBSET (DOMAIN PciFunctions)
    BY DEF Installed
  <2> QED BY <2>1, <2>2, FS_Subset, Zenon
<1>4. ASSUME Cardinality(Installed) <= MAX_PCI_DEVICES PROVE ToSet(pci_devices) = Installed
  <2> DEFINE I == Installed
             D == ToSet(pci_devices)
  <2>1. /\ D \in SUBSET I /\ IsFiniteSet(I) /\ Cardinality(D) = Len(pci_devices)
        /\ Len(pci_devices) <= MAX_PCI_DEVICES /\ (Len(pci_devices) < MAX_PCI_DEVICES => D = I)
    BY <1>2, <1>3 DEF Table
  <2> HIDE DEF I, D
  <2>2. Cardinality(D) <= Cardinality(I) /\ (Cardinality(I) = Cardinality(D) => I = D)
        /\ Cardinality(I) \in Nat /\ Cardinality(D) \in Nat
    BY <2>1, FS_Subset, FS_CardinalityType
  <2>3. Cardinality(I) <= MAX_PCI_DEVICES /\ MAX_PCI_DEVICES \in Nat
    BY <1>4, PCIAssumption DEF I
  <2> QED BY <2>1, <2>2, <2>3 DEF I, D
<1> QED BY <1>2, <1>3, <1>4

-----------------------------------------------------------------------------
(* The device tree.                                                          *)

\* Node n has m children, which have the first m names of L.
Has(ns, n, L, m) ==
  /\ n \in 1 .. Len(ns) /\ ns[n].kids \in Seq(Nat) /\ Len(ns[n].kids) = m /\ m \in Nat
  /\ \A k \in 1 .. m : ns[n].kids[k] \in 1 .. Len(ns) /\ ns[ns[n].kids[k]].name = L[k]

\* From ns to ms node X is made and becomes a child of n, which has m, if it is not full.
Alike(r, s) == s.name = r.name /\ s.kids = r.kids
Takes(r, s, m, c) ==
  /\ s.name = r.name
  /\ IF m < MAX_CHILDREN
     THEN /\ s.kids \in Seq(Nat) /\ Len(s.kids) = m + 1 /\ s.kids[m + 1] = c
          /\ \A k \in 1 .. m : s.kids[k] = r.kids[k]
     ELSE s.kids = r.kids
Joins(ns, ms, n, m, name) ==
  /\ IsNodes(ms) /\ Len(ms) = Len(ns) + 1 /\ Len(ns) \in Nat
  /\ ms[Len(ns) + 1].name = name /\ ms[Len(ns) + 1].kids = <<>>
  /\ \A i \in 1 .. Len(ns) : IF i = n THEN Takes(ns[i], ms[i], m, Len(ns) + 1) ELSE Alike(ns[i], ms[i])

KidLinked(ns, ms, n, m, c) ==
  /\ IsNodes(ms) /\ Len(ms) = Len(ns)
  /\ \A i \in 1 .. Len(ns) : IF i = n THEN Takes(ns[i], ms[i], m, c) ELSE ms[i] = ns[i]

LEMMA KidAdded ==
  ASSUME NEW ns, IsNodes(ns), NEW n \in 1 .. Len(ns), ns[n].kids \in Seq(Nat), NEW c \in Nat, NEW m, m = Len(ns[n].kids),
         NEW ms, ms = AddChild(ns, n, c)
  PROVE  KidLinked(ns, ms, n, m, c)
<1>1. PICK S : ns \in Seq(S)
  BY DEF IsNodes
<1>2. Len(ns) \in Nat /\ DOMAIN ns = 1 .. Len(ns) /\ \A i \in 1 .. Len(ns) : IsNode(ns[i])
  BY LenNodes DEF IsNodes
<1>3. CASE ~(m < MAX_CHILDREN)
  <2>1. ms = ns
    BY <1>3 DEF AddChild
  <2> QED BY <1>3, <2>1 DEF Takes, KidLinked
<1>4. CASE m < MAX_CHILDREN
  <2> DEFINE kids == Append(ns[n].kids, c)
             r == [ns[n] EXCEPT !.kids = kids]
  <2>1. ms = [ns EXCEPT ![n] = r]
    BY <1>4 DEF AddChild
  <2>2. kids \in Seq(Nat) /\ Len(kids) = m + 1 /\ kids[m + 1] = c /\ (\A k \in 1 .. m : kids[k] = ns[n].kids[k])
    <3>1. PICK q \in Seq(Nat) : q = ns[n].kids
      OBVIOUS
    <3>2. m = Len(q) /\ m \in Nat
      BY <3>1
    <3>3. Append(q, c) \in Seq(Nat) /\ Len(Append(q, c)) = m + 1 /\ Append(q, c)[m + 1] = c
          /\ (\A k \in 1 .. m : Append(q, c)[k] = q[k])
      BY <3>2
    <3> QED BY <3>1, <3>3
  <2> HIDE DEF kids
  <2>3. IsNode(r) /\ r.kids = kids /\ r.name = ns[n].name
    <3>1. IsNode(ns[n])
      BY <1>2
    <3> QED BY <3>1 DEF IsNode
  <2> HIDE DEF r
  <2>4. ms \in Seq(S \cup {r}) /\ Len(ms) = Len(ns) /\ \A i \in 1 .. Len(ns) : ms[i] = IF i = n THEN r ELSE ns[i]
    BY <1>1, <1>2, <2>1
  <2>5. \A i \in 1 .. Len(ns) : IsNode(ms[i])
    BY <1>2, <2>3, <2>4
  <2>6. Takes(ns[n], r, m, c)
    BY <1>4, <2>2, <2>3 DEF Takes
  <2> QED BY <2>4, <2>5, <2>6 DEF IsNodes, KidLinked
<1> QED BY <1>3, <1>4

\* A node is made and added.
LEMMA NodeJoins ==
  ASSUME NEW ns, IsNodes(ns), NEW X, IsNode(X), X.kids = <<>>, NEW n \in 1 .. Len(ns), ns[n].kids \in Seq(Nat),
         NEW m, m = Len(ns[n].kids), NEW ms, ms = AddChild(Append(ns, X), n, Len(ns) + 1)
  PROVE  Joins(ns, ms, n, m, X.name)
<1>1. PICK as : as = Append(ns, X)
  OBVIOUS
<1>2. /\ IsNodes(as) /\ Len(as) = Len(ns) + 1 /\ Len(ns) \in Nat /\ as[Len(ns) + 1] = X
      /\ \A i \in 1 .. Len(ns) : as[i] = ns[i]
  BY <1>1, AppendNode, LenNodes
<1>3. n \in 1 .. Len(as) /\ as[n].kids \in Seq(Nat) /\ m = Len(as[n].kids) /\ Len(ns) + 1 \in Nat /\ n # Len(ns) + 1
  <2>1. as[n] = ns[n]
    BY <1>2
  <2>2. n \in 1 .. Len(as) /\ Len(ns) + 1 \in Nat /\ n # Len(ns) + 1
    BY <1>2
  <2> QED BY <2>1, <2>2
<1>4. /\ IsNodes(ms) /\ Len(ms) = Len(as)
      /\ \A i \in 1 .. Len(as) : IF i = n THEN Takes(as[i], ms[i], m, Len(ns) + 1) ELSE ms[i] = as[i]
  <2>1. PICK c \in Nat : c = Len(ns) + 1
    BY <1>3
  <2>2. ms = AddChild(as, n, c)
    BY <1>1, <2>1
  <2>3. KidLinked(as, ms, n, m, c)
    BY <1>2, <1>3, <2>2, KidAdded
  <2> QED BY <2>1, <2>3 DEF KidLinked
<1>5. Len(ns) + 1 \in 1 .. Len(as) /\ \A i \in 1 .. Len(ns) : i \in 1 .. Len(as)
  BY <1>2
<1>6. ms[Len(ns) + 1] = X
  BY <1>2, <1>3, <1>4, <1>5
<1>7. \A i \in 1 .. Len(ns) : IF i = n THEN Takes(ns[i], ms[i], m, Len(ns) + 1) ELSE Alike(ns[i], ms[i])
  BY <1>2, <1>4, <1>5 DEF Alike
<1> QED BY <1>2, <1>4, <1>6, <1>7 DEF Joins

\* What a node has before and after.
LEMMA JoinedName ==
  ASSUME NEW ns, NEW ms, NEW n, NEW m, NEW name, Joins(ns, ms, n, m, name), NEW i \in 1 .. Len(ns)
  PROVE  ms[i].name = ns[i].name /\ i \in 1 .. Len(ms)
BY DEF Joins, Takes, Alike

More(ns, ms, n, m, L, l) ==
  /\ Has(ms, n, L, l) /\ ms[n].kids[l] = Len(ns) + 1
  /\ \A k \in 1 .. m : ms[n].kids[k] = ns[n].kids[k]
Still(ns, ms, i, L, q) == Has(ms, i, L, q) /\ ms[i].kids = ns[i].kids
LEMMA HasMore ==
  ASSUME NEW ns, NEW ms, NEW n, NEW m, NEW L, Has(ns, n, L, m), m < MAX_CHILDREN,
         NEW l, l = m + 1, Joins(ns, ms, n, m, L[l])
  PROVE  More(ns, ms, n, m, L, l)
<1>1. /\ n \in 1 .. Len(ns) /\ m \in Nat /\ Len(ns) \in Nat /\ Len(ms) = Len(ns) + 1 /\ ms[Len(ns) + 1].name = L[m + 1]
      /\ \A k \in 1 .. m : ns[n].kids[k] \in 1 .. Len(ns) /\ ns[ns[n].kids[k]].name = L[k]
  BY DEF Has, Joins
<1>2. /\ ms[n].kids \in Seq(Nat) /\ Len(ms[n].kids) = m + 1 /\ ms[n].kids[m + 1] = Len(ns) + 1
      /\ \A k \in 1 .. m : ms[n].kids[k] = ns[n].kids[k]
  BY <1>1 DEF Joins, Takes
<1>3. ASSUME NEW k \in 1 .. m PROVE ms[n].kids[k] \in 1 .. Len(ms) /\ ms[ms[n].kids[k]].name = L[k]
  <2>1. PICK c \in 1 .. Len(ns) : c = ns[n].kids[k]
    BY <1>1
  <2>2. ms[c].name = ns[c].name /\ c \in 1 .. Len(ms)
    BY JoinedName
  <2> QED BY <1>1, <1>2, <2>1, <2>2
<1>4. \A k \in 1 .. m + 1 : k \in 1 .. m \/ k = m + 1
  BY <1>1
<1>5. Len(ns) + 1 \in 1 .. Len(ms) /\ n \in 1 .. Len(ms) /\ m + 1 \in Nat
  BY <1>1
<1> QED BY <1>1, <1>2, <1>3, <1>4, <1>5 DEF Has, More

LEMMA HasStill ==
  ASSUME NEW ns, NEW ms, NEW n, NEW m, NEW name, Joins(ns, ms, n, m, name),
         NEW i, NEW L, NEW q, Has(ns, i, L, q), i # n \/ ~(m < MAX_CHILDREN)
  PROVE  Still(ns, ms, i, L, q)
<1>1. i \in 1 .. Len(ns) /\ ms[i].kids = ns[i].kids /\ i \in 1 .. Len(ms)
  BY JoinedName DEF Has, Joins, Takes, Alike
<1>2. ASSUME NEW k \in 1 .. q PROVE ms[i].kids[k] \in 1 .. Len(ms) /\ ms[ms[i].kids[k]].name = L[k]
  <2>1. PICK c \in 1 .. Len(ns) : c = ns[i].kids[k]
    BY DEF Has
  <2>2. ms[c].name = ns[c].name /\ c \in 1 .. Len(ms) /\ ns[c].name = L[k]
    BY <2>1, JoinedName DEF Has
  <2> QED BY <1>1, <2>1, <2>2
<1> QED BY <1>1, <1>2 DEF Has, Still

\* The child of a name.
Distinct(L, m) == \A i, j \in 1 .. m : L[i] = L[j] => i = j
LEMMA ChildIs ==
  ASSUME NEW ns, NEW n, NEW L, NEW m, Has(ns, n, L, m), Distinct(L, m), NEW k \in 1 .. m
  PROVE  DevChild(ns, n, L[k]) = ns[n].kids[k] /\ ns[n].kids[k] # NULL
<1> DEFINE K == {i \in DOMAIN ns[n].kids : ns[ns[n].kids[i]].name = L[k]}
<1>1. DOMAIN ns[n].kids = 1 .. m /\ \A i \in 1 .. m : ns[ns[n].kids[i]].name = L[i]
  BY DEF Has
<1>2. K = {k}
  BY <1>1 DEF Distinct
<1>3. Lowest(K) = k
  <2>1. \A l \in {k} : k <= l
    BY DEF Has
  <2>2. Lowest({k}) \in {k}
    BY <2>1 DEF Lowest
  <2> QED BY <1>2, <2>2
<1>4. ns[n].kids[k] # NULL
  BY DEF Has, NULL
<1> QED BY <1>2, <1>3, <1>4 DEF DevChild

LEMMA NoChild ==
  ASSUME NEW ns, NEW n, NEW L, NEW m, Has(ns, n, L, m), NEW name, \A k \in 1 .. m : L[k] # name
  PROVE  DevChild(ns, n, name) = NULL
<1>1. DOMAIN ns[n].kids = 1 .. m /\ \A i \in 1 .. m : ns[ns[n].kids[i]].name = L[i]
  BY DEF Has
<1>2. {i \in DOMAIN ns[n].kids : ns[ns[n].kids[i]].name = name} = {}
  BY <1>1
<1> QED BY <1>2 DEF DevChild

\* The tree when its root has the first T names, and folder t has the first w[t] of its own.
TopNames == <<"null", "zero", "urandom", "console", "tty", "ttyS0", "fb0", "input", "net", "disk", "pci">>
Inside(t, P) ==
  IF t = 8 THEN <<"kbd0">> ELSE IF t = 9 THEN <<"eth0">> ELSE IF t = 10 THEN <<"jurk_root", "sda">> ELSE P
Kid(ns, root, t) == ns[root].kids[t]
Ordered(ns, root, T) ==
  /\ \A s \in 1 .. T : Kid(ns, root, s) > root
  /\ \A s, t \in 1 .. T : s < t => Kid(ns, root, s) < Kid(ns, root, t)
Shape(ns, root, T, w, P) ==
  /\ IsNodes(ns) /\ T \in 0 .. 11 /\ Has(ns, root, TopNames, T) /\ Ordered(ns, root, T)
  /\ \A t \in 8 .. T : Has(ns, Kid(ns, root, t), Inside(t, P), w[t])

LEMMA FolderIsNotRoot ==
  ASSUME NEW ns, NEW root, NEW T, NEW w, NEW P, Shape(ns, root, T, w, P), NEW t \in 1 .. T
  PROVE  Kid(ns, root, t) # root /\ root \in 1 .. Len(ns) /\ Kid(ns, root, t) \in 1 .. Len(ns) /\ Len(ns) \in Nat
<1>1. root \in 1 .. Len(ns) /\ Kid(ns, root, t) \in 1 .. Len(ns) /\ Kid(ns, root, t) > root
  BY DEF Shape, Has, Kid, Ordered
<1>2. Len(ns) \in Nat
  BY LenNodes DEF Shape
<1> QED BY <1>1, <1>2

LEMMA OrderedMore ==
  ASSUME NEW ns, NEW ms, NEW root, NEW T \in Nat, Ordered(ns, root, T), root \in 1 .. Len(ns), Len(ns) \in Nat,
         \A s \in 1 .. T : Kid(ns, root, s) \in 1 .. Len(ns) /\ Kid(ms, root, s) = Kid(ns, root, s),
         Kid(ms, root, T + 1) = Len(ns) + 1
  PROVE  Ordered(ms, root, T + 1)
<1>1. \A s \in 1 .. T + 1 : s \in 1 .. T \/ s = T + 1
  OBVIOUS
<1>2. ASSUME NEW s \in 1 .. T + 1 PROVE Kid(ms, root, s) > root
  BY <1>1 DEF Ordered
<1>3. ASSUME NEW s \in 1 .. T + 1, NEW t \in 1 .. T + 1, s < t PROVE Kid(ms, root, s) < Kid(ms, root, t)
  <2>1. s \in 1 .. T
    BY <1>3
  <2>2. CASE t \in 1 .. T
    BY <1>3, <2>1, <2>2 DEF Ordered
  <2>3. CASE t = T + 1
    <3>1. PICK a \in 1 .. Len(ns) : a = Kid(ms, root, s)
      BY <2>1
    <3> QED BY <2>3, <3>1
  <2> QED BY <1>1, <2>2, <2>3
<1> QED BY <1>2, <1>3 DEF Ordered

LEMMA OrderedStill ==
  ASSUME NEW ns, NEW ms, NEW root, NEW T, Ordered(ns, root, T), ms[root].kids = ns[root].kids
  PROVE  Ordered(ms, root, T)
BY DEF Ordered, Kid

\* A device at the root.
LEMMA LeafShape ==
  ASSUME NEW ns, NEW ms, NEW root, NEW T, NEW w, NEW P, Shape(ns, root, T, w, P), T < 7,
         NEW U, U = T + 1, Joins(ns, ms, root, T, TopNames[U])
  PROVE  Shape(ms, root, U, w, P)
<1>1. T \in Nat /\ T < MAX_CHILDREN /\ U \in 0 .. 11 /\ 8 .. U = {}
  BY DEF Shape, MAX_CHILDREN
<1>2. Has(ms, root, TopNames, U) /\ ms[root].kids[U] = Len(ns) + 1
      /\ \A k \in 1 .. T : ms[root].kids[k] = ns[root].kids[k]
  <2>1. Has(ns, root, TopNames, T) /\ T < MAX_CHILDREN
    BY <1>1 DEF Shape
  <2>2. More(ns, ms, root, T, TopNames, U)
    BY <2>1, HasMore, Zenon
  <2> QED BY <2>2 DEF More
<1>3. Ordered(ms, root, U)
  <2>1. \A s \in 1 .. T : Kid(ns, root, s) \in 1 .. Len(ns) /\ Kid(ms, root, s) = Kid(ns, root, s)
    BY <1>2 DEF Shape, Has, Kid
  <2>2. Kid(ms, root, U) = Len(ns) + 1 /\ Len(ns) \in Nat /\ root \in 1 .. Len(ns)
    BY <1>2, LenNodes DEF Kid, Shape, Has
  <2> QED BY <1>1, <2>1, <2>2, OrderedMore DEF Shape
<1> QED BY <1>1, <1>2, <1>3 DEF Shape, Joins

\* A folder is made and a device put into it.
LEMMA FolderShape ==
  ASSUME NEW ns, NEW as, NEW ms, NEW root, NEW T, NEW w, NEW v, NEW P, Shape(ns, root, T, w, P), T >= 7, T < 11,
         NEW U, U = T + 1, NEW f, f = Len(as), NEW none, none = 0,
         Joins(ns, as, root, T, TopNames[U]), Joins(as, ms, f, none, Inside(U, P)[1]),
         \A t \in 8 .. T : v[t] = w[t], v[U] = 1
  PROVE  Shape(ms, root, U, v, P)
<1>1. T \in Nat /\ T < MAX_CHILDREN /\ U \in 0 .. 11 /\ none < MAX_CHILDREN
  BY DEF Shape, MAX_CHILDREN
<1>2. Has(as, root, TopNames, U) /\ as[root].kids[U] = Len(ns) + 1
      /\ \A k \in 1 .. T : as[root].kids[k] = ns[root].kids[k]
  <2>1. Has(ns, root, TopNames, T) /\ T < MAX_CHILDREN
    BY <1>1 DEF Shape
  <2>2. More(ns, as, root, T, TopNames, U)
    BY <2>1, HasMore, Zenon
  <2> QED BY <2>2 DEF More
<1>3. Len(ns) \in Nat /\ root \in 1 .. Len(ns) /\ f = Len(ns) + 1 /\ root # f
  BY LenNodes DEF Shape, Has, Joins
<1>4. Has(ms, root, TopNames, U) /\ ms[root].kids = as[root].kids
  <2>1. Still(as, ms, root, TopNames, U)
    BY <1>2, <1>3, HasStill, Zenon
  <2> QED BY <2>1 DEF Still
<1>5. Ordered(ms, root, U)
  <2>1. \A s \in 1 .. T : Kid(ns, root, s) \in 1 .. Len(ns) /\ Kid(ms, root, s) = Kid(ns, root, s)
    BY <1>2, <1>4 DEF Shape, Has, Kid
  <2>2. Kid(ms, root, U) = Len(ns) + 1
    BY <1>2, <1>4 DEF Kid
  <2> QED BY <1>1, <1>3, <2>1, <2>2, OrderedMore DEF Shape
<1>6. ASSUME NEW t \in 8 .. T PROVE Has(ms, Kid(ms, root, t), Inside(t, P), v[t])
  <2>1. PICK c : c = Kid(ns, root, t)
    OBVIOUS
  <2>2. Has(ns, c, Inside(t, P), v[t]) /\ t \in 1 .. T
    BY <1>1, <2>1 DEF Shape
  <2>3. c # root /\ c # f
    BY <1>3, <2>1, <2>2, FolderIsNotRoot
  <2>4. Has(as, c, Inside(t, P), v[t])
    BY <2>2, <2>3, HasStill DEF Still
  <2>5. Has(ms, c, Inside(t, P), v[t])
    <3>1. Still(as, ms, c, Inside(t, P), v[t])
      BY <2>3, <2>4, HasStill, Zenon
    <3> QED BY <3>1 DEF Still
  <2>6. Kid(ms, root, t) = c
    BY <1>2, <1>4, <2>1, <2>2 DEF Kid
  <2> QED BY <2>5, <2>6
<1>7. Has(ms, Kid(ms, root, U), Inside(U, P), 1)
  <2>1. Kid(ms, root, U) = f
    BY <1>2, <1>3, <1>4 DEF Kid
  <2>2. as[f].kids = <<>> /\ f \in 1 .. Len(as)
    BY <1>3 DEF Joins
  <2>3. PICK L : L = Inside(U, P)
    OBVIOUS
  <2>4. Has(as, f, L, none)
    <3>1. <<>> \in Seq(Nat) /\ Len(<<>>) = 0 /\ 1 .. 0 = {}
      OBVIOUS
    <3> QED BY <2>2, <3>1 DEF Has
  <2>5. PICK one : one = none + 1 /\ one = 1
    OBVIOUS
  <2>6. Joins(as, ms, f, none, L[one])
    BY <2>3, <2>5
  <2>7. Has(ms, f, L, one)
    BY <1>1, <2>4, <2>5, <2>6, HasMore DEF More
  <2> QED BY <2>1, <2>3, <2>5, <2>7
<1>8. \A t \in 8 .. U : t \in 8 .. T \/ t = U
  BY <1>1
<1> QED BY <1>1, <1>4, <1>5, <1>6, <1>7, <1>8 DEF Shape, Joins

\* A device in the folder made last.
LEMMA DeviceShape ==
  ASSUME NEW ns, NEW ms, NEW root, NEW T, NEW w, NEW v, NEW P, Shape(ns, root, T, w, P), T >= 8,
         NEW name, Joins(ns, ms, Kid(ns, root, T), w[T], name),
         w[T] < MAX_CHILDREN => name = Inside(T, P)[w[T] + 1],
         \A t \in 8 .. T : t # T => v[t] = w[t], v[T] = IF w[T] < MAX_CHILDREN THEN w[T] + 1 ELSE w[T]
  PROVE  Shape(ms, root, T, v, P)
<1>1. T \in Nat /\ T \in 0 .. 11 /\ T \in 8 .. T /\ T \in 1 .. T
  BY DEF Shape
<1>2. PICK f : f = Kid(ns, root, T)
  OBVIOUS
<1>3. f # root /\ root \in 1 .. Len(ns) /\ f \in 1 .. Len(ns) /\ Len(ns) \in Nat
  BY <1>1, <1>2, FolderIsNotRoot
<1>4. Has(ms, root, TopNames, T) /\ ms[root].kids = ns[root].kids
  BY <1>2, <1>3, HasStill DEF Shape, Still
<1>5. Ordered(ms, root, T)
  BY <1>4, OrderedStill DEF Shape
<1>6. \A t : Kid(ms, root, t) = Kid(ns, root, t)
  BY <1>4 DEF Kid
<1>7. ASSUME NEW t \in 8 .. T, t # T PROVE Has(ms, Kid(ms, root, t), Inside(t, P), v[t])
  <2>1. PICK c : c = Kid(ns, root, t)
    OBVIOUS
  <2>2. Has(ns, c, Inside(t, P), v[t]) /\ t \in 1 .. T /\ t < T
    BY <1>1, <1>7, <2>1 DEF Shape
  <2>3. c # f
    <3>1. c < f
      BY <1>1, <1>2, <2>1, <2>2 DEF Shape, Ordered
    <3>2. c \in 1 .. Len(ns)
      BY <2>1, <2>2, FolderIsNotRoot
    <3> QED BY <1>3, <3>1, <3>2
  <2>4. Has(ms, c, Inside(t, P), v[t])
    BY <1>2, <2>2, <2>3, HasStill DEF Still
  <2> QED BY <1>6, <2>1, <2>4
<1>8. Has(ms, Kid(ms, root, T), Inside(T, P), v[T])
  <2>1. PICK L, m : L = Inside(T, P) /\ m = w[T]
    OBVIOUS
  <2>2. Has(ns, f, L, m) /\ Joins(ns, ms, f, m, name)
    BY <1>1, <1>2, <2>1 DEF Shape
  <2>3. CASE m < MAX_CHILDREN
    <3>3. Joins(ns, ms, f, m, L[m + 1])
      BY <2>1, <2>2, <2>3
    <3>1. PICK l : l = m + 1
      OBVIOUS
    <3>2. Has(ms, f, L, l)
      BY <2>2, <2>3, <3>1, <3>3, HasMore DEF More
    <3> QED BY <1>2, <1>6, <2>1, <2>3, <3>1, <3>2
  <2>4. CASE ~(m < MAX_CHILDREN)
    <3>1. Has(ms, f, L, m)
      BY <2>2, <2>4, HasStill DEF Still
    <3> QED BY <1>2, <1>6, <2>1, <2>4, <3>1
  <2> QED BY <2>3, <2>4
<1> QED BY <1>1, <1>4, <1>5, <1>7, <1>8 DEF Shape, Joins

\* A registration.
LEMMA MakesNode ==
  ASSUME NEW name, NEW flags, NEW ops
  PROVE  IsNode(DevNode(name, flags, ops)) /\ DevNode(name, flags, ops).kids = <<>> /\ DevNode(name, flags, ops).name = name
BY DEF DevNode, Node, IsNode

LEMMA RootDevice ==
  ASSUME IsNodes(nodes), dev_root \in 1 .. Len(nodes), nodes[dev_root].kids \in Seq(Nat),
         NEW m, m = Len(nodes[dev_root].kids), NEW r, NEW x, r.path = <<x>>
  PROVE  Joins(nodes, Registered(r), dev_root, m, x)
<1> DEFINE X == DevNode(x, r.flags, r.ops)
<1>1. Len(r.path) = 1 /\ r.path[1] = x /\ dev_root # NULL
  BY LenNodes DEF NULL
<1>2. Registered(r) = AddChild(Append(nodes, X), dev_root, Len(nodes) + 1)
  BY <1>1 DEF Registered
<1>3. IsNode(X) /\ X.kids = <<>> /\ X.name = x
  BY MakesNode
<1> HIDE DEF X
<1>4. Joins(nodes, Registered(r), dev_root, m, X.name)
  BY <1>2, <1>3, NodeJoins
<1> QED BY <1>3, <1>4

LEMMA KnownFolder ==
  ASSUME IsNodes(nodes), NEW r, NEW d, NEW x, r.path = <<d, x>>, NEW f \in 1 .. Len(nodes), Folder(nodes, d) = f,
         nodes[f].kids \in Seq(Nat), NEW m, m = Len(nodes[f].kids)
  PROVE  Joins(nodes, Registered(r), f, m, x)
<1> DEFINE X == DevNode(x, r.flags, r.ops)
<1>1. Len(r.path) = 2 /\ r.path[1] = d /\ r.path[2] = x /\ f # NULL
  BY LenNodes DEF NULL
<1>2. Registered(r) = AddChild(Append(nodes, X), f, Len(nodes) + 1)
  BY <1>1 DEF Registered
<1>3. IsNode(X) /\ X.kids = <<>> /\ X.name = x
  BY MakesNode
<1> HIDE DEF X
<1>4. Joins(nodes, Registered(r), f, m, X.name)
  BY <1>2, <1>3, NodeJoins
<1> QED BY <1>3, <1>4

LEMMA FolderDevice ==
  ASSUME IsNodes(nodes), dev_root \in 1 .. Len(nodes), nodes[dev_root].kids \in Seq(Nat),
         NEW m, m = Len(nodes[dev_root].kids), NEW r, NEW d, NEW x, r.path = <<d, x>>, Folder(nodes, d) = NULL
  PROVE  \E as : Joins(nodes, as, dev_root, m, d) /\ Joins(as, Registered(r), Len(as), 0, x)
<1> DEFINE D == DevNode(d, VFS_DIRECTORY, {})
           X == DevNode(x, r.flags, r.ops)
           as == AddChild(Append(nodes, D), dev_root, Len(nodes) + 1)
<1>1. Len(r.path) = 2 /\ r.path[1] = d /\ r.path[2] = x
  OBVIOUS
<1>2. Registered(r) = AddChild(Append(as, X), Len(as), Len(as) + 1)
  BY <1>1 DEF Registered
<1>3. IsNode(X) /\ X.kids = <<>> /\ X.name = x /\ IsNode(D) /\ D.kids = <<>> /\ D.name = d
  BY MakesNode
<1> HIDE DEF X, D
<1>4. Joins(nodes, as, dev_root, m, D.name)
  BY <1>3, NodeJoins
<1> HIDE DEF as
<1>5. IsNodes(as) /\ Len(as) = Len(nodes) + 1 /\ Len(nodes) \in Nat /\ as[Len(as)].kids = <<>>
  BY <1>4 DEF Joins
<1>6. PICK n, k : n = Len(as) /\ k = 0
  OBVIOUS
<1>7. n \in 1 .. Len(as) /\ as[n].kids \in Seq(Nat) /\ k = Len(as[n].kids)
  <2>1. <<>> \in Seq(Nat) /\ Len(<<>>) = 0
    OBVIOUS
  <2>2. as[n].kids = <<>>
    BY <1>5, <1>6, Zenon
  <2>3. n \in 1 .. Len(as)
    <3>1. Len(nodes) + 1 \in 1 .. Len(nodes) + 1
      BY <1>5
    <3> QED BY <1>5, <1>6, <3>1, Zenon
  <2> QED BY <1>6, <2>1, <2>2, <2>3, Zenon
<1>8. Registered(r) = AddChild(Append(as, X), n, Len(as) + 1)
  BY <1>2, <1>6
<1>9. Joins(as, Registered(r), n, k, X.name)
  BY <1>3, <1>5, <1>7, <1>8, NodeJoins
<1> QED BY <1>3, <1>4, <1>6, <1>9

\* What is registered, and the tree after the first j.
Tops(j) == IF j <= 10 THEN j ELSE IF j = 11 THEN 10 ELSE 11
Upto(j) == IF j < MAX_CHILDREN THEN j ELSE MAX_CHILDREN
Sizes(j) == [t \in 8 .. 11 |-> IF t = 10 /\ j # 10 THEN 2 ELSE IF t = 11 THEN Upto(j - 11) ELSE 1]
Tree(ns, root, j, P) == Shape(ns, root, Tops(j), Sizes(j), P)
PathOf(j, P) ==
  IF j <= 7 THEN <<TopNames[j]>>
  ELSE IF j <= 10 THEN <<TopNames[j], Inside(j, P)[1]>>
  ELSE IF j = 11 THEN <<TopNames[10], Inside(10, P)[2]>>
  ELSE <<TopNames[11], P[j - 11]>>

LEMMA DevicesAre ==
  /\ Len(Devices) = 11 /\ \E S : Devices \in Seq(S)
  /\ \A j \in 1 .. 11 : \A P : Devices[j].path = PathOf(j, P)
<1>1. Len(Devices) = 11 /\ \E S : Devices \in Seq(S)
  <2>1. PICK a, b, c, d, e, f, g, h, i, j, k : Devices = <<a, b, c, d, e, f, g, h, i, j, k>>
    BY DEF Devices
  <2>2. <<a, b, c, d, e, f, g, h, i, j, k>> \in Seq({a, b, c, d, e, f, g, h, i, j, k})
    OBVIOUS
  <2>3. Len(<<a, b, c, d, e, f, g, h, i, j, k>>) = 11
    OBVIOUS
  <2> QED BY <2>1, <2>2, <2>3
<1>2. /\ Devices[1].path = <<"null">> /\ Devices[2].path = <<"zero">> /\ Devices[3].path = <<"urandom">>
      /\ Devices[4].path = <<"console">> /\ Devices[5].path = <<"tty">> /\ Devices[6].path = <<"ttyS0">>
      /\ Devices[7].path = <<"fb0">>
  BY DEF Devices, Device
<1>3. /\ Devices[8].path = <<"input", "kbd0">> /\ Devices[9].path = <<"net", "eth0">>
      /\ Devices[10].path = <<"disk", "jurk_root">> /\ Devices[11].path = <<"disk", "sda">>
  BY DEF Devices, Device
<1>4. /\ TopNames[1] = "null" /\ TopNames[2] = "zero" /\ TopNames[3] = "urandom" /\ TopNames[4] = "console"
      /\ TopNames[5] = "tty" /\ TopNames[6] = "ttyS0" /\ TopNames[7] = "fb0"
  BY DEF TopNames
<1>5. TopNames[8] = "input" /\ TopNames[9] = "net" /\ TopNames[10] = "disk" /\ TopNames[11] = "pci"
  BY DEF TopNames
<1>6. ASSUME NEW P PROVE Inside(8, P)[1] = "kbd0" /\ Inside(9, P)[1] = "eth0" /\ Inside(10, P)[1] = "jurk_root" /\ Inside(10, P)[2] = "sda"
  BY DEF Inside
<1>7. ASSUME NEW j \in 1 .. 7, NEW P PROVE Devices[j].path = PathOf(j, P)
  <2>1. PathOf(j, P) = <<TopNames[j]>>
    BY DEF PathOf
  <2>2. j = 1 \/ j = 2 \/ j = 3 \/ j = 4 \/ j = 5 \/ j = 6 \/ j = 7
    OBVIOUS
  <2> QED BY <1>2, <1>4, <2>1, <2>2, Zenon
<1>8. ASSUME NEW P
      PROVE  /\ Devices[8].path = PathOf(8, P) /\ Devices[9].path = PathOf(9, P)
             /\ Devices[10].path = PathOf(10, P) /\ Devices[11].path = PathOf(11, P)
  <2>1. /\ PathOf(8, P) = <<TopNames[8], Inside(8, P)[1]>> /\ PathOf(9, P) = <<TopNames[9], Inside(9, P)[1]>>
        /\ PathOf(10, P) = <<TopNames[10], Inside(10, P)[1]>> /\ PathOf(11, P) = <<TopNames[10], Inside(10, P)[2]>>
    BY DEF PathOf
  <2> QED BY <1>3, <1>5, <1>6, <2>1, Zenon
<1>9. \A j \in 1 .. 11 : j \in 1 .. 7 \/ j = 8 \/ j = 9 \/ j = 10 \/ j = 11
  OBVIOUS
<1>10. \A j \in 1 .. 11 : \A P : Devices[j].path = PathOf(j, P)
  BY <1>7, <1>8, <1>9, Zenon
<1> QED BY <1>1, <1>10

LEMMA RegistrationsAre ==
  ASSUME NEW T, pci_devices \in Seq(T)
  PROVE  /\ IsPath(Registrations) /\ Len(Registrations) = 11 + Len(pci_devices) /\ Len(pci_devices) \in Nat
         /\ \A j \in 1 .. Len(Registrations) : Registrations[j].path = PathOf(j, pci_devices)
<1>1. PICK D, S : D = Devices /\ D \in Seq(S) /\ Len(D) = 11 /\ \A j \in 1 .. 11 : \A P : D[j].path = PathOf(j, P)
  BY DevicesAre
<1> DEFINE dev(k) == Device(<<"pci", pci_devices[k]>>, VFS_CHARDEVICE, {})
           E == [k \in DOMAIN pci_devices |-> dev(k)]
           U == {dev(k) : k \in 1 .. Len(pci_devices)}
<1>2. \A k : dev(k).path = <<"pci", pci_devices[k]>>
  BY DEF Device
<1> HIDE DEF dev
<1>3. E \in Seq(U) /\ Len(E) = Len(pci_devices) /\ Len(pci_devices) \in Nat /\ \A k \in 1 .. Len(E) : E[k] = dev(k)
  OBVIOUS
<1>4. Registrations = D \o E
  BY <1>1 DEF Registrations, dev
<1> HIDE DEF E, U
<1>5. PICK W : W = S \cup U
  OBVIOUS
<1>6. D \in Seq(W) /\ E \in Seq(W)
  BY <1>1, <1>3, <1>5
<1>7. /\ D \o E \in Seq(W) /\ Len(D \o E) = Len(D) + Len(E)
      /\ \A j \in 1 .. Len(D) + Len(E) : (D \o E)[j] = IF j <= Len(D) THEN D[j] ELSE E[j - Len(D)]
  BY <1>6
<1>8. ASSUME NEW j \in 1 .. 11 + Len(pci_devices) PROVE Registrations[j].path = PathOf(j, pci_devices)
  <2>1. CASE j <= 11
    BY <1>1, <1>3, <1>4, <1>7, <2>1
  <2>2. CASE ~(j <= 11)
    <3>1. PICK k \in 1 .. Len(E) : k = j - 11
      BY <1>3, <2>2
    <3>2. Registrations[j] = E[k]
      BY <1>1, <1>3, <1>4, <1>7, <2>2, <3>1
    <3>3. Registrations[j].path = <<"pci", pci_devices[k]>>
      BY <1>2, <1>3, <3>2
    <3>4. PathOf(j, pci_devices) = <<TopNames[11], pci_devices[k]>>
      BY <2>2, <3>1 DEF PathOf
    <3>5. TopNames[11] = "pci"
      BY DEF TopNames
    <3> QED BY <3>3, <3>4, <3>5
  <2> QED BY <2>1, <2>2
<1> QED BY <1>1, <1>3, <1>4, <1>7, <1>8 DEF IsPath

LEMMA TopNamesDiffer == Distinct(TopNames, 11)
<1>1. ASSUME NEW i \in 1 .. 11, NEW j \in 1 .. 11, TopNames[i] = TopNames[j] PROVE i = j
  BY <1>1 DEF TopNames
<1> QED BY <1>1 DEF Distinct

LEMMA RootStep ==
  ASSUME NEW j \in Nat, j < 7, dev_root # NULL, NEW P, Tree(nodes, dev_root, j, P),
         NEW r, NEW l, l = j + 1, r.path = PathOf(l, P)
  PROVE  Tree(Registered(r), dev_root, l, P)
<1> DEFINE w == Sizes(j)
<1>1. Tops(j) = j /\ Tops(l) = l /\ PathOf(l, P) = <<TopNames[l]>> /\ l \in Nat
  BY DEF Tops, PathOf
<1>2. Shape(nodes, dev_root, j, w, P)
  BY <1>1 DEF Tree
<1>3. IsNodes(nodes) /\ dev_root \in 1 .. Len(nodes) /\ nodes[dev_root].kids \in Seq(Nat) /\ j = Len(nodes[dev_root].kids)
  BY <1>2 DEF Shape, Has
<1>4. Joins(nodes, Registered(r), dev_root, j, TopNames[l])
  BY <1>1, <1>3, RootDevice
<1> HIDE DEF w
<1>5. Shape(Registered(r), dev_root, l, w, P)
  BY <1>2, <1>4, LeafShape
<1>6. Shape(Registered(r), dev_root, l, Sizes(l), P)
  <2>1. 8 .. l = {}
    BY <1>1
  <2> QED BY <1>5, <2>1 DEF Shape
<1> QED BY <1>1, <1>6 DEF Tree

LEMMA FolderStep ==
  ASSUME NEW j \in {7, 8, 9, 11}, dev_root # NULL, NEW P, Tree(nodes, dev_root, j, P),
         NEW r, NEW l, l = j + 1, r.path = PathOf(l, P)
  PROVE  Tree(Registered(r), dev_root, l, P)
<1>0. PICK w, v : w = Sizes(j) /\ v = Sizes(l)
  OBVIOUS
<1>1. PICK T, U : T = Tops(j) /\ U = Tops(l)
  OBVIOUS
<1>2. T \in Nat /\ U \in Nat /\ U = T + 1 /\ T >= 7 /\ T < 11 /\ U \in 8 .. 11 /\ l \in Nat
  BY <1>1 DEF Tops
<1>3. r.path = <<TopNames[U], Inside(U, P)[1]>>
  BY <1>1 DEF Tops, PathOf, Inside
<1>4. v[U] = 1 /\ \A t \in 8 .. T : v[t] = w[t]
  BY <1>0, <1>1 DEF Tops, Sizes, Upto, MAX_CHILDREN
<1>5. Shape(nodes, dev_root, T, w, P)
  BY <1>0, <1>1 DEF Tree
<1>6. IsNodes(nodes) /\ Has(nodes, dev_root, TopNames, T) /\ dev_root \in 1 .. Len(nodes) /\ nodes[dev_root].kids \in Seq(Nat) /\ T = Len(nodes[dev_root].kids)
  BY <1>5 DEF Shape, Has
<1>7. Folder(nodes, TopNames[U]) = NULL
  <2>1. \A k \in 1 .. T : TopNames[k] # TopNames[U]
    BY <1>2, TopNamesDiffer DEF Distinct
  <2> QED BY <1>6, <2>1, NoChild DEF Folder
<1>8. PICK as : Joins(nodes, as, dev_root, T, TopNames[U]) /\ Joins(as, Registered(r), Len(as), 0, Inside(U, P)[1])
  BY <1>3, <1>6, <1>7, FolderDevice
<1>9. Shape(Registered(r), dev_root, U, v, P)
  BY <1>2, <1>4, <1>5, <1>8, FolderShape
<1> QED BY <1>0, <1>1, <1>9 DEF Tree

LEMMA DeviceStep ==
  ASSUME NEW j \in Nat, j = 10 \/ j >= 12, dev_root # NULL, NEW P, Tree(nodes, dev_root, j, P),
         NEW r, NEW l, l = j + 1, r.path = PathOf(l, P)
  PROVE  Tree(Registered(r), dev_root, l, P)
<1>0. PICK w, v : w = Sizes(j) /\ v = Sizes(l)
  OBVIOUS
<1>1. PICK T : T = Tops(j)
  OBVIOUS
<1>2. T \in {10, 11} /\ T = Tops(l) /\ l \in Nat /\ T \in 1 .. T /\ T \in 1 .. 11 /\ T >= 8
  BY <1>1 DEF Tops
<1>3. PICK x : r.path = <<TopNames[T], x>> /\ (w[T] < MAX_CHILDREN => x = Inside(T, P)[w[T] + 1])
  BY <1>0, <1>1 DEF Tops, PathOf, Inside, Sizes, Upto, MAX_CHILDREN
<1>4. v[T] = (IF w[T] < MAX_CHILDREN THEN w[T] + 1 ELSE w[T]) /\ \A t \in 8 .. T : t # T => v[t] = w[t]
  BY <1>0, <1>1 DEF Tops, Sizes, Upto, MAX_CHILDREN
<1>5. Shape(nodes, dev_root, T, w, P)
  BY <1>0, <1>1 DEF Tree
<1>6. PICK f : f = Kid(nodes, dev_root, T)
  OBVIOUS
<1>7. IsNodes(nodes) /\ Has(nodes, dev_root, TopNames, T) /\ f \in 1 .. Len(nodes)
  BY <1>2, <1>5, <1>6, FolderIsNotRoot DEF Shape
<1>8. Folder(nodes, TopNames[T]) = f
  <2>1. Distinct(TopNames, T)
    BY <1>2, TopNamesDiffer DEF Distinct
  <2>2. DevChild(nodes, dev_root, TopNames[T]) = nodes[dev_root].kids[T]
    BY <1>2, <1>7, <2>1, ChildIs
  <2> QED BY <1>6, <2>2 DEF Folder, Kid
<1>9. nodes[f].kids \in Seq(Nat) /\ w[T] = Len(nodes[f].kids)
  <2>1. T \in 8 .. T
    BY <1>2
  <2> QED BY <1>5, <1>6, <2>1 DEF Shape, Has
<1>10. Joins(nodes, Registered(r), f, w[T], x)
  BY <1>3, <1>7, <1>8, <1>9, KnownFolder
<1>11. Shape(Registered(r), dev_root, T, v, P)
  BY <1>2, <1>3, <1>4, <1>5, <1>6, <1>10, DeviceShape
<1> QED BY <1>0, <1>1, <1>2, <1>11 DEF Tree

LEMMA RegisterStep ==
  ASSUME NEW j \in Nat, dev_root # NULL, NEW P, Tree(nodes, dev_root, j, P),
         NEW r, NEW l, l = j + 1, r.path = PathOf(l, P)
  PROVE  Tree(Registered(r), dev_root, l, P)
<1>1. j < 7 \/ j \in {7, 8, 9, 11} \/ j = 10 \/ j >= 12
  OBVIOUS
<1> QED BY <1>1, RootStep, FolderStep, DeviceStep

\* Nodes are added, and those there were keep their names and children.
Keeps(ns, ms) ==
  IsNodes(ns) /\ IsNodes(ms) /\ Len(ns) <= Len(ms) /\ \A i \in 1 .. Len(ns) : Alike(ns[i], ms[i])

LEMMA HasKept ==
  ASSUME NEW ns, NEW ms, Keeps(ns, ms), NEW n, NEW L, NEW m, Has(ns, n, L, m)
  PROVE  Still(ns, ms, n, L, m)
<1>1. Len(ns) \in Nat /\ Len(ms) \in Nat /\ n \in 1 .. Len(ns)
  BY LenNodes DEF Keeps, Has
<1>2. \A i \in 1 .. Len(ns) : i \in 1 .. Len(ms) /\ ms[i].name = ns[i].name /\ ms[i].kids = ns[i].kids
  BY <1>1 DEF Keeps, Alike
<1>3. ASSUME NEW k \in 1 .. m PROVE ms[n].kids[k] \in 1 .. Len(ms) /\ ms[ms[n].kids[k]].name = L[k]
  <2>1. PICK c \in 1 .. Len(ns) : c = ns[n].kids[k] /\ ns[c].name = L[k]
    BY DEF Has
  <2> QED BY <1>1, <1>2, <2>1
<1> QED BY <1>1, <1>2, <1>3 DEF Has, Still

LEMMA ShapeKept ==
  ASSUME NEW ns, NEW ms, Keeps(ns, ms), NEW root, NEW T, NEW w, NEW P, Shape(ns, root, T, w, P)
  PROVE  Shape(ms, root, T, w, P)
<1>1. Has(ns, root, TopNames, T) /\ Ordered(ns, root, T)
  BY DEF Shape
<1>2. Has(ms, root, TopNames, T) /\ ms[root].kids = ns[root].kids
  <2>1. Still(ns, ms, root, TopNames, T)
    BY <1>1, HasKept
  <2> QED BY <2>1 DEF Still
<1>3. Ordered(ms, root, T)
  BY <1>1, <1>2, OrderedStill
<1>4. ASSUME NEW t \in 8 .. T PROVE Has(ms, Kid(ms, root, t), Inside(t, P), w[t])
  <2>1. Has(ns, Kid(ns, root, t), Inside(t, P), w[t])
    BY DEF Shape
  <2>2. Still(ns, ms, Kid(ns, root, t), Inside(t, P), w[t])
    BY <2>1, HasKept
  <2> QED BY <1>2, <2>2 DEF Still, Kid
<1> QED BY <1>2, <1>3, <1>4 DEF Shape, Keeps

LEMMA AppendKeeps ==
  ASSUME NEW ns, IsNodes(ns), NEW X, IsNode(X) PROVE Keeps(ns, Append(ns, X))
<1>1. Len(ns) \in Nat
  BY LenNodes
<1>2. /\ IsNodes(Append(ns, X)) /\ Len(Append(ns, X)) = Len(ns) + 1
      /\ \A n \in 1 .. Len(ns) : Append(ns, X)[n] = ns[n]
  BY AppendNode
<1> QED BY <1>1, <1>2 DEF Keeps, Alike

LEMMA PointerKeeps ==
  ASSUME NEW ns, IsNodes(ns), NEW n, NEW p PROVE Keeps(ns, [ns EXCEPT ![n].ptr = p])
<1> DEFINE r == [ns[n] EXCEPT !.ptr = p]
           ms == [ns EXCEPT ![n].ptr = p]
<1>1. PICK S : ns \in Seq(S)
  BY DEF IsNodes
<1>2. Len(ns) \in Nat /\ DOMAIN ns = 1 .. Len(ns) /\ \A i \in 1 .. Len(ns) : IsNode(ns[i])
  BY LenNodes DEF IsNodes
<1>3. CASE n \notin 1 .. Len(ns)
  <2>1. ms = ns
    BY <1>1, <1>2, <1>3
  <2>2. Keeps(ns, ns)
    BY <1>2 DEF Keeps, Alike
  <2> QED BY <2>1, <2>2, Zenon
<1>4. CASE n \in 1 .. Len(ns)
  <2>1. ms = [ns EXCEPT ![n] = r]
    OBVIOUS
  <2>2. IsNode(r) /\ Alike(ns[n], r)
    <3>1. IsNode(ns[n])
      BY <1>2, <1>4
    <3> QED BY <3>1 DEF IsNode, Alike
  <2> HIDE DEF r, ms
  <2>3. ms \in Seq(S \cup {r}) /\ Len(ms) = Len(ns) /\ \A i \in 1 .. Len(ns) : ms[i] = IF i = n THEN r ELSE ns[i]
    BY <1>1, <1>2, <1>4, <2>1
  <2>4. \A i \in 1 .. Len(ns) : IsNode(ms[i]) /\ Alike(ns[i], ms[i])
    BY <1>2, <2>2, <2>3 DEF Alike
  <2>5. Keeps(ns, ms)
    BY <1>2, <2>3, <2>4 DEF Keeps, IsNodes
  <2> QED BY <2>5 DEF ms
<1> QED BY <1>3, <1>4

\* A new root.
LEMMA FirstTree ==
  ASSUME NEW ns, IsNodes(ns), NEW P, NEW ms, ms = Append(ns, DevNode("dev", VFS_DIRECTORY, {})),
         NEW root, root = Len(ms)
  PROVE  Tree(ms, root, 0, P) /\ root # NULL
<1>1. PICK X : X = DevNode("dev", VFS_DIRECTORY, {}) /\ IsNode(X) /\ X.kids = <<>>
  BY MakesNode
<1>2. IsNodes(ms) /\ Len(ms) = Len(ns) + 1 /\ ms[Len(ns) + 1] = X /\ Len(ns) \in Nat
  BY <1>1, AppendNode, LenNodes
<1>3. root \in 1 .. Len(ms) /\ ms[root] = X /\ root # NULL
  BY <1>2 DEF NULL
<1>4. <<>> \in Seq(Nat) /\ Len(<<>>) = 0 /\ 1 .. 0 = {}
  OBVIOUS
<1>5. Has(ms, root, TopNames, 0)
  <2>1. ms[root].kids = <<>>
    BY <1>1, <1>3
  <2> QED BY <1>3, <1>4, <2>1 DEF Has
<1>6. Ordered(ms, root, 0)
  BY DEF Ordered
<1>7. Tops(0) = 0 /\ 8 .. 0 = {}
  BY DEF Tops
<1>8. Shape(ms, root, 0, Sizes(0), P)
  BY <1>2, <1>5, <1>6, <1>7 DEF Shape
<1> QED BY <1>3, <1>7, <1>8 DEF Tree

-----------------------------------------------------------------------------
(* The tree through the boot.                                               *)

TreeAt(j) ==
  /\ j \in Nat /\ j <= Len(Registrations) /\ todo = Rest(Registrations, j)
  /\ Tree(nodes, dev_root, j, pci_devices)
TreeInv ==
  /\ FoundInv
  /\ doing \notin {"pci_scan", "panic"} => pci_slot = Slots
  /\ dev_root # NULL => doing \notin {"pci_scan", "vfs_init"} /\ pci_slot = Slots /\ \E j : TreeAt(j)

LEMMA TreeInit == ASSUME VFSInit PROVE TreeInv
BY FoundInit DEF VFSInit, TreeInv

LEMMA SameFound == ASSUME FoundInv, UNCHANGED pci PROVE FoundInv'
BY DEF FoundInv, AskedInv, Table, Scanned, Installed, Behind, SlotOf, FuncOf, Multi, Answering, pci

LEMMA EarlyStep ==
  ASSUME TreeInv, pci_scan \/ vfs_init
  PROVE  TreeInv'
<1>1. dev_root = NULL /\ dev_root' = NULL
  BY DEF TreeInv, pci_scan, vfs_init
<1>2. CASE pci_scan /\ pci_slot < Slots
  <2>1. ScanFunction /\ doing' = "pci_scan"
    BY <1>2 DEF pci_scan
  <2> QED BY <1>1, <2>1, FoundStep DEF TreeInv
<1>3. CASE pci_scan /\ ~(pci_slot < Slots)
  <2>1. pci_slot = Slots
    BY <1>3, PCIAssumption DEF TreeInv, FoundInv, AskedInv
  <2>2. UNCHANGED pci
    BY <1>3 DEF pci_scan
  <2>3. FoundInv' /\ pci_slot' = Slots
    BY <2>1, <2>2, SameFound DEF TreeInv, pci
  <2> QED BY <1>1, <2>3 DEF TreeInv
<1>4. CASE vfs_init
  <2>1. UNCHANGED pci /\ doing = "vfs_init"
    BY <1>4 DEF vfs_init
  <2>2. FoundInv' /\ pci_slot' = Slots
    BY <2>1, SameFound DEF TreeInv, pci
  <2> QED BY <1>1, <2>2 DEF TreeInv
<1> QED BY <1>2, <1>3, <1>4

LEMMA BuildTree ==
  ASSUME TreeInv, IsNodes(nodes), devfs_init \/ devfs_register
  PROVE  TreeInv'
<1>1. UNCHANGED pci /\ doing \in {"devfs_init", "register"} /\ doing' = "register"
  BY DEF devfs_init, devfs_register
<1>2. FoundInv' /\ pci_slot' = Slots /\ pci_devices' = pci_devices
  BY <1>1, SameFound DEF TreeInv, pci
<1>3. Registrations' = Registrations
  BY <1>2 DEF Registrations
<1>4. PICK S : pci_devices \in Seq(S)
  BY DEF TreeInv, FoundInv, Table
<1>5. IsPath(Registrations) /\ Len(Registrations) \in Nat
      /\ \A j \in 1 .. Len(Registrations) : Registrations[j].path = PathOf(j, pci_devices)
  BY <1>4, RegistrationsAre
<1>6. CASE devfs_init
  <2>1. nodes' = Append(nodes, DevNode("dev", VFS_DIRECTORY, {})) /\ dev_root' = Len(nodes') /\ todo' = Registrations
    BY <1>6 DEF devfs_init
  <2>2. Tree(nodes', dev_root', 0, pci_devices)
    BY <2>1, FirstTree
  <2>3. Rest(Registrations, 0) = Registrations
    BY <1>5, RestIs
  <2>4. TreeAt(0)'
    BY <1>2, <1>3, <1>5, <2>1, <2>2, <2>3 DEF TreeAt, Rest
  <2> QED BY <1>1, <1>2, <2>4 DEF TreeInv
<1>7. CASE devfs_register
  <2>1. todo # <<>> /\ nodes' = Registered(Head(todo)) /\ todo' = Tail(todo) /\ dev_root' = dev_root
    BY <1>7 DEF devfs_register
  <2>2. SUFFICES ASSUME dev_root # NULL PROVE \E j : TreeAt(j)'
    BY <1>1, <1>2, <2>1 DEF TreeInv
  <2>3. PICK j : TreeAt(j)
    BY <2>2 DEF TreeInv
  <2>4. j \in Nat /\ j < Len(Registrations) /\ Head(todo) = Registrations[j + 1] /\ todo' = Rest(Registrations, j + 1)
    BY <1>5, <2>1, <2>3, RestIs DEF TreeAt
  <2>5. Head(todo).path = PathOf(j + 1, pci_devices)
    BY <1>5, <2>4
  <2>6. PICK l, r : l = j + 1 /\ r = Head(todo)
    OBVIOUS
  <2>7. Tree(Registered(r), dev_root, l, pci_devices)
    BY <2>2, <2>3, <2>4, <2>5, <2>6, RegisterStep DEF TreeAt
  <2>8. l \in Nat /\ l <= Len(Registrations) /\ todo' = Rest(Registrations, l)
    BY <1>5, <2>4, <2>6
  <2>9. TreeAt(l)'
    BY <1>2, <1>3, <2>1, <2>6, <2>7, <2>8 DEF TreeAt, Rest
  <2> QED BY <2>9
<1> QED BY <1>6, <1>7

\* Any other step keeps the tree.
LEMMA KeepTree ==
  ASSUME TreeInv, UNCHANGED <<pci, dev_root, todo>>, Keeps(nodes, nodes') \/ UNCHANGED nodes,
         \/ doing \notin {"pci_scan", "panic"} /\ doing' \notin {"pci_scan", "vfs_init"}
         \/ doing' = "panic" \/ UNCHANGED doing
  PROVE  TreeInv'
<1>1. FoundInv' /\ pci_slot' = pci_slot /\ pci_devices' = pci_devices
  BY SameFound DEF TreeInv, pci
<1>2. doing' \notin {"pci_scan", "panic"} => pci_slot' = Slots
  BY <1>1 DEF TreeInv
<1>3. SUFFICES ASSUME dev_root # NULL PROVE doing' \notin {"pci_scan", "vfs_init"} /\ pci_slot' = Slots /\ \E j : TreeAt(j)'
  BY <1>1, <1>2 DEF TreeInv
<1>4. doing \notin {"pci_scan", "vfs_init"} /\ pci_slot = Slots
  BY <1>3 DEF TreeInv
<1>5. PICK j : TreeAt(j)
  BY <1>3 DEF TreeInv
<1>6. Registrations' = Registrations
  BY <1>1 DEF Registrations
<1>7. Tree(nodes', dev_root, j, pci_devices)
  BY <1>5, ShapeKept DEF TreeAt, Tree
<1>8. TreeAt(j)'
  BY <1>1, <1>5, <1>6, <1>7 DEF TreeAt, Rest
<1> QED BY <1>1, <1>4, <1>8

LEMMA MoreNodes ==
  ASSUME IsNodes(nodes), LookupStep \/ MountDisk \/ DevMounted
  PROVE  Keeps(nodes, nodes') \/ UNCHANGED nodes
<1>1. \A k : IsNode(DiskNode(k))
  BY DEF DiskNode, Node, IsNode
<1>2. CASE MountDisk
  <2>1. nodes' = Append(nodes, DiskNode(RootInode))
    BY <1>2 DEF MountDisk
  <2> QED BY <1>1, <2>1, AppendKeeps
<1>3. CASE DevMounted
  <2>1. UNCHANGED nodes \/ nodes' = [nodes EXCEPT ![result].ptr = dev_root]
    BY <1>3 DEF DevMounted
  <2> QED BY <2>1, PointerKeeps
<1>4. CASE LookupStep
  <2>1. PICK n, name : nodes' = Finddir(n, name).ns
    BY <1>4 DEF LookupStep, Component
  <2>2. UNCHANGED nodes \/ \E k : nodes' = Append(nodes, DiskNode(k))
    BY <2>1 DEF Finddir
  <2> QED BY <1>1, <2>2, AppendKeeps
<1> QED BY <1>2, <1>3, <1>4

LEMMA TreeStep == BootedInv /\ TreeInv /\ [VFSNext]_vfsvars => TreeInv'
<1> SUFFICES ASSUME BootedInv, TreeInv, [VFSNext]_vfsvars PROVE TreeInv'
  OBVIOUS
<1>1. IsNodes(nodes)
  BY DEF BootedInv, PlaceInv, NodesInv
<1>2. CASE pci_scan \/ vfs_init
  BY <1>2, EarlyStep
<1>3. CASE devfs_init \/ devfs_register
  BY <1>1, <1>3, BuildTree
<1>4. CASE LookupStep \/ MountDisk \/ DevMounted
  <2>1. UNCHANGED <<pci, dev_root, todo>>
    BY <1>4 DEF LookupStep, MountDisk, DevMounted
  <2>2. doing \in {"lookup", "module", "answer"} /\ doing' \in {"lookup", "answer", "devfs_init", "init", "module"}
    BY <1>4 DEF LookupStep, MountDisk, DevMounted, Answer
  <2> QED BY <1>1, <1>4, <2>1, <2>2, MoreNodes, KeepTree
<1>5. CASE LookupEnd \/ MountDev \/ NoDisk \/ FindInit \/ InitFound
  <2>1. UNCHANGED <<pci, dev_root, todo, nodes>>
    BY <1>5 DEF LookupEnd, MountDev, NoDisk, FindInit, InitFound
  <2>2. doing \in {"lookup", "register", "module", "init", "answer"} /\ doing' \in {"lookup", "answer", "init", "exec", "shell"}
    BY <1>5 DEF LookupEnd, MountDev, NoDisk, FindInit, InitFound, Answer, StartLookup
  <2> QED BY <2>1, <2>2, KeepTree
<1>6. CASE loader_exec \/ ProgramReturns \/ ExecReturned \/ Fault
  <2>1. UNCHANGED <<pci, dev_root, todo, nodes>>
    BY <1>6 DEF loader_exec, ProgramReturns, ExecReturned, Fault
  <2>2. \/ doing \in {"exec", "running", "returned"} /\ doing' \in {"running", "returned", "panic", "shell"}
        \/ doing' = "panic"
    BY <1>6 DEF loader_exec, ProgramReturns, ExecReturned, Fault
  <2> QED BY <2>1, <2>2, KeepTree
<1>7. CASE shell_ls \/ ListEntry \/ shell_cat \/ CatBuffer \/ ShellExec \/ ShellRun
  <2>1. UNCHANGED <<pci, dev_root, todo, nodes>>
    BY <1>7 DEF shell_ls, ListEntry, shell_cat, CatBuffer, ShellExec, ShellRun
  <2>2. doing \in {"list", "cat", "answer"} /\ doing' \in {"list", "cat", "answer", "shell", "exec", "lookup"}
    BY <1>7 DEF shell_ls, ListEntry, shell_cat, CatBuffer, ShellExec, ShellRun, StartLookup
  <2> QED BY <2>1, <2>2, KeepTree
<1>8. CASE Typed
  <2>1. PICK p \in Paths, cmd \in {"ls", "cat", "exec", "run"} : Command(cmd, p)
    BY <1>8 DEF Typed
  <2>2. UNCHANGED <<pci, dev_root, todo, nodes>> /\ doing = "shell" /\ doing' = "lookup"
    BY <2>1 DEF Command, StartLookup
  <2> QED BY <2>2, KeepTree
<1>9. CASE UNCHANGED vfsvars
  <2>1. UNCHANGED <<pci, dev_root, todo, nodes, doing>>
    BY <1>9 DEF vfsvars
  <2> QED BY <2>1, KeepTree
<1> QED BY <1>2, <1>3, <1>4, <1>5, <1>6, <1>7, <1>8, <1>9 DEF VFSNext, Kernel, Boot, Exec, Shell

LEMMA NamedOnce ==
  ASSUME NEW n, NEW L, NEW m, Has(nodes, n, L, m), Distinct(L, m), NEW k \in 1 .. m
  PROVE  Cardinality(NamedIn(n, L[k])) = 1
<1>1. DOMAIN nodes[n].kids = 1 .. m /\ \A i \in 1 .. m : nodes[nodes[n].kids[i]].name = L[i]
  BY DEF Has
<1>2. NamedIn(n, L[k]) = {k}
  BY <1>1 DEF NamedIn, Distinct
<1> QED BY <1>2, FS_Singleton

LEMMA FindsTop ==
  ASSUME NEW root, NEW T, NEW w, NEW P, Shape(nodes, root, T, w, P), NEW t \in 1 .. T
  PROVE  /\ Cardinality(NamedIn(root, TopNames[t])) = 1
         /\ DevChild(nodes, root, TopNames[t]) = Kid(nodes, root, t)
<1>1. Has(nodes, root, TopNames, T) /\ T \in 0 .. 11
  BY DEF Shape
<1>2. Distinct(TopNames, T)
  BY <1>1, TopNamesDiffer DEF Distinct
<1> QED BY <1>1, <1>2, NamedOnce, ChildIs DEF Kid

LEMMA ReachesTop ==
  ASSUME NEW root, NEW T, NEW w, NEW P, Shape(nodes, root, T, w, P), NEW t \in 1 .. T,
         NEW p, p = <<TopNames[t]>>
  PROVE  Reaches(root, p)
<1>1. Head(p) = TopNames[t] /\ Len(p) = 1
  OBVIOUS
<1> QED BY <1>1, FindsTop DEF Reaches

LEMMA ReachesInside ==
  ASSUME NEW root, NEW T, NEW w, NEW P, Shape(nodes, root, T, w, P), NEW t \in 8 .. T,
         NEW m, m = w[t], Distinct(Inside(t, P), m), NEW k \in 1 .. m, NEW p, p = <<TopNames[t], Inside(t, P)[k]>>
  PROVE  Reaches(root, p)
<1>1. Head(p) = TopNames[t] /\ Len(p) = 2 /\ p[2] = Inside(t, P)[k]
  OBVIOUS
<1>2. t \in 1 .. T /\ Has(nodes, Kid(nodes, root, t), Inside(t, P), m)
  BY DEF Shape
<1>3. Cardinality(NamedIn(Kid(nodes, root, t), Inside(t, P)[k])) = 1
  BY <1>2, NamedOnce
<1> QED BY <1>1, <1>2, <1>3, FindsTop DEF Reaches

\* The finished tree.
LEMMA Finished ==
  ASSUME TreeInv, DevTreeBuilt
  PROVE  \E j : /\ Tree(nodes, dev_root, j, pci_devices) /\ j = 11 + Len(pci_devices) /\ Len(pci_devices) \in Nat
                /\ pci_slot = Slots /\ FoundInv
<1>1. PICK S : pci_devices \in Seq(S)
  BY DEF TreeInv, FoundInv, Table
<1>2. IsPath(Registrations) /\ Len(Registrations) = 11 + Len(pci_devices) /\ Len(pci_devices) \in Nat
  BY <1>1, RegistrationsAre
<1>3. PICK j : TreeAt(j)
  BY DEF TreeInv, DevTreeBuilt
<1>4. j = Len(Registrations)
  BY <1>2, <1>3, RestIs DEF TreeAt, DevTreeBuilt
<1> QED BY <1>2, <1>3, <1>4 DEF TreeAt, TreeInv, DevTreeBuilt

LEMMA FixedReached ==
  ASSUME TreeInv, DevTreeBuilt, NEW k \in 1 .. 11
  PROVE  Reaches(dev_root, Devices[k].path)
<1>1. PICK j : Tree(nodes, dev_root, j, pci_devices) /\ j = 11 + Len(pci_devices) /\ Len(pci_devices) \in Nat
  BY Finished
<1>2. PICK T, w, P, p : T = Tops(j) /\ w = Sizes(j) /\ P = pci_devices /\ p = Devices[k].path
  OBVIOUS
<1>3. Shape(nodes, dev_root, T, w, P) /\ T \in {10, 11}
  BY <1>1, <1>2 DEF Tree, Tops
<1>4. w[8] = 1 /\ w[9] = 1 /\ w[10] = 2
  BY <1>1, <1>2 DEF Sizes
<1>5. p = PathOf(k, P)
  BY <1>2, DevicesAre
<1>6. Distinct(Inside(8, P), 1) /\ Distinct(Inside(9, P), 1) /\ Distinct(Inside(10, P), 2)
  BY DEF Distinct, Inside
<1>7. CASE k <= 7
  <2>1. p = <<TopNames[k]>> /\ k \in 1 .. T
    BY <1>3, <1>5, <1>7 DEF PathOf
  <2> QED BY <1>2, <1>3, <2>1, ReachesTop
<1>8. CASE k \in {8, 9, 10}
  <2>1. p = <<TopNames[k], Inside(k, P)[1]>> /\ k \in 8 .. T
    BY <1>3, <1>5, <1>8 DEF PathOf
  <2>2. PICK m : m = w[k]
    OBVIOUS
  <2>3. Distinct(Inside(k, P), m) /\ 1 \in 1 .. m
    BY <1>4, <1>6, <1>8, <2>2
  <2> QED BY <1>2, <1>3, <2>1, <2>2, <2>3, ReachesInside
<1>9. CASE k = 11
  <2>1. p = <<TopNames[10], Inside(10, P)[2]>> /\ 10 \in 8 .. T
    BY <1>3, <1>5, <1>9 DEF PathOf
  <2>2. PICK t, m : t = 10 /\ m = 2
    OBVIOUS
  <2>3. m = w[t] /\ Distinct(Inside(t, P), m) /\ 2 \in 1 .. m /\ t \in 8 .. T /\ p = <<TopNames[t], Inside(t, P)[2]>>
    BY <1>4, <1>6, <2>1, <2>2
  <2> QED BY <1>2, <1>3, <2>3, ReachesInside
<1>10. k <= 7 \/ k \in {8, 9, 10} \/ k = 11
  OBVIOUS
<1> QED BY <1>7, <1>8, <1>9, <1>10

LEMMA PciReached ==
  ASSUME TreeInv, DevTreeBuilt, Cardinality(Installed) <= MAX_PCI_DEVICES, Cardinality(Installed) <= MAX_CHILDREN
  PROVE  /\ \A n \in Installed : Reaches(dev_root, <<"pci", n>>)
         /\ Installed # {} => Len(nodes[DevChild(nodes, dev_root, "pci")].kids) = Cardinality(Installed)
<1>1. PICK j : /\ Tree(nodes, dev_root, j, pci_devices) /\ j = 11 + Len(pci_devices) /\ Len(pci_devices) \in Nat
               /\ pci_slot = Slots /\ FoundInv
  BY Finished
<1>2. PICK T, w, P : T = Tops(j) /\ w = Sizes(j) /\ P = pci_devices
  OBVIOUS
<1>3. Table(P, Installed) /\ ToSet(P) = Installed
  BY <1>1, <1>2, AllFound
<1>4. Cardinality(Installed) = Len(P) /\ Len(P) \in Nat /\ Len(P) <= MAX_CHILDREN /\ Distinct(P, Len(P)) /\ DOMAIN P = 1 .. Len(P)
  BY <1>1, <1>2, <1>3 DEF Table, Distinct
<1>5. SUFFICES ASSUME Installed # {}
               PROVE  /\ \A n \in Installed : Reaches(dev_root, <<"pci", n>>)
                      /\ Len(nodes[DevChild(nodes, dev_root, "pci")].kids) = Cardinality(Installed)
  OBVIOUS
<1>6. Len(P) # 0
  <2>1. PICK n \in ToSet(P) : TRUE
    BY <1>3, <1>5
  <2>2. \E k \in 1 .. Len(P) : n = P[k]
    BY <1>4, <2>1 DEF ToSet
  <2> QED BY <1>4, <2>2
<1>7. PICK t, m : t = 11 /\ m = Len(P)
  OBVIOUS
<1>8. T = t /\ w[t] = m
  <2>1. Upto(Len(P)) = Len(P)
    BY <1>4 DEF Upto, MAX_CHILDREN
  <2>2. j \in Nat /\ j - 11 = Len(P) /\ j > 11
    BY <1>1, <1>2, <1>4, <1>6
  <2>3. T = 11
    BY <1>2, <2>2 DEF Tops
  <2>4. w[11] = Upto(j - 11)
    BY <1>2 DEF Sizes
  <2> QED BY <1>7, <2>1, <2>2, <2>3, <2>4
<1>9. Shape(nodes, dev_root, T, w, P)
  BY <1>1, <1>2 DEF Tree
<1>10. t \in 8 .. T /\ t \in 1 .. T /\ TopNames[t] = "pci" /\ Inside(t, P) = P
  BY <1>7, <1>8 DEF TopNames, Inside
<1>11. ASSUME NEW n \in Installed PROVE Reaches(dev_root, <<"pci", n>>)
  <2>1. PICK k \in 1 .. m : P[k] = n
    BY <1>3, <1>4, <1>7 DEF ToSet
  <2>2. PICK p : p = <<"pci", n>>
    OBVIOUS
  <2>3. p = <<TopNames[t], Inside(t, P)[k]>> /\ Distinct(Inside(t, P), m)
    BY <1>4, <1>7, <1>10, <2>1, <2>2
  <2>4. Reaches(dev_root, p)
    BY <1>8, <1>9, <1>10, <2>3, ReachesInside
  <2> QED BY <2>2, <2>4
<1>12. Len(nodes[DevChild(nodes, dev_root, "pci")].kids) = Cardinality(Installed)
  <2>1. DevChild(nodes, dev_root, "pci") = Kid(nodes, dev_root, t)
    BY <1>9, <1>10, FindsTop
  <2>2. Has(nodes, Kid(nodes, dev_root, t), Inside(t, P), w[t])
    BY <1>9, <1>10 DEF Shape
  <2> QED BY <1>4, <1>7, <1>8, <2>1, <2>2 DEF Has
<1> QED BY <1>11, <1>12

\* Whatever order devfs_register meets them in, and however often devfs is built,
\* each device is once in its folder (devfs.c:196-242), and every PCI function of
\* the machine, once, unless the table or the folder is full (pci.c:55-76).
THEOREM DevTreeIsComplete == VFSSpec => []DevTreeComplete
<1>1. BootedInv /\ TreeInv => DevTreeComplete
  <2>1. DOMAIN Devices = 1 .. 11
    BY DevicesAre
  <2> QED BY <2>1, FixedReached, PciReached DEF DevTreeComplete
<1>2. BootedInv /\ TreeInv /\ [VFSNext]_vfsvars => (BootedInv /\ TreeInv)'
  BY BootedStep, TreeStep
<1>3. VFSInit => BootedInv /\ TreeInv
  BY VFSInitInv, TreeInit
<1> QED BY <1>1, <1>2, <1>3, PTL DEF VFSSpec

==============================================================================
