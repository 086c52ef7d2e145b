------------------------------ MODULE PMMProofs ------------------------------
(* The allocator's invariants and its refinement, for every number of pages *)
(* and every set of arguments that PMMAssumption allows.                     *)
EXTENDS PMM, FiniteSetTheorems, TLAPS

\* The set of free pages is finite, and no larger than memory.
LEMMA FreeSetFinite ==
  /\ IsFiniteSet(Pages)
  /\ IsFiniteSet(FreeSet)
  /\ Cardinality(FreeSet) \in 0 .. TotalPages
<1>1. IsFiniteSet(Pages) /\ Cardinality(Pages) = TotalPages
  BY FS_Interval, PMMAssumption DEF Pages
<1>2. FreeSet \in SUBSET Pages
  BY DEF FreeSet
<1>3. IsFiniteSet(FreeSet) /\ Cardinality(FreeSet) <= Cardinality(Pages)
  BY <1>1, <1>2, FS_Subset
<1>4. Cardinality(FreeSet) \in Nat
  BY <1>3, FS_CardinalityType
<1> QED BY <1>1, <1>3, <1>4, PMMAssumption

\* Removing a run of n elements from a finite set that contains it removes
\* exactly n elements.
LEMMA RemoveRun ==
  ASSUME NEW S, IsFiniteSet(S), NEW s \in Nat, NEW n \in Nat, n >= 1,
         Run(s, n) \subseteq S
  PROVE  Cardinality(S \ Run(s, n)) = Cardinality(S) - n
<1> DEFINE R == Run(s, n)
           D == S \ R
<1>1. IsFiniteSet(R) /\ Cardinality(R) = n
  BY FS_Interval DEF Run
<1>2. IsFiniteSet(D)
  BY FS_Subset
<1>3. D \cup R = S /\ D \cap R = {}
  OBVIOUS
<1>4. Cardinality(S) = Cardinality(D) + Cardinality(R) - Cardinality(D \cap R)
  BY <1>1, <1>2, <1>3, FS_Union
<1>5. Cardinality(D \cap R) = 0
  BY <1>3, FS_EmptySet
<1>6. Cardinality(D) \in Nat
  BY <1>2, FS_CardinalityType
<1> QED BY <1>1, <1>4, <1>5, <1>6

\* The counter in pages rather than bytes.
LEMMA AccountingPages ==
  ASSUME TypeOK
  PROVE  Accounting <=> free_pages = Cardinality(FreeSet)
<1>1. Cardinality(FreeSet) \in Nat
  BY FreeSetFinite
<1> QED BY <1>1 DEF Accounting, TypeOK, pmm_get_free_memory, PAGE_SIZE

\* The same after a step, with the counter's range.
LEMMA AccountingNext ==
  ASSUME free_pages' = Cardinality(FreeSet')
  PROVE  Accounting' /\ free_pages' \in 0 .. TotalPages
<1>1. FreeSet' \in SUBSET Pages
  BY DEF FreeSet, Pages
<1>2. IsFiniteSet(Pages) /\ Cardinality(Pages) = TotalPages
  BY FS_Interval, PMMAssumption DEF Pages
<1>3. IsFiniteSet(FreeSet') /\ Cardinality(FreeSet') <= TotalPages
  BY <1>1, <1>2, FS_Subset
<1>4. Cardinality(FreeSet') \in Nat
  BY <1>3, FS_CardinalityType
<1> QED BY <1>3, <1>4, PMMAssumption DEF Accounting, pmm_get_free_memory, PAGE_SIZE

\* What setting one bit does to the set of free pages.
LEMMA SetBit ==
  ASSUME TypeOK, NEW q \in Pages, bitmap' = [bitmap EXCEPT ![q] = TRUE]
  PROVE  /\ FreeSet' = FreeSet \ {q}
         /\ bitmap[q] => Cardinality(FreeSet') = Cardinality(FreeSet)
         /\ ~bitmap[q] => Cardinality(FreeSet') = Cardinality(FreeSet) - 1
<1>1. FreeSet' = FreeSet \ {q}
  BY DEF FreeSet, TypeOK, Pages
<1>2. q \in FreeSet <=> ~bitmap[q]
  BY DEF FreeSet
<1>3. Cardinality(FreeSet \ {q}) =
        IF q \in FreeSet THEN Cardinality(FreeSet) - 1 ELSE Cardinality(FreeSet)
  BY FreeSetFinite, FS_RemoveElement
<1> QED BY <1>1, <1>2, <1>3

\* What clearing one bit does to the set of free pages.
LEMMA ClearBit ==
  ASSUME TypeOK, NEW q \in Pages, bitmap' = [bitmap EXCEPT ![q] = FALSE]
  PROVE  /\ FreeSet' = FreeSet \cup {q}
         /\ bitmap[q] => Cardinality(FreeSet') = Cardinality(FreeSet) + 1
         /\ ~bitmap[q] => Cardinality(FreeSet') = Cardinality(FreeSet)
<1>1. FreeSet' = FreeSet \cup {q}
  BY DEF FreeSet, TypeOK, Pages
<1>2. q \in FreeSet <=> ~bitmap[q]
  BY DEF FreeSet
<1>3. Cardinality(FreeSet \cup {q}) =
        IF q \in FreeSet THEN Cardinality(FreeSet) ELSE Cardinality(FreeSet) + 1
  BY FreeSetFinite, FS_AddElement
<1> QED BY <1>1, <1>2, <1>3

-----------------------------------------------------------------------------
(* IInv is inductive: one lemma per action. *)

LEMMA InitIInv == Init => IInv
<1> SUFFICES ASSUME Init PROVE IInv
  OBVIOUS
<1> USE PMMAssumption
<1>1. FreeSet = {}
  BY DEF Init, FreeSet
<1>2. TypeOK
  <2>1. PageOf(BootBase) \in Nat /\ PageOf(BootLength) \in Nat
    BY DEF PageOf, PAGE_SIZE
  <2>2. bitmap \in [Pages -> BOOLEAN] /\ 0 \in 0 .. TotalPages
    BY DEF Init
  <2> QED BY <2>1, <2>2 DEF Init, TypeOK, NULL
<1>3. Accounting
  BY <1>1, <1>2, AccountingPages, FS_EmptySet DEF Init
<1>4. HeldNotFree /\ NullIsFailure
  BY <1>1 DEF Init, HeldNotFree, NullIsFailure
<1>5. LoopInv
  BY DEF Init, LoopInv, UntouchedByCallers, Run, PageOf, PAGE_SIZE, Pages
<1> QED BY <1>2, <1>3, <1>4, <1>5 DEF IInv

\* A step that leaves the bitmap and the counter alone keeps the accounting.
LEMMA HeapUnchanged ==
  ASSUME IInv, UNCHANGED heap
  PROVE  FreeSet' = FreeSet /\ Accounting'
BY DEF IInv, Accounting, pmm_get_free_memory, FreeSet, heap

\* Every page that a release touches overlaps the region in bytes.
LEMMA ReleaseTouches ==
  ASSUME IInv, NEW base \in Nat, NEW length \in Nat, ReleaseOK(base, length)
  PROVE  UntouchedByCallers(Run(PageOf(base), PageOf(length)))
<1> SUFFICES ASSUME NEW p \in Run(PageOf(base), PageOf(length)) \cap Pages
             PROVE  p # 0 /\ p \notin held
  BY DEF UntouchedByCallers
<1>1. p \in Nat /\ p >= base \div 4096 /\ p < (base \div 4096) + (length \div 4096)
  BY PMMAssumption DEF Run, Pages, PageOf, PAGE_SIZE
<1>2. p * 4096 < base + length /\ base < p * 4096 + 4096
  BY <1>1
<1> QED BY <1>1, <1>2 DEF ReleaseOK, AddrOf, PAGE_SIZE

LEMMA MarkRegionIInv ==
  ASSUME IInv, NEW r \in Regions, NEW u \in BOOLEAN, pmm_mark_region(r[1], r[2], u)
  PROVE  IInv'
<1>1. r[1] \in Nat /\ r[2] \in Nat
  BY PMMAssumption
<1>2. /\ pc' = "mark" /\ start_page' = PageOf(r[1]) /\ count' = PageOf(r[2])
      /\ i' = 0 /\ consecutive' = 0 /\ used' = u
      /\ UNCHANGED <<bitmap, free_pages, ret, held>>
  BY DEF pmm_mark_region, Enter, heap
<1>3. FreeSet' = FreeSet /\ Accounting'
  BY <1>2, HeapUnchanged DEF heap
<1>4. TypeOK'
  BY <1>1, <1>2 DEF IInv, TypeOK, PageOf, PAGE_SIZE
<1>5. HeldNotFree' /\ NullIsFailure'
  BY <1>2, <1>3 DEF IInv, HeldNotFree, NullIsFailure
<1>6. ~u => UntouchedByCallers(Run(PageOf(r[1]), PageOf(r[2])))
  BY <1>1, ReleaseTouches DEF pmm_mark_region
<1>7. LoopInv'
  BY <1>2, <1>6 DEF LoopInv, UntouchedByCallers
<1> QED BY <1>3, <1>4, <1>5, <1>7 DEF IInv

LEMMA MarkPageIInv == ASSUME IInv, MarkPage PROVE IInv'
<1> DEFINE page == start_page + i
<1>1. page \in Pages /\ page \in Run(start_page, count)
  BY PMMAssumption DEF IInv, TypeOK, MarkPage, MarkLoops, Pages, Run
<1>2. TypeOK /\ free_pages = Cardinality(FreeSet) /\ Cardinality(FreeSet) \in Nat
  BY AccountingPages, FreeSetFinite DEF IInv
<1>3. UNCHANGED <<pc, start_page, count, consecutive, used, ret, held>> /\ i' = i + 1
  BY DEF MarkPage
<1>4. CASE used
  <2>1. bitmap' = [bitmap EXCEPT ![page] = TRUE]
    BY <1>4 DEF MarkPage, IInv, TypeOK
  <2>2. FreeSet' = FreeSet \ {page}
    BY <1>1, <1>2, <2>1, SetBit
  <2>3. free_pages' = Cardinality(FreeSet')
    <3>1. CASE bitmap[page]
      BY <1>1, <1>2, <1>4, <2>1, <3>1, SetBit DEF MarkPage
    <3>2. CASE ~bitmap[page]
      <4>1. page \in FreeSet
        BY <1>1, <3>2 DEF FreeSet
      <4>2. Cardinality(FreeSet) # 0
        BY <4>1, FreeSetFinite, FS_EmptySet
      <4>3. free_pages' = free_pages - 1
        BY <1>2, <1>4, <3>2, <4>2 DEF MarkPage
      <4>4. Cardinality(FreeSet') = Cardinality(FreeSet) - 1
        BY <1>1, <1>2, <2>1, <3>2, SetBit
      <4> QED BY <1>2, <4>3, <4>4
    <3> QED BY <3>1, <3>2
  <2>4. TypeOK'
    BY <1>1, <1>2, <1>3, <2>1, <2>3, AccountingNext DEF TypeOK
  <2>5. Accounting'
    BY <2>3, AccountingNext
  <2>6. HeldNotFree' /\ NullIsFailure'
    BY <1>3, <2>2 DEF IInv, HeldNotFree, NullIsFailure
  <2>7. LoopInv'
    BY <1>3, <1>4 DEF IInv, LoopInv, UntouchedByCallers, MarkPage
  <2> QED BY <2>4, <2>5, <2>6, <2>7 DEF IInv
<1>5. CASE ~used
  <2>1. bitmap' = [bitmap EXCEPT ![page] = FALSE]
    BY <1>5 DEF MarkPage, IInv, TypeOK
  <2>2. FreeSet' = FreeSet \cup {page}
    BY <1>1, <1>2, <2>1, ClearBit
  <2>3. free_pages' = Cardinality(FreeSet')
    BY <1>1, <1>2, <1>5, <2>1, ClearBit DEF MarkPage
  <2>4. TypeOK'
    BY <1>1, <1>2, <1>3, <2>1, <2>3, AccountingNext DEF TypeOK
  <2>5. Accounting'
    BY <2>3, AccountingNext
  <2>6. page # 0 /\ page \notin held
    BY <1>1, <1>5 DEF IInv, LoopInv, UntouchedByCallers, MarkPage
  <2>7. HeldNotFree' /\ NullIsFailure'
    BY <1>3, <2>2, <2>6 DEF IInv, HeldNotFree, NullIsFailure
  <2>8. LoopInv'
    BY <1>3, <1>5 DEF IInv, LoopInv, UntouchedByCallers, MarkPage
  <2> QED BY <2>4, <2>5, <2>7, <2>8 DEF IInv
<1> QED BY <1>4, <1>5

\* A call returns without touching the bitmap or the held pages.
LEMMA ReturnIInv ==
  ASSUME IInv, NEW v \in Nat, Return(v), UNCHANGED <<heap, held>>
  PROVE  IInv'
<1>1. /\ pc' = "idle" /\ ret' = v /\ used' = FALSE
      /\ i' = 0 /\ start_page' = 0 /\ count' = 0 /\ consecutive' = 0
      /\ UNCHANGED <<bitmap, free_pages, held>>
  BY DEF Return, heap
<1>2. FreeSet' = FreeSet /\ Accounting'
  BY HeapUnchanged
<1>3. TypeOK'
  BY <1>1 DEF IInv, TypeOK
<1>4. HeldNotFree' /\ NullIsFailure'
  BY <1>1, <1>2 DEF IInv, HeldNotFree, NullIsFailure
<1>5. LoopInv'
  BY <1>1 DEF LoopInv
<1> QED BY <1>2, <1>3, <1>4, <1>5 DEF IInv

LEMMA DoneIInv ==
  ASSUME IInv, MarkDone \/ ScanFails \/ FreeDone
  PROVE  IInv'
<1>1. ret \in Nat /\ NULL \in Nat
  BY DEF IInv, TypeOK, NULL
<1> QED BY <1>1, ReturnIInv DEF MarkDone, ScanFails, FreeDone

\* A scan starts: nothing seen, nothing counted.
LEMMA EnterScanIInv ==
  ASSUME IInv, NEW label \in {"alloc_page", "alloc_pages"}, NEW n \in Nat, n >= 1,
         label = "alloc_page" => n = 1,
         pc' = label, used' = FALSE,
         i' = 0, start_page' = 0, count' = n, consecutive' = 0,
         UNCHANGED <<bitmap, free_pages, ret, held>>
  PROVE  IInv'
<1>1. UNCHANGED heap
  BY DEF heap
<1>2. FreeSet' = FreeSet /\ Accounting'
  BY <1>1, HeapUnchanged
<1>3. TypeOK'
  BY DEF IInv, TypeOK
<1>4. HeldNotFree' /\ NullIsFailure'
  BY <1>2 DEF IInv, HeldNotFree, NullIsFailure
<1>5. LoopInv'
  BY PMMAssumption DEF LoopInv, Pages
<1> QED BY <1>2, <1>3, <1>4, <1>5 DEF IInv

LEMMA AllocCallIInv ==
  ASSUME IInv, pmm_alloc_page \/ \E n \in Counts : pmm_alloc_pages(n)
  PROVE  IInv'
<1>1. CASE pmm_alloc_page
  <2>1. /\ pc' = "alloc_page" /\ used' = FALSE
        /\ i' = 0 /\ start_page' = 0 /\ count' = 1 /\ consecutive' = 0
        /\ UNCHANGED <<bitmap, free_pages, ret, held>>
    BY <1>1 DEF pmm_alloc_page, Enter, heap
  <2>2. 1 \in Nat /\ 1 >= 1
    OBVIOUS
  <2> QED BY <2>1, <2>2, EnterScanIInv, Zenon
<1>2. ASSUME NEW n \in Counts, pmm_alloc_pages(n)
      PROVE  IInv'
  <2>1. n \in Nat
    BY PMMAssumption
  <2>2. CASE n = 0
    BY <1>2, <2>2, ReturnIInv DEF pmm_alloc_pages, NULL
  <2>3. CASE n # 0
    <3>1. /\ pc' = "alloc_pages" /\ used' = FALSE
          /\ i' = 0 /\ start_page' = 0 /\ count' = n /\ consecutive' = 0
          /\ UNCHANGED <<bitmap, free_pages, ret, held>>
      BY <1>2, <2>3 DEF pmm_alloc_pages, Enter, heap
    <3>2. n >= 1 /\ "alloc_pages" # "alloc_page"
      BY <2>1, <2>3
    <3> QED BY <2>1, <3>1, <3>2, EnterScanIInv, Zenon
  <2> QED BY <2>2, <2>3
<1> QED BY <1>1, <1>2

\* Taking a free run keeps the invariant.
LEMMA TakeIInv ==
  ASSUME IInv, NEW s \in Nat, NEW n \in Nat, n >= 1, RunFree(s, n), Take(s, n)
  PROVE  IInv'
<1> USE PMMAssumption
<1>1. /\ pc' = "idle" /\ ret' = AddrOf(s) /\ used' = FALSE
      /\ i' = 0 /\ start_page' = 0 /\ count' = 0 /\ consecutive' = 0
      /\ held' = held \cup Run(s, n)
      /\ free_pages' = free_pages - n
      /\ bitmap' = [p \in Pages |-> bitmap[p] \/ p \in Run(s, n)]
  BY DEF Take, Return
<1>2. FreeSet' = FreeSet \ Run(s, n)
  BY <1>1 DEF FreeSet
<1>3. free_pages = Cardinality(FreeSet) /\ IsFiniteSet(FreeSet)
  BY AccountingPages, FreeSetFinite DEF IInv
<1>4. free_pages' = Cardinality(FreeSet')
  BY <1>1, <1>2, <1>3, RemoveRun DEF RunFree
<1>5. Accounting' /\ free_pages' \in 0 .. TotalPages
  BY <1>4, AccountingNext
<1>6. Run(s, n) \subseteq Pages
  BY DEF RunFree, FreeSet
<1>7. TypeOK'
  <2>1. bitmap' \in [Pages -> BOOLEAN]
    BY <1>1 DEF IInv, TypeOK
  <2>2. AddrOf(s) \in Nat
    BY DEF AddrOf, PAGE_SIZE
  <2> QED BY <1>1, <1>5, <1>6, <2>1, <2>2 DEF IInv, TypeOK
<1>8. HeldNotFree' /\ NullIsFailure'
  BY <1>1, <1>2 DEF IInv, HeldNotFree, NullIsFailure, RunFree
<1>9. LoopInv'
  BY <1>1 DEF LoopInv
<1> QED BY <1>5, <1>7, <1>8, <1>9 DEF IInv

\* The scan for one page.
LEMMA ScanPageIInv == ASSUME IInv, ScanPage PROVE IInv'
<1> USE PMMAssumption
<1>1. i \in Pages
  BY DEF ScanPage, ScanLoops, IInv, TypeOK, Pages
<1>2. CASE ~bitmap[i]
  <2>1. RunFree(i, 1)
    BY <1>1, <1>2 DEF RunFree, Run, FreeSet, Pages
  <2> QED BY <1>1, <1>2, <2>1, TakeIInv DEF ScanPage, Pages
<1>3. CASE bitmap[i]
  <2>1. i' = i + 1 /\ UNCHANGED <<bitmap, free_pages, pc, start_page, count,
                                   consecutive, used, ret, held>>
    BY <1>3 DEF ScanPage, heap
  <2>2. FreeSet' = FreeSet /\ Accounting'
    BY <2>1, HeapUnchanged DEF heap
  <2>3. TypeOK'
    BY <2>1 DEF IInv, TypeOK
  <2>4. HeldNotFree' /\ NullIsFailure'
    BY <2>1, <2>2 DEF IInv, HeldNotFree, NullIsFailure
  <2>5. LoopInv'
    <3>1. pc = "alloc_page" /\ count = 1 /\ consecutive = 0
      BY DEF ScanPage, IInv, LoopInv
    <3>2. \A s \in Pages : s + 1 <= i + 1 => \E p \in Run(s, 1) : bitmap[p]
      BY <1>1, <1>3, <3>1 DEF ScanPage, IInv, LoopInv, Run, Pages, TypeOK
    <3> QED BY <1>1, <1>3, <2>1, <3>1, <3>2 DEF LoopInv, Pages
  <2> QED BY <2>2, <2>3, <2>4, <2>5 DEF IInv
<1> QED BY <1>2, <1>3

\* What the scan for a run knows when bit i is clear: the counted pages and i
\* are a free run that starts at FirstOfRun.
LEMMA CountedRun ==
  ASSUME IInv, pc = "alloc_pages", ScanLoops, ~bitmap[i]
  PROVE  /\ FirstOfRun = i - consecutive
         /\ FirstOfRun \in Nat
         /\ RunFree(FirstOfRun, consecutive + 1)
<1> USE PMMAssumption
<1>1. i \in Pages /\ i \in Nat /\ consecutive \in Nat /\ consecutive <= i
  BY DEF ScanLoops, IInv, TypeOK, Pages, LoopInv
<1>2. FirstOfRun = i - consecutive
  <2>1. consecutive > 0 => start_page = i - consecutive
    BY DEF IInv, LoopInv
  <2>2. start_page \in Nat
    BY DEF IInv, TypeOK
  <2>3. CASE consecutive = 0
    BY <1>1, <2>3 DEF FirstOfRun
  <2>4. CASE consecutive # 0
    BY <1>1, <2>1, <2>2, <2>4 DEF FirstOfRun
  <2> QED BY <2>3, <2>4
<1>3. \A p \in (i - consecutive) .. (i - 1) : ~bitmap[p]
  BY DEF IInv, LoopInv
<1>4. RunFree(FirstOfRun, consecutive + 1)
  BY <1>1, <1>2, <1>3 DEF RunFree, Run, FreeSet, Pages
<1> QED BY <1>1, <1>2, <1>4

LEMMA ScanRunIInv == ASSUME IInv, ScanRun PROVE IInv'
<1> USE PMMAssumption
<1>1. /\ pc = "alloc_pages" /\ ScanLoops /\ i \in Pages /\ i \in Nat
      /\ count \in Nat /\ consecutive \in Nat /\ consecutive < count /\ consecutive <= i
  BY DEF ScanRun, ScanLoops, IInv, TypeOK, Pages, LoopInv
<1>2. CASE bitmap[i]
  <2>1. i' = i + 1 /\ consecutive' = 0
        /\ UNCHANGED <<bitmap, free_pages, pc, start_page, count, used, ret, held>>
    BY <1>2 DEF ScanRun, heap
  <2>2. FreeSet' = FreeSet /\ Accounting'
    BY <2>1, HeapUnchanged DEF heap
  <2>3. TypeOK'
    BY <2>1 DEF IInv, TypeOK
  <2>4. HeldNotFree' /\ NullIsFailure'
    BY <2>1, <2>2 DEF IInv, HeldNotFree, NullIsFailure
  <2>5. \A s \in Pages : s + count <= i + 1 => \E p \in Run(s, count) : bitmap[p]
    <3> SUFFICES ASSUME NEW s \in Pages, s + count <= i + 1
                 PROVE  \E p \in Run(s, count) : bitmap[p]
      OBVIOUS
    <3>1. CASE s + count <= i
      BY <1>1, <3>1 DEF IInv, LoopInv
    <3>2. CASE s + count = i + 1
      BY <1>1, <1>2, <3>2 DEF Run, Pages
    <3> QED BY <1>1, <3>1, <3>2 DEF Pages
  <2>6. LoopInv'
    BY <1>1, <1>2, <2>1, <2>5 DEF LoopInv, Pages
  <2> QED BY <2>2, <2>3, <2>4, <2>6 DEF IInv
<1>3. CASE ~bitmap[i] /\ consecutive + 1 = count
  BY <1>1, <1>3, CountedRun, TakeIInv DEF ScanRun
<1>4. CASE ~bitmap[i] /\ consecutive + 1 # count
  <2>1. i' = i + 1 /\ start_page' = FirstOfRun /\ consecutive' = consecutive + 1
        /\ UNCHANGED <<bitmap, free_pages, pc, count, used, ret, held>>
    BY <1>4 DEF ScanRun, heap
  <2>2. FreeSet' = FreeSet /\ Accounting'
    BY <2>1, HeapUnchanged DEF heap
  <2>3. FirstOfRun = i - consecutive /\ FirstOfRun \in Nat
    BY <1>1, <1>4, CountedRun
  <2>4. TypeOK'
    BY <1>1, <2>1, <2>3 DEF IInv, TypeOK
  <2>5. HeldNotFree' /\ NullIsFailure'
    BY <2>1, <2>2 DEF IInv, HeldNotFree, NullIsFailure
  <2>6. \A s \in Pages : s + count <= i + 1 => \E p \in Run(s, count) : bitmap[p]
    <3> SUFFICES ASSUME NEW s \in Pages, s + count <= i + 1
                 PROVE  \E p \in Run(s, count) : bitmap[p]
      OBVIOUS
    <3>1. CASE s + count <= i
      BY <1>1, <3>1 DEF IInv, LoopInv
    <3>2. CASE s + count = i + 1
      <4>1. s < i - consecutive
        BY <1>1, <1>4, <3>2 DEF Pages
      <4>2. bitmap[i - consecutive - 1]
        BY <1>1, <4>1 DEF IInv, LoopInv, Pages
      <4> QED BY <1>1, <3>2, <4>1, <4>2 DEF Run, Pages
    <3> QED BY <1>1, <3>1, <3>2 DEF Pages
  <2>7. \A p \in (i - consecutive) .. i : ~bitmap[p]
    BY <1>1, <1>4 DEF IInv, LoopInv
  <2>8. i > consecutive => bitmap[i - consecutive - 1]
    BY <1>1 DEF IInv, LoopInv
  <2>9. LoopInv'
    <3>1. /\ (i + 1) - (consecutive + 1) = i - consecutive /\ (i + 1) - 1 = i
          /\ consecutive + 1 < count /\ i + 1 <= TotalPages
      BY <1>1, <1>4 DEF Pages
    <3> QED BY <1>1, <2>1, <2>3, <2>6, <2>7, <2>8, <3>1 DEF LoopInv
  <2> QED BY <2>2, <2>4, <2>5, <2>9 DEF IInv
<1> QED BY <1>2, <1>3, <1>4

\* Freeing pages that callers hold or that are free leaves page 0 alone.
LEMMA FreeTargets ==
  ASSUME IInv, NEW ptr \in Nat, NEW n \in Nat, FreeOK(ptr, n)
  PROVE  \A p \in Run(PageOf(ptr), n) \cap Pages : p # 0
BY DEF FreeOK, IInv, NullIsFailure

LEMMA FreePageIInv ==
  ASSUME IInv, NEW ptr \in Ptrs, pmm_free_page(ptr)
  PROVE  IInv'
<1> DEFINE page == PageOf(ptr)
<1>1. ptr \in Nat /\ page \in Nat
  BY PMMAssumption DEF PageOf, PAGE_SIZE
<1>2. TypeOK /\ free_pages = Cardinality(FreeSet) /\ Cardinality(FreeSet) \in Nat
  BY AccountingPages, FreeSetFinite DEF IInv
<1>3. pc = "idle" /\ pc' = "idle" /\ UNCHANGED <<locals, ret>>
  BY DEF pmm_free_page
<1>4. LoopInv'
  BY <1>3 DEF LoopInv
<1>5. CASE IsPtr(ptr) /\ Clears(page)
  <2>1. page \in Pages /\ page \in Run(page, 1) /\ bitmap[page]
    BY <1>1, <1>5, PMMAssumption DEF Clears, Pages, Run
  <2>2. /\ bitmap' = [bitmap EXCEPT ![page] = FALSE]
        /\ free_pages' = free_pages + 1
        /\ held' = held \ {page}
    BY <1>5 DEF pmm_free_page
  <2>3. FreeSet' = FreeSet \cup {page} /\ free_pages' = Cardinality(FreeSet')
    BY <1>2, <2>1, <2>2, ClearBit
  <2>4. page # 0
    BY <1>1, <1>5, <2>1, FreeTargets DEF pmm_free_page, IsPtr
  <2>5. TypeOK'
    BY <1>2, <1>3, <2>1, <2>2, <2>3, AccountingNext DEF TypeOK, locals
  <2>6. HeldNotFree' /\ NullIsFailure'
    BY <2>2, <2>3, <2>4 DEF IInv, HeldNotFree, NullIsFailure
  <2> QED BY <1>4, <2>3, <2>5, <2>6, AccountingNext DEF IInv
<1>6. CASE ~(IsPtr(ptr) /\ Clears(page))
  <2>1. UNCHANGED heap /\ held' \subseteq held
    BY <1>6 DEF pmm_free_page, heap
  <2>2. FreeSet' = FreeSet /\ Accounting'
    BY <2>1, HeapUnchanged
  <2>3. TypeOK'
    BY <1>2, <1>3, <2>1 DEF TypeOK, locals, heap
  <2>4. HeldNotFree' /\ NullIsFailure'
    BY <2>1, <2>2 DEF IInv, HeldNotFree, NullIsFailure
  <2> QED BY <1>4, <2>2, <2>3, <2>4 DEF IInv
<1> QED BY <1>5, <1>6

LEMMA FreePagesIInv ==
  ASSUME IInv, NEW ptr \in Ptrs, NEW n \in Counts, pmm_free_pages(ptr, n)
  PROVE  IInv'
<1>1. ptr \in Nat /\ n \in Nat /\ PageOf(ptr) \in Nat
  BY PMMAssumption DEF PageOf, PAGE_SIZE
<1>2. CASE IsPtr(ptr)
  <2>1. /\ pc' = "free_pages" /\ used' = FALSE
        /\ i' = 0 /\ start_page' = PageOf(ptr) /\ count' = n /\ consecutive' = 0
        /\ held' = held \ Run(PageOf(ptr), n)
        /\ UNCHANGED <<bitmap, free_pages, ret>>
    BY <1>2 DEF pmm_free_pages, Enter, heap
  <2>2. FreeSet' = FreeSet /\ Accounting'
    BY <2>1, HeapUnchanged DEF heap
  <2>3. TypeOK'
    BY <1>1, <2>1 DEF IInv, TypeOK
  <2>4. HeldNotFree' /\ NullIsFailure'
    BY <2>1, <2>2 DEF IInv, HeldNotFree, NullIsFailure
  <2>5. \A p \in Run(PageOf(ptr), n) \cap Pages : p # 0
    BY <1>1, <1>2, FreeTargets DEF pmm_free_pages, IsPtr
  <2>6. LoopInv'
    BY <2>1, <2>5 DEF LoopInv, UntouchedByCallers
  <2> QED BY <2>2, <2>3, <2>4, <2>6 DEF IInv
<1>3. CASE ~IsPtr(ptr)
  BY <1>3 DEF pmm_free_pages, vars, IInv, TypeOK, Accounting, pmm_get_free_memory,
              HeldNotFree, NullIsFailure, FreeSet, LoopInv, UntouchedByCallers
<1> QED BY <1>2, <1>3

LEMMA FreeStepIInv == ASSUME IInv, FreeStep PROVE IInv'
<1> DEFINE page == start_page + i
<1>1. page \in Nat /\ page \in Run(start_page, count)
  BY DEF IInv, TypeOK, FreeStep, Run
<1>2. TypeOK /\ free_pages = Cardinality(FreeSet) /\ Cardinality(FreeSet) \in Nat
  BY AccountingPages, FreeSetFinite DEF IInv
<1>3. /\ pc = "free_pages" /\ i' = i + 1
      /\ UNCHANGED <<pc, start_page, count, consecutive, used, ret, held>>
  BY DEF FreeStep
<1>4. UntouchedByCallers(Run(start_page, count))
  BY <1>3 DEF IInv, LoopInv
<1>5. LoopInv'
  BY <1>3, <1>4 DEF LoopInv, UntouchedByCallers
<1>6. CASE Clears(page)
  <2>1. page \in Pages /\ bitmap[page]
    BY <1>1, <1>6, PMMAssumption DEF Clears, Pages
  <2>2. bitmap' = [bitmap EXCEPT ![page] = FALSE] /\ free_pages' = free_pages + 1
    BY <1>6 DEF FreeStep
  <2>3. FreeSet' = FreeSet \cup {page} /\ free_pages' = Cardinality(FreeSet')
    BY <1>2, <2>1, <2>2, ClearBit
  <2>4. page # 0 /\ page \notin held
    BY <1>1, <1>4, <2>1 DEF UntouchedByCallers
  <2>5. TypeOK'
    BY <1>2, <1>3, <2>1, <2>2, <2>3, AccountingNext DEF TypeOK
  <2>6. HeldNotFree' /\ NullIsFailure'
    BY <1>3, <2>3, <2>4 DEF IInv, HeldNotFree, NullIsFailure
  <2> QED BY <1>5, <2>3, <2>5, <2>6, AccountingNext DEF IInv
<1>7. CASE ~Clears(page)
  <2>1. UNCHANGED heap
    BY <1>7 DEF FreeStep, heap
  <2>2. FreeSet' = FreeSet /\ Accounting'
    BY <2>1, HeapUnchanged
  <2>3. TypeOK'
    BY <1>2, <1>3, <2>1 DEF TypeOK, heap
  <2>4. HeldNotFree' /\ NullIsFailure'
    BY <1>3, <2>2 DEF IInv, HeldNotFree, NullIsFailure
  <2> QED BY <1>5, <2>2, <2>3, <2>4 DEF IInv
<1> QED BY <1>6, <1>7

LEMMA NextIInv == IInv /\ [Next]_vars => IInv'
<1> SUFFICES ASSUME IInv, [Next]_vars PROVE IInv'
  OBVIOUS
<1>1. CASE UNCHANGED vars
  BY <1>1 DEF vars, IInv, TypeOK, Accounting, pmm_get_free_memory, HeldNotFree,
              NullIsFailure, FreeSet, LoopInv, UntouchedByCallers
<1>2. CASE Call
  BY <1>2, MarkRegionIInv, AllocCallIInv, FreePageIInv, FreePagesIInv DEF Call
<1>3. CASE Step
  BY <1>3, MarkPageIInv, DoneIInv, ScanPageIInv, ScanRunIInv, FreeStepIInv DEF Step
<1> QED BY <1>1, <1>2, <1>3 DEF Next

-----------------------------------------------------------------------------
\* IInv holds throughout every run of the allocator.
THEOREM Invariance == Spec => []IInv
BY InitIInv, NextIInv, PTL DEF Spec

\* The state stays well typed, and the counter never leaves 0 .. total_pages.
THEOREM TypeCorrect == Spec => []TypeOK
BY Invariance, PTL DEF IInv

\* pmm_get_free_memory is exact, whatever sequence of marks, allocations, frees
\* and double frees the callers make.
THEOREM AccountingExact == Spec => []Accounting
BY Invariance, PTL DEF IInv

\* No page is held and available at once, and page 0 is neither: NULL always
\* means that nothing was allocated.
THEOREM HoldersSafe == Spec => [](HeldNotFree /\ NullIsFailure)
BY Invariance, PTL DEF IInv

\* An allocation fails only when there is no free run of the length asked for.
THEOREM NoFalseFailure == Spec => FailsOnlyWhenFull
<1>1. IInv /\ ScanFails => ~\E s \in Pages : RunFree(s, count)
  <2> SUFFICES ASSUME IInv, ScanFails, NEW s \in Pages, RunFree(s, count)
               PROVE  FALSE
    OBVIOUS
  <2>1. /\ i \in Nat /\ i >= TotalPages /\ count \in Nat /\ count >= 1
        /\ pc \in {"alloc_page", "alloc_pages"} /\ consecutive \in Nat /\ consecutive < count
    BY PMMAssumption DEF ScanFails, ScanLoops, IInv, TypeOK, LoopInv
  <2>2. s + count - 1 \in Pages /\ s \in Nat
    BY <2>1, PMMAssumption DEF RunFree, Run, FreeSet, Pages
  <2>3. s + count <= i
    BY <2>1, <2>2, PMMAssumption DEF Pages
  <2>4. \E p \in Run(s, count) : bitmap[p]
    BY <2>1, <2>3 DEF IInv, LoopInv
  <2> QED BY <2>4 DEF RunFree, FreeSet
<1>2. IInv /\ [Next]_vars => [ScanFails => ~\E s \in Pages : RunFree(s, count)]_vars
  BY <1>1
<1> QED BY <1>2, Invariance, PTL DEF Spec, FailsOnlyWhenFull

-----------------------------------------------------------------------------
(* Refinement: every step is a step of PageAllocator or changes nothing there. *)

\* A run that a scan takes is free and the lowest one.
LEMMA TakeRefines ==
  ASSUME IInv, NEW s \in Nat, NEW n \in Nat, n >= 1, RunFree(s, n), Take(s, n),
         \A t \in Pages : RunFree(t, n) => s <= t
  PROVE  Abs!Next
<1>1. s \in Pages /\ s + n - 1 \in Pages
  BY DEF RunFree, Run, FreeSet
<1>2. /\ FreeSet' = FreeSet \ Run(s, n)
      /\ held' = held \cup Run(s, n)
  BY DEF Take, FreeSet
<1>3. Abs!Alloc(s, n)
  BY <1>2 DEF Abs!Alloc, Abs!LowestRun, Abs!Run, RunFree, Run
<1>4. n = (s + n - 1) - s + 1 /\ s <= s + n - 1
  OBVIOUS
<1> QED BY <1>1, <1>3, <1>4 DEF Abs!Next

LEMMA ScanRefines == ASSUME IInv, ScanPage \/ ScanRun PROVE [Abs!Next]_(Abs!vars)
<1> USE PMMAssumption
<1>1. CASE UNCHANGED heap /\ UNCHANGED held
  BY <1>1, HeapUnchanged DEF Abs!vars
<1>2. CASE ScanPage /\ ~bitmap[i]
  <2>1. /\ i \in Pages /\ i \in Nat /\ count = 1 /\ pc = "alloc_page"
        /\ Take(i, 1)
    BY <1>2 DEF ScanPage, ScanLoops, IInv, TypeOK, Pages, LoopInv
  <2>2. RunFree(i, 1)
    BY <1>2, <2>1 DEF RunFree, Run, FreeSet, Pages
  <2>3. ASSUME NEW t \in Pages, RunFree(t, 1), t < i PROVE FALSE
    <3>1. t + 1 <= i
      BY <2>1, <2>3 DEF Pages
    <3>2. \E p \in Run(t, 1) : bitmap[p]
      BY <2>1, <3>1 DEF IInv, LoopInv
    <3> QED BY <2>3, <3>2 DEF RunFree, FreeSet
  <2> QED BY <2>1, <2>2, <2>3, TakeRefines DEF Pages
<1>3. CASE ScanRun /\ ~bitmap[i] /\ consecutive + 1 = count
  <2>1. /\ pc = "alloc_pages" /\ ScanLoops /\ Take(FirstOfRun, count)
        /\ i \in Nat /\ consecutive \in Nat /\ count \in Nat
    BY <1>3 DEF ScanRun, IInv, TypeOK
  <2>2. /\ FirstOfRun = i - consecutive /\ FirstOfRun \in Nat
        /\ RunFree(FirstOfRun, count)
    BY <1>3, <2>1, CountedRun
  <2>3. ASSUME NEW t \in Pages, RunFree(t, count), t < FirstOfRun PROVE FALSE
    <3>1. t + count <= i
      BY <1>3, <2>1, <2>2, <2>3 DEF Pages
    <3>2. \E p \in Run(t, count) : bitmap[p]
      BY <2>1, <3>1 DEF IInv, LoopInv
    <3> QED BY <2>3, <3>2 DEF RunFree, FreeSet
  <2>4. count >= 1
    BY <1>3, <2>1
  <2> QED BY <2>1, <2>2, <2>3, <2>4, TakeRefines DEF Pages
<1>4. ~(UNCHANGED heap /\ UNCHANGED held) =>
        \/ ScanPage /\ ~bitmap[i]
        \/ ScanRun /\ ~bitmap[i] /\ consecutive + 1 = count
  BY DEF ScanPage, ScanRun
<1> QED BY <1>1, <1>2, <1>3, <1>4

LEMMA MarkPageRefines == ASSUME IInv, MarkPage PROVE [Abs!Next]_(Abs!vars)
<1> DEFINE page == start_page + i
<1>1. page \in Pages /\ page \in Run(start_page, count) /\ UNCHANGED held
  BY PMMAssumption DEF IInv, TypeOK, MarkPage, MarkLoops, Pages, Run
<1>2. CASE used
  <2>1. FreeSet' = FreeSet \ {page}
    BY <1>1, <1>2, SetBit DEF MarkPage, IInv, TypeOK
  <2> QED BY <1>1, <2>1 DEF Abs!Next, Abs!Reserve, Abs!vars
<1>3. CASE ~used
  <2>1. FreeSet' = FreeSet \cup {page}
    BY <1>1, <1>3, ClearBit DEF MarkPage, IInv, TypeOK
  <2>2. page \notin held
    BY <1>1, <1>3 DEF MarkPage, IInv, LoopInv, UntouchedByCallers
  <2> QED BY <1>1, <2>1, <2>2 DEF Abs!Next, Abs!Release, Abs!vars
<1> QED BY <1>2, <1>3

LEMMA FreeRefines ==
  ASSUME IInv,
         FreeStep \/ \E ptr \in Ptrs : \/ pmm_free_page(ptr)
                                       \/ \E n \in Counts : pmm_free_pages(ptr, n)
  PROVE  [Abs!Next]_(Abs!vars)
<1>1. CASE FreeStep
  <2> DEFINE page == start_page + i
  <2>1. page \in Nat /\ page \in Run(start_page, count) /\ UNCHANGED held
    BY <1>1 DEF IInv, TypeOK, FreeStep, Run
  <2>2. CASE Clears(page)
    <3>1. page \in Pages
      BY <2>1, <2>2, PMMAssumption DEF Clears, Pages
    <3>2. FreeSet' = FreeSet \cup {page}
      BY <1>1, <2>2, <3>1, ClearBit DEF FreeStep, IInv
    <3>3. page \notin held
      BY <1>1, <2>1, <3>1 DEF FreeStep, IInv, LoopInv, UntouchedByCallers
    <3>4. page \notin FreeSet
      BY <2>2 DEF Clears, FreeSet
    <3> QED BY <2>1, <3>1, <3>2, <3>3, <3>4 DEF Abs!Next, Abs!Release
  <2>3. CASE ~Clears(page)
    BY <1>1, <2>1, <2>3, HeapUnchanged DEF FreeStep, heap, Abs!vars
  <2> QED BY <2>2, <2>3
<1>2. ASSUME NEW ptr \in Ptrs, pmm_free_page(ptr)
      PROVE  [Abs!Next]_(Abs!vars)
  <2> DEFINE page == PageOf(ptr)
  <2>1. ptr \in Nat /\ page \in Nat
    BY PMMAssumption DEF PageOf, PAGE_SIZE
  <2>2. CASE IsPtr(ptr) /\ Clears(page)
    <3>1. page \in Pages /\ page \in Run(page, 1) /\ page \notin FreeSet
      BY <2>1, <2>2, PMMAssumption DEF Clears, Pages, Run, FreeSet
    <3>2. FreeSet' = FreeSet \cup {page} /\ held' = held \ {page}
      BY <1>2, <2>2, <3>1, ClearBit DEF pmm_free_page, IInv
    <3>3. page \in held
      BY <1>2, <2>2, <3>1 DEF pmm_free_page, IsPtr, FreeOK
    <3> QED BY <3>1, <3>2, <3>3 DEF Abs!Next, Abs!GiveBack
  <2>3. CASE ~(IsPtr(ptr) /\ Clears(page))
    <3>1. UNCHANGED heap
      BY <1>2, <2>3 DEF pmm_free_page, heap
    <3>2. FreeSet' = FreeSet
      BY <3>1, HeapUnchanged
    <3>3. held' = held
      <4>1. CASE page \in held
        <5>1. page \in Pages /\ page \notin FreeSet
          BY <4>1 DEF IInv, TypeOK, HeldNotFree
        <5>2. Clears(page)
          BY <5>1, PMMAssumption DEF Clears, FreeSet, Pages
        <5> QED BY <1>2, <2>3, <5>2 DEF pmm_free_page
      <4>2. CASE page \notin held
        BY <1>2, <4>2 DEF pmm_free_page
      <4> QED BY <4>1, <4>2
    <3> QED BY <3>2, <3>3 DEF Abs!vars
  <2> QED BY <2>2, <2>3
<1>3. ASSUME NEW ptr \in Ptrs, NEW n \in Counts, pmm_free_pages(ptr, n)
      PROVE  [Abs!Next]_(Abs!vars)
  <2> DEFINE P == held \cap Run(PageOf(ptr), n)
  <2>1. UNCHANGED heap /\ (held' = held \/ held' = held \ P)
    BY <1>3 DEF pmm_free_pages, Enter, vars, heap
  <2>2. FreeSet' = FreeSet
    BY <2>1, HeapUnchanged
  <2>3. P \in SUBSET Pages /\ P \subseteq held
    BY DEF IInv, TypeOK
  <2> QED BY <2>1, <2>2, <2>3 DEF Abs!Next, Abs!GiveUp, Abs!vars
<1> QED BY <1>1, <1>2, <1>3

\* The bitmap allocator implements PageAllocator: an allocation takes the lowest
\* run of free pages, and nothing else ever makes a page held.
THEOREM Refinement == Spec => ImplementsPageAllocator
<1>1. Init => Abs!Init
  BY DEF Init, Abs!Init, FreeSet
<1>2. IInv /\ [Next]_vars => [Abs!Next]_(Abs!vars)
  <2> SUFFICES ASSUME IInv, [Next]_vars PROVE [Abs!Next]_(Abs!vars)
    OBVIOUS
  <2>1. CASE UNCHANGED <<heap, held>>
    BY <2>1, HeapUnchanged DEF Abs!vars
  <2>2. UNCHANGED vars => UNCHANGED <<heap, held>>
    BY DEF vars, heap
  <2>3. Call => \/ UNCHANGED <<heap, held>>
                \/ \E ptr \in Ptrs : \/ pmm_free_page(ptr)
                                     \/ \E n \in Counts : pmm_free_pages(ptr, n)
    BY DEF Call, pmm_mark_region, pmm_alloc_page, pmm_alloc_pages, Enter
  <2>4. MarkDone \/ ScanFails \/ FreeDone => UNCHANGED <<heap, held>>
    BY DEF MarkDone, ScanFails, FreeDone
  <2> QED BY <2>1, <2>2, <2>3, <2>4, MarkPageRefines, ScanRefines, FreeRefines DEF Next, Step
<1> QED BY <1>1, <1>2, Invariance, PTL DEF Spec, ImplementsPageAllocator, Abs!Spec
==============================================================================
