-------------------------------- MODULE PMM ----------------------------------
(***************************************************************************)
(* The physical page allocator, kernel/mem/pmm.c: a bitmap with one bit    *)
(* per page (TRUE = used) and a counter of the clear bits.  Each call is   *)
(* an action that starts it, and each iteration of its loop is a step, so  *)
(* the loops' own invariants can be stated and proved.  The kernel never   *)
(* runs two calls at once: no interrupt handler uses the allocator.        *)
(*                                                                         *)
(* Callers keep the allocator's contract (ReleaseOK, FreeOK): they give    *)
(* back only pages they hold, pages that are free already, or pages past   *)
(* the end of memory.                                                      *)
(***************************************************************************)
EXTENDS Integers, FiniteSets

CONSTANTS TotalPages,   \* total_pages, mem_size / PAGE_SIZE
          BootBase,     \* the region kernel_main makes available
          BootLength,
          Regions,      \* pmm_mark_region arguments, <<base, length>> in bytes
          Counts,       \* page counts that callers ask for
          Ptrs          \* addresses that callers free

PAGE_SIZE == 4096
NULL == 0

ASSUME PMMAssumption ==
  /\ TotalPages \in Nat
  /\ BootBase \in Nat /\ BootBase >= PAGE_SIZE
  /\ BootLength \in Nat
  /\ Regions \subseteq Nat \X Nat
  /\ Counts \subseteq Nat
  /\ Ptrs \subseteq Nat

Pages == 0 .. (TotalPages - 1)
PageOf(addr) == addr \div PAGE_SIZE
AddrOf(page) == page * PAGE_SIZE

VARIABLES
  bitmap,        \* [Pages -> BOOLEAN]
  free_pages,    \* the counter
  pc,            \* the running call, "idle" between calls
  i,             \* its loop variable
  start_page, count, consecutive, used,   \* its arguments and locals
  ret,           \* what the last allocation returned
  held           \* ghost: pages that callers hold

heap == <<bitmap, free_pages>>
locals == <<i, start_page, count, consecutive, used>>
vars == <<bitmap, free_pages, pc, i, start_page, count, consecutive, used, ret, held>>

\* bitmap_test behind the guards of the two free calls.
ClearsAnyPage(page) == page < TotalPages
Clears(page) == page < TotalPages /\ bitmap[page]

FreeSet == {p \in Pages : ~bitmap[p]}
Run(s, n) == s .. (s + n - 1)
RunFree(s, n) == Run(s, n) \subseteq FreeSet

(***************************************************************************)
(* Init is the state pmm_init leaves, on entry to kernel_main's            *)
(* pmm_mark_region(0x100000, 32 MB, false).                                *)
(***************************************************************************)
Init ==
  /\ bitmap = [p \in Pages |-> TRUE]
  /\ free_pages = 0
  /\ pc = "mark"
  /\ i = 0
  /\ start_page = PageOf(BootBase)
  /\ count = PageOf(BootLength)
  /\ consecutive = 0
  /\ used = FALSE
  /\ ret = NULL
  /\ held = {}

Return(value) ==
  /\ pc' = "idle"
  /\ ret' = value
  /\ i' = 0 /\ start_page' = 0 /\ count' = 0 /\ consecutive' = 0 /\ used' = FALSE

Enter(label, s, n, u) ==
  /\ pc = "idle"
  /\ pc' = label
  /\ i' = 0 /\ start_page' = s /\ count' = n /\ consecutive' = 0 /\ used' = u
  /\ UNCHANGED <<heap, ret>>

-----------------------------------------------------------------------------
(* pmm_mark_region *)

\* No byte of the region lies in page 0 or in a page a caller holds.
ReleaseOK(base, length) ==
  \A p \in Pages : (p = 0 \/ p \in held)
     => base + length <= AddrOf(p) \/ AddrOf(p) + PAGE_SIZE <= base

pmm_mark_region(base, length, u) ==
  /\ u \/ ReleaseOK(base, length)
  /\ Enter("mark", PageOf(base), PageOf(length), u)
  /\ UNCHANGED held

MarkLoops == i < count /\ start_page + i < TotalPages

MarkPage ==
  LET page == start_page + i IN
  /\ pc = "mark" /\ MarkLoops
  /\ i' = i + 1
  /\ bitmap' = [bitmap EXCEPT ![page] = used]
  /\ free_pages' = IF used
                   THEN IF ~bitmap[page] /\ free_pages > 0
                        THEN free_pages - 1 ELSE free_pages
                   ELSE IF bitmap[page] THEN free_pages + 1 ELSE free_pages
  /\ UNCHANGED <<pc, start_page, count, consecutive, used, ret, held>>

MarkDone ==
  /\ pc = "mark" /\ ~MarkLoops
  /\ Return(ret)
  /\ UNCHANGED <<heap, held>>

-----------------------------------------------------------------------------
(* pmm_alloc_page and pmm_alloc_pages *)

pmm_alloc_page == Enter("alloc_page", 0, 1, FALSE) /\ UNCHANGED held

pmm_alloc_pages(n) ==
  /\ pc = "idle"
  /\ IF n = 0
     THEN Return(NULL) /\ UNCHANGED <<heap, held>>
     ELSE Enter("alloc_pages", 0, n, FALSE) /\ UNCHANGED held

ScanLoopsOneShort == i < TotalPages - 1
ScanLoops == i < TotalPages

\* start_page once the clear bit i is counted.
StalePageFirst == start_page
FirstOfRun == IF consecutive = 0 THEN i ELSE start_page

\* Take pages s .. s+n-1 and return the address of the first.
Take(s, n) ==
  /\ bitmap' = [p \in Pages |-> bitmap[p] \/ p \in Run(s, n)]
  /\ free_pages' = free_pages - n
  /\ held' = held \cup Run(s, n)
  /\ Return(AddrOf(s))

ScanPage ==
  /\ pc = "alloc_page" /\ ScanLoops
  /\ IF ~bitmap[i]
     THEN Take(i, 1)
     ELSE /\ i' = i + 1
          /\ UNCHANGED <<heap, pc, start_page, count, consecutive, used, ret, held>>

ScanRun ==
  /\ pc = "alloc_pages" /\ ScanLoops
  /\ \/ /\ bitmap[i]
        /\ i' = i + 1 /\ consecutive' = 0
        /\ UNCHANGED <<heap, pc, start_page, count, used, ret, held>>
     \/ /\ ~bitmap[i] /\ consecutive + 1 # count
        /\ i' = i + 1 /\ start_page' = FirstOfRun /\ consecutive' = consecutive + 1
        /\ UNCHANGED <<heap, pc, count, used, ret, held>>
     \/ /\ ~bitmap[i] /\ consecutive + 1 = count
        /\ Take(FirstOfRun, count)

ScanFails ==
  /\ pc \in {"alloc_page", "alloc_pages"} /\ ~ScanLoops
  /\ Return(NULL)
  /\ UNCHANGED <<heap, held>>

-----------------------------------------------------------------------------
(* pmm_free_page and pmm_free_pages *)

FreeOK(ptr, n) ==
  \A p \in Run(PageOf(ptr), n) \cap Pages : p \in held \cup FreeSet

IsPtr(ptr) == ptr # NULL

pmm_free_page(ptr) ==
  LET page == PageOf(ptr)
      clears == IsPtr(ptr) /\ Clears(page) IN
  /\ pc = "idle"
  /\ ptr # NULL => FreeOK(ptr, 1)
  /\ bitmap' = IF clears THEN [bitmap EXCEPT ![page] = FALSE] ELSE bitmap
  /\ free_pages' = IF clears THEN free_pages + 1 ELSE free_pages
  /\ held' = IF IsPtr(ptr) THEN held \ {page} ELSE held
  /\ UNCHANGED <<pc, locals, ret>>

pmm_free_pages(ptr, n) ==
  /\ pc = "idle"
  /\ ptr # NULL => FreeOK(ptr, n)
  /\ IF IsPtr(ptr)
     THEN /\ Enter("free_pages", PageOf(ptr), n, FALSE)
          /\ held' = held \ Run(PageOf(ptr), n)
     ELSE UNCHANGED vars

FreeStep ==
  LET page == start_page + i IN
  /\ pc = "free_pages" /\ i < count
  /\ i' = i + 1
  /\ bitmap' = IF Clears(page) THEN [bitmap EXCEPT ![page] = FALSE] ELSE bitmap
  /\ free_pages' = IF Clears(page) THEN free_pages + 1 ELSE free_pages
  /\ UNCHANGED <<pc, start_page, count, consecutive, used, ret, held>>

FreeDone ==
  /\ pc = "free_pages" /\ i >= count
  /\ Return(ret)
  /\ UNCHANGED <<heap, held>>

-----------------------------------------------------------------------------
Call == \/ \E r \in Regions, u \in BOOLEAN : pmm_mark_region(r[1], r[2], u)
        \/ pmm_alloc_page
        \/ \E n \in Counts : pmm_alloc_pages(n)
        \/ \E ptr \in Ptrs : pmm_free_page(ptr)
        \/ \E ptr \in Ptrs, n \in Counts : pmm_free_pages(ptr, n)

Step == MarkPage \/ MarkDone \/ ScanPage \/ ScanRun \/ ScanFails \/ FreeStep \/ FreeDone

Next == Call \/ Step

Spec == Init /\ [][Next]_vars

pmm_get_free_memory == free_pages * PAGE_SIZE

-----------------------------------------------------------------------------
(* Properties *)

\* The type of the state: between calls the locals are dead.
TypeOK ==
  /\ bitmap \in [Pages -> BOOLEAN]
  /\ free_pages \in 0 .. TotalPages
  /\ pc \in {"idle", "mark", "alloc_page", "alloc_pages", "free_pages"}
  /\ i \in Nat /\ start_page \in Nat /\ count \in Nat /\ consecutive \in Nat
  /\ used \in BOOLEAN
  /\ ret \in Nat
  /\ held \in SUBSET Pages

\* pmm_get_free_memory reports exactly the memory that the bitmap has free, in
\* the middle of every loop too: double frees, overlapping regions and regions
\* past the end of memory never make the counter drift (and never below zero).
Accounting == pmm_get_free_memory = PAGE_SIZE * Cardinality(FreeSet)

\* A page that a caller holds is never available to another caller, while
\* regions are marked and neighbours are freed around it.
HeldNotFree == held \cap FreeSet = {}

\* Page 0 is never available, so an allocation that returns address 0 took
\* nothing: callers can read NULL as failure (pmm.c hands out i * PAGE_SIZE).
NullIsFailure == 0 \notin held /\ 0 \notin FreeSet

\* pmm_alloc_page and pmm_alloc_pages give up only when no run of the length
\* asked for is free: the scan's resets of "consecutive" skip no run.
FailsOnlyWhenFull == [][ScanFails => ~\E s \in Pages : RunFree(s, count)]_vars

\* What the loops know in the middle of a call.  A region being released and
\* pages being freed contain neither page 0 nor a held page; a scan that has
\* seen pages 0 .. i-1 found no run, and the "consecutive" pages before i are
\* free, with a used page (or the start of memory) before them.
UntouchedByCallers(P) == \A p \in P \cap Pages : p # 0 /\ p \notin held

LoopInv ==
  /\ (pc = "mark" /\ ~used) \/ pc = "free_pages"
       => UntouchedByCallers(Run(start_page, count))
  /\ pc = "alloc_page" => count = 1 /\ consecutive = 0
  /\ pc \in {"alloc_page", "alloc_pages"} =>
       /\ i <= TotalPages
       /\ consecutive < count /\ consecutive <= i
       /\ consecutive > 0 => start_page = i - consecutive
       /\ \A p \in (i - consecutive) .. (i - 1) : ~bitmap[p]
       /\ i > consecutive => bitmap[i - consecutive - 1]
       /\ \A s \in Pages : s + count <= i => \E p \in Run(s, count) : bitmap[p]

\* The inductive invariant.
IInv == TypeOK /\ Accounting /\ HeldNotFree /\ NullIsFailure /\ LoopInv

\* The bitmap allocator implements the abstract one: what it takes is free and
\* is the lowest run, what it gives back was held or reserved.
Abs == INSTANCE PageAllocator WITH free <- FreeSet
ImplementsPageAllocator == Abs!Spec

==============================================================================
