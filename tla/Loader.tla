-------------------------------- MODULE Loader --------------------------------
(***************************************************************************)
(* Programs in memory: loader_exec_buffer of loader/loader.c with          *)
(* elf64_load and elf32_load (elf.c), which are the same function twice,   *)
(* over the page tables of Vmm.  Programs run one after the other in the   *)
(* one address space there is.                                             *)
(*                                                                         *)
(* They are linked into low memory, which the boot loader maps by large    *)
(* entries: a program lies in the physical pages of its own addresses, and *)
(* what the loader takes for its page table is the first page of its       *)
(* block.  The pages that the loader allocates for it are never used.  The *)
(* page allocator knows nothing of where programs lie: the model ends when *)
(* such a page is handed out, in stage "overlap".                          *)
(***************************************************************************)
EXTENDS Vmm, Sequences

CONSTANTS
  Files,      \* what is executed: records of FileType
  HEADER,     \* the size of an ELF header
  STACK,      \* the page numbers of the user stack: 16 in the code
  RUNS        \* bound: programs started

VARIABLES
  file,       \* the program being loaded or executed, or NoFile
  stage,      \* where loader_exec_buffer is
  seg, page,  \* the segment and the page it has reached
  frame,      \* the page pmm_alloc_page returned
  ran         \* history: the programs that were started, in order

loadervars == <<file, stage, seg, page, frame, ran>>
vars == <<vmmvars, loadervars>>

(* A PT_LOAD header: addresses and sizes in words, the file's part before   *)
(* the zeroed rest, as linkers write them.  odd: the words of the file that *)
(* have the bit of PAGE_PRESENT set; far: those with an address beside it.  *)
Segments == [vaddr : Nat, memsz : Nat, filesz : Nat, offset : Nat]
FileType == [size : Nat \ {0}, odd : SUBSET Nat, far : SUBSET Nat, segs : Seq(Segments)]
NoFile == [size |-> 0, odd |-> {}, far |-> {}, segs |-> <<>>]

Cells(s) == s.vaddr .. s.vaddr + s.memsz - 1
PagesOf(s) == (s.vaddr \div CELLS) .. ((s.vaddr + s.memsz + CELLS - 1) \div CELLS) - 1
AllPages(f) == UNION {PagesOf(f.segs[i]) : i \in DOMAIN f.segs}

(* Where a program lies, with what is taken for its page tables.            *)
Place(f) == AllPages(f) \cup {Block(v) : v \in AllPages(f)}

ASSUME LoaderAssumption ==
  /\ Files \subseteq FileType /\ HEADER \in Nat
  /\ (\E a, b \in VPages : a <= b /\ STACK = a .. b) /\ STACK \subseteq VPages /\ \A v \in STACK : Own(v)
  /\ \A f \in Files :
       /\ \A v \in AllPages(f) : v \in VPages /\ Low(v)
       /\ \A i \in DOMAIN f.segs :
            /\ f.segs[i].filesz <= f.segs[i].memsz /\ f.segs[i].memsz > 0
            /\ \A j \in 1 .. i - 1 : Cells(f.segs[i]) \cap Cells(f.segs[j]) = {}

Init ==
  /\ VmmInit
  /\ file = NoFile /\ stage = "shell" /\ seg = 1 /\ page = 0 /\ frame = 0 /\ ran = <<>>

-----------------------------------------------------------------------------
Contents(a) == memory[Physical(a \div CELLS)][a % CELLS]
Segment == file.segs[seg]

At(s) == stage = s /\ pc = "idle"
(* Where the program goes on, unless a page of its own was handed out.      *)
Proceed(s) == stage' = IF Place(file) \cap (free \ free') = {} THEN s ELSE "overlap"
Goto(s) == Proceed(s) /\ UNCHANGED <<file, seg, ran>>
ToSegment(f, i) ==
  /\ file' = f /\ seg' = i
  /\ IF i <= Len(f.segs) THEN stage' = "page" /\ page' = Min(PagesOf(f.segs[i]))
                         ELSE stage' = "stack" /\ page' = Min(STACK)

(* An ELF file shorter than its header is refused.  A file that is not ELF  *)
(* is executed as flat code by xec_load, which is not modelled.             *)
loader_exec_buffer(f) ==
  /\ At("shell") /\ Len(ran) < RUNS
  /\ IF f.size < HEADER THEN UNCHANGED <<file, stage, seg, page, ran>>
     ELSE /\ ran' = Append(ran, f)
          /\ IF Place(f) \cap Held = {} THEN ToSegment(f, 1)
             ELSE stage' = "overlap" /\ file' = f /\ UNCHANGED <<seg, page>>
  /\ UNCHANGED <<vmmvars, frame>>

(* Every page of the segment is looked up, and kept when something is       *)
(* found; otherwise a page is cleared and mapped.                           *)
LookUp ==
  /\ At("page") /\ page \in PagesOf(Segment)
  /\ vmm_get_phys(page) /\ UNCHANGED <<page, frame>> /\ Goto("looked")

KeepPage ==
  /\ At("looked") /\ found
  /\ page' = page + 1 /\ UNCHANGED <<vmmvars, frame>> /\ Goto("page")

AllocPage ==
  /\ At("looked") /\ ~found
  /\ \E p \in free :
       /\ Take(p) /\ frame' = p
       /\ memory' = [memory EXCEPT ![p] = [i \in Indices |-> Zero]]
  /\ UNCHANGED <<known, pc, level, at, virt, new, found, page>> /\ Goto("map")

(* The result of pmm_alloc_page is not tested: memset gets NULL.            *)
AllocNull ==
  /\ At("looked") /\ ~found /\ free = {}
  /\ UNCHANGED <<vmmvars, page, frame>> /\ Goto("halted")

MapPage ==
  /\ At("map")
  /\ vmm_map_page(page, frame)
  /\ page' = page + 1 /\ UNCHANGED frame /\ Goto("page")

(* memcpy of the file's part, if the file has it, and memset of the rest.   *)
Copied(s) == IF s.filesz > 0 /\ s.offset + s.filesz <= file.size
             THEN s.vaddr .. s.vaddr + s.filesz - 1 ELSE {}
ClearedNever(s) == {}   \* mutant: pages are zero already
Cleared(s) == s.vaddr + s.filesz .. s.vaddr + s.memsz - 1
Written(s) == Copied(s) \cup Cleared(s)

Fill(values) ==   \* values of addresses
  memory' = [p \in DOMAIN memory |-> [c \in Indices |->
    LET here == {a \in DOMAIN values : Physical(a \div CELLS) = p /\ a % CELLS = c} IN
    IF here = {} THEN memory[p][c] ELSE values[CHOOSE a \in here : TRUE]]]

CopySegment ==
  /\ At("page") /\ page \notin PagesOf(Segment)
  /\ LET s == Segment IN
     Fill([a \in Written(s) |-> IF a \in Copied(s) THEN Cell(file, s.offset + a - s.vaddr) ELSE Zero])
  /\ ToSegment(file, seg + 1)
  /\ UNCHANGED <<free, known, pc, level, at, virt, new, found, frame, ran>>

(* The stack: new pages each time, not cleared; without a free page the     *)
(* NULL is mapped as page 0.                                                *)
OneStackPage ==   \* mutant: a page is allocated once, before the loop
  /\ At("stack") /\ page \in STACK
  /\ \/ page > Min(STACK) /\ UNCHANGED <<free, frame>>
     \/ page = Min(STACK) /\ \E p \in free : Take(p) /\ frame' = p
  /\ UNCHANGED <<memory, known, pc, level, at, virt, new, found, page>> /\ Goto("mapstack")
StackPage ==
  /\ At("stack") /\ page \in STACK
  /\ \/ \E p \in free : Take(p) /\ frame' = p
     \/ free = {} /\ frame' = 0 /\ UNCHANGED free
  /\ UNCHANGED <<memory, known, pc, level, at, virt, new, found, page>> /\ Goto("mapstack")

MapStack ==
  /\ At("mapstack")
  /\ vmm_map_page(page, frame)
  /\ page' = page + 1 /\ UNCHANGED frame /\ Goto("stack")

Enter ==
  /\ At("stack") /\ page \notin STACK
  /\ UNCHANGED <<vmmvars, page, frame>> /\ Goto("entry")

(* The program writes its memory and its stack, and returns to its caller.  *)
OwnCells == (UNION {Cells(file.segs[i]) : i \in DOMAIN file.segs}) \cup {n * CELLS + c : n \in STACK, c \in Indices}
Work ==
  /\ At("entry")
  /\ \E w \in {Zero, Junk} : Fill([a \in OwnCells |-> w])
  /\ UNCHANGED <<free, known, pc, level, at, virt, new, found, page, frame>> /\ Goto("user")

(* Nothing is unmapped and no page is freed.                                *)
Leave ==
  /\ stage \in {"entry", "user"} /\ pc = "idle"
  /\ stage' = "shell" /\ file' = NoFile /\ seg' = 1 /\ page' = 0 /\ frame' = 0
  /\ UNCHANGED <<vmmvars, ran>>

Load == LookUp \/ KeepPage \/ AllocPage \/ AllocNull \/ MapPage \/ CopySegment
        \/ StackPage \/ MapStack \/ Enter \/ Work \/ Leave
Next ==
  /\ stage /= "overlap"
  /\ Load \/ (Walk /\ UNCHANGED <<page, frame>> /\ Goto(stage)) \/ \E f \in Files : loader_exec_buffer(f)
Spec == Init /\ [][Next]_vars

-----------------------------------------------------------------------------

(* What the loader maps leads to tables of its own: of no page that is free *)
(* or that the program lies in, and of one place each (paging.c:22-47).     *)
OwnPages == {v \in VPages : Own(v)}
TablePages == {TableOn(v)[n] : v \in OwnPages, n \in 2 .. LEVELS} \ {0}
TablesPrivate ==
  /\ TablePages \subseteq Held /\ (stage /= "overlap" => TablePages \cap Place(file) = {})
  /\ \A u, v \in OwnPages, m, n \in 2 .. LEVELS :
       TableOn(u)[m] = TableOn(v)[n] /\ TableOn(u)[m] /= 0
         => m = n /\ \A i \in 1 .. n - 1 : Tuple[u][i] = Tuple[v][i]

(* Nothing moves in the address space but the page of the stack that is     *)
(* being mapped, which goes to the new page: not a program's own pages,     *)
(* although entries are written for them, and not what was mapped before    *)
(* (paging.c:13-54).                                                        *)
Moves == \A v \in VPages : Physical(v)' /= Physical(v) => pc = "map" /\ v = virt /\ v \in STACK /\ Physical(v)' = new
TranslationStable == [][Moves]_vars

(* When a program is entered its stack is in pages that the allocator has   *)
(* given out, different ones, that are no tables and not the program's own, *)
(* or in page 0 when memory has run out (loader.c:58-61).                   *)
StackPrivate ==
  stage = "entry" =>
    \A n \in STACK :
      \/ Physical(n) = 0 /\ free = {}
      \/ /\ Physical(n) \in Held \ (TablePages \cup Place(file))
         /\ \A m \in STACK : Physical(m) = Physical(n) => m = n

(* When a program is entered, every segment that the file has in full is    *)
(* in memory as its header says, the rest of it zero, but for words of the  *)
(* first page of a block: where such a word was not taken for an entry, the *)
(* entry for the page of its number was written over it, when that page     *)
(* belongs to a segment loaded later (elf.c:41-57, paging.c:42-50).         *)
InFile(s, a) == IF a < s.vaddr + s.filesz THEN Cell(file, s.offset + a - s.vaddr) ELSE Zero
Overwritten(i, a) ==
  /\ ~Leads(InFile(file.segs[i], a)) /\ Contents(a).kind = "entry"
  /\ \E j \in i + 1 .. Len(file.segs) : \E v \in PagesOf(file.segs[j]) :
       a \div CELLS = Block(v) /\ a % CELLS = Tuple[v][LEVELS]
SegmentsAsInFile ==
  stage = "entry" =>
    \A i \in 1 .. Len(file.segs) :
      LET s == file.segs[i] IN
      s.offset + s.filesz <= file.size =>
        \A a \in Cells(s) : Contents(a) = InFile(s, a) \/ Overwritten(i, a)

(* The allocator gives out a page where a program lies, or a program is     *)
(* loaded over pages given out, only when that many pages were needed: each *)
(* program takes at most its pages and its stack, and the tables of the     *)
(* stack are made once (elf.c:43-47, loader.c:58, pmm.c:50-59).             *)
Needed ==
  {x \in (DOMAIN ran) \X (0 .. Max({Len(ran[k].segs) : k \in DOMAIN ran})) \X VPages :
     IF x[2] = 0 THEN x[3] \in STACK ELSE x[2] <= Len(ran[x[1]].segs) /\ x[3] \in PagesOf(ran[x[1]].segs[x[2]])}
StackTables == {<<n, [i \in 1 .. n - 1 |-> Tuple[v][i]]>> : v \in STACK, n \in 2 .. LEVELS}
OverlapWhenUsedUp ==
  stage = "overlap" =>
    \E p \in Place(file) : Cardinality({q \in Given : q < p}) < Cardinality(Needed) + Cardinality(StackTables)
==============================================================================
