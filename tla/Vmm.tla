--------------------------------- MODULE Vmm ----------------------------------
(***************************************************************************)
(* The page tables of arch/x86_64/paging.c: vmm_map_page and vmm_get_phys, *)
(* one level per step, over the memory that tables and programs share.     *)
(*                                                                         *)
(* The root is the boot loader's.  It maps low memory to itself, by large  *)
(* entries that the processor takes for the mapping of a whole block, and  *)
(* the code for a table: the first page of the block.  A virtual page is   *)
(* its number; Tuple gives its indices in the tables.                      *)
(***************************************************************************)
EXTENDS Integers, FiniteSets, FiniteSetsExt

CONSTANTS
  RAM,        \* the page numbers of memory; page 0 is NULL
  Given,      \* those that are free when the first program is started
  BootTables,       \* what the boot loader's tables contain, by page, outside RAM
  Root,       \* the one in cr3
  CELLS,      \* entries of a table and words of a page: 512 in the code
  LEVELS,     \* 4 in the code
  Tuple,      \* the indices of a virtual page
  Stale       \* where a word leads that is no entry and is taken for one, unless to 0

VARIABLES
  free,           \* pages of Given that the allocator has
  memory,         \* the words of every page
  known,          \* kernel_pml4 is set
  pc, level, at,  \* the running call, and the table it has reached
  virt, new,      \* its arguments: the virtual page, and the page to map there
  found           \* vmm_get_phys returned an address

vmmvars == <<free, memory, known, pc, level, at, virt, new, found>>

(* Words: an entry of a table, the word of a file, zero, or anything else.  *)
Zero == [kind |-> "zero"]
Junk == [kind |-> "junk"]
Entry(p) == [kind |-> "entry", to |-> p]
Large(p) == [kind |-> "large", to |-> p]
Cell(f, k) == [kind |-> "cell", file |-> f, at |-> k]

(* How the code reads a word: whether PAGE_PRESENT is set, and the address, *)
(* which the words of a file that are not `far' have not.                   *)
IsPresent(w) == w.kind \in {"entry", "large", "junk"} \/ (w.kind = "cell" /\ w.at \in w.file.odd)
To(w) == IF w.kind \in {"entry", "large"} THEN w.to
         ELSE IF w.kind = "cell" /\ w.at \notin w.file.far THEN 0 ELSE Stale
Leads(w) == IsPresent(w) /\ To(w) /= 0

Indices == 0 .. CELLS - 1
VPages == DOMAIN Tuple
Held == Given \ free

(* The tables that the code takes for those on the way to v, or 0.          *)
TablesIn(mem, v) ==
  LET t[n \in 1 .. LEVELS] ==
        IF n = 1 THEN Root
        ELSE IF t[n - 1] = 0 \/ ~IsPresent(mem[t[n - 1]][Tuple[v][n - 1]]) THEN 0
        ELSE To(mem[t[n - 1]][Tuple[v][n - 1]])
  IN t
TableOn(v) == TablesIn(memory, v)

(* The processor's way: large entries end it one level above the last.      *)
Above(v) ==
  IF TableOn(v)[LEVELS - 1] = 0 THEN Zero ELSE memory[TableOn(v)[LEVELS - 1]][Tuple[v][LEVELS - 1]]
InBlock(v) == Above(v).kind = "large"
LeafWord(v) == IF TableOn(v)[LEVELS] = 0 THEN Zero ELSE memory[TableOn(v)[LEVELS]][Tuple[v][LEVELS]]
Unmapped == -1
Physical(v) ==
  IF InBlock(v) THEN Above(v).to + Tuple[v][LEVELS]
  ELSE IF IsPresent(LeafWord(v)) THEN To(LeafWord(v)) ELSE Unmapped

(* The boot loader mapped low memory to itself, in blocks or page by page,  *)
(* and left the rest of the root, where the stack is, absent.               *)
BootOn(v) == TablesIn(BootTables, v)
Block(v) == v - Tuple[v][LEVELS]
Low(v) ==
  /\ \A n \in 1 .. LEVELS - 1 : BootOn(v)[n] \in DOMAIN BootTables
  /\ Block(v) \in RAM \ {0} /\ v \in RAM
  /\ BootTables[BootOn(v)[LEVELS - 1]][Tuple[v][LEVELS - 1]] = Large(Block(v))
ByPage(v) == BootOn(v)[LEVELS] /= Root /\ \A n \in 1 .. LEVELS : BootOn(v)[n] \in DOMAIN BootTables
Own(v) == BootTables[Root][Tuple[v][1]] = Zero

ASSUME VmmAssumption ==
  /\ RAM \subseteq Nat /\ 0 \in RAM /\ Given \subseteq RAM \ {0} /\ IsFiniteSet(Given) /\ Stale \in RAM \ {0}
  /\ CELLS \in Nat \ {0} /\ LEVELS \in Nat \ {0, 1}
  /\ Tuple \in [VPages -> [1 .. LEVELS -> Indices]] /\ VPages \subseteq Nat /\ 0 \in VPages
  /\ \A u, v \in VPages : Tuple[u] = Tuple[v] => u = v
  /\ DOMAIN BootTables \subseteq Nat \ RAM /\ Root \in DOMAIN BootTables
  /\ \A p \in DOMAIN BootTables : BootTables[p] = [i \in Indices |-> BootTables[p][i]]
  /\ \A p \in DOMAIN BootTables, i \in Indices :
       LET w == BootTables[p][i] IN w = Zero \/ (w.to \in Nat /\ w \in {Entry(w.to), Large(w.to)})
  /\ \A v \in VPages : Low(v) \/ ByPage(v) \/ Own(v)

VmmInit ==
  /\ free = Given /\ known = FALSE
  /\ \E w \in {Zero, Junk} :
       memory = [p \in RAM \cup DOMAIN BootTables |-> IF p \in RAM THEN [i \in Indices |-> w] ELSE BootTables[p]]
  /\ pc = "idle" /\ level = 1 /\ at = Root /\ virt = 0 /\ new = 0 /\ found = FALSE

-----------------------------------------------------------------------------
(* Calls.  The root is looked up when the first page is mapped; until then  *)
(* vmm_get_phys finds nothing.                                              *)
Call(proc, v, p) ==
  /\ pc = "idle" /\ pc' = proc
  /\ virt' = v /\ new' = p /\ at' = Root /\ level' = 1

vmm_map_page(v, p) == Call("map", v, p) /\ known' = TRUE /\ UNCHANGED <<free, memory, found>>
vmm_get_phys(v) ==
  IF known THEN Call("get", v, 0) /\ UNCHANGED <<free, memory, known, found>>
  ELSE found' = FALSE /\ UNCHANGED <<free, memory, known, pc, level, at, virt, new>>

Return == pc' = "idle" /\ at' = Root /\ level' = 1 /\ new' = 0 /\ UNCHANGED virt

Here == memory[at][Tuple[virt][level]]

(* A present entry leads to the table of the next level.                    *)
Descend ==
  /\ pc \in {"map", "get"} /\ level < LEVELS /\ IsPresent(Here)
  /\ at' = To(Here) /\ level' = level + 1
  /\ UNCHANGED <<free, memory, known, pc, virt, new, found>>

(* pmm_alloc_page returns the lowest free page.                             *)
Take(p) == free /= {} /\ p = Min(free) /\ free' = free \ {p}

(* vmm_map_page makes a table that is missing: a page, cleared.             *)
LinkLost(p, contents) ==   \* mutant: the entry of the new table is not written
  /\ memory' = [memory EXCEPT ![p] = contents]
  /\ at' = p /\ level' = level + 1
  /\ UNCHANGED <<known, pc, virt, new, found>>
Link(p, contents) ==
  /\ memory' = [memory EXCEPT ![p] = contents, ![at][Tuple[virt][level]] = Entry(p)]
  /\ at' = p /\ level' = level + 1
  /\ UNCHANGED <<known, pc, virt, new, found>>
Missing == level < LEVELS /\ ~IsPresent(Here)

NewTableUncleared ==   \* mutant: memset is forgotten
  /\ pc = "map" /\ Missing
  /\ \E p \in free : Take(p) /\ Link(p, memory[p])
NewTable ==
  /\ pc = "map" /\ Missing
  /\ \E p \in free : Take(p) /\ Link(p, [i \in Indices |-> Zero])

(* The result of pmm_alloc_page is not tested: without a free page memset   *)
(* gets NULL, which is a page fault, and isr_handler halts.                 *)
NullTable ==
  /\ pc = "map" /\ Missing /\ free = {}
  /\ pc' = "halted" /\ UNCHANGED <<free, memory, known, level, at, virt, new, found>>

SetLeafOfFirst ==   \* mutant: the index of the first level is used
  /\ pc = "map" /\ level = LEVELS
  /\ memory' = [memory EXCEPT ![at][Tuple[virt][1]] = Entry(new)]
  /\ Return /\ UNCHANGED <<free, known, found>>
SetLeaf ==
  /\ pc = "map" /\ level = LEVELS
  /\ memory' = [memory EXCEPT ![at][Tuple[virt][level]] = Entry(new)]
  /\ Return /\ UNCHANGED <<free, known, found>>

(* vmm_get_phys returns 0 at a missing table and for what leads to page 0.  *)
Found ==
  /\ pc = "get" /\ (Missing \/ level = LEVELS)
  /\ found' = (level = LEVELS /\ Leads(Here))
  /\ Return /\ UNCHANGED <<free, memory, known>>

Walk == Descend \/ NewTable \/ NullTable \/ SetLeaf \/ Found
==============================================================================
