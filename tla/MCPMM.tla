------------------------------- MODULE MCPMM ---------------------------------
(* Six pages; the boot region is unaligned in length and runs past the end *)
(* of memory, callers ask for 0 to 3 pages, free NULL, addresses inside a  *)
(* page and addresses past the end.                                        *)
EXTENDS PMM

MCRegions == {<<PAGE_SIZE, PAGE_SIZE + 100>>, <<2 * PAGE_SIZE + 8, 2 * PAGE_SIZE>>,
              <<3 * PAGE_SIZE, 9 * PAGE_SIZE>>, <<0, PAGE_SIZE>>, <<PAGE_SIZE, 100>>}
MCPtrs == {NULL, 7 * PAGE_SIZE, 2 * PAGE_SIZE + 16} \cup {AddrOf(p) : p \in 1 .. 5}
==============================================================================
