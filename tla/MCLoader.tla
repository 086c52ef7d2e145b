------------------------------- MODULE MCLoader -------------------------------
(* Three levels of tables of four entries.  Low memory has sixteen pages: the *)
(* first four mapped one by one but for page 0, the others in three blocks.   *)
(* Programs lie in the last two blocks, of which the allocator has one page:  *)
(* memory runs out at each place where the code asks for a page, and the page *)
(* where a program lies is handed out.                                        *)
EXTENDS Loader

MCRam == 0 .. 15
MCGiven == 1 .. 6 \cup {9}
MCTuple == [v \in 0 .. 18 |-> <<v \div 16, (v \div 4) % 4, v % 4>>]
MCBoot == [p \in {20, 21, 22} |-> [i \in 0 .. 3 |->
  CASE p = 20 -> IF i = 0 THEN Entry(21) ELSE Zero
    [] p = 21 -> IF i = 0 THEN Entry(22) ELSE Large(4 * i)
    [] p = 22 -> IF i = 0 THEN Zero ELSE Entry(i)]]

Seg(v, m, f, o) == [vaddr |-> v, memsz |-> m, filesz |-> f, offset |-> o]
Elf(n, o, s) == [size |-> n, odd |-> o, far |-> {0, 3}, segs |-> s]
MCFiles == {
  \* segments that share a page
  Elf(9, {0, 2, 3}, <<Seg(48, 5, 5, 0), Seg(53, 2, 2, 5), Seg(57, 5, 2, 7)>>),
  \* in the block before, whose second page the allocator has
  Elf(6, {0, 3}, <<Seg(33, 3, 3, 2), Seg(36, 3, 1, 5)>>),
  \* a file that is cut off, over two blocks
  Elf(3, {0}, <<Seg(44, 20, 3, 2)>>),
  \* a file that ends in its header, and one that loads nothing
  Elf(1, {}, <<>>), Elf(2, {}, <<>>) }
==============================================================================
