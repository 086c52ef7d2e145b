------------------------------- MODULE MCFAT32 --------------------------------
(* Clusters of two bytes or two entries.  The root of Big takes three      *)
(* clusters, with no end mark, deleted, long and label entries at every    *)
(* place; AB.A spans three clusters, B has a chain too short for its size. *)
EXTENDS FAT32

Dirent(base, ext, attr, c, size) == [base |-> base, ext |-> ext, attr |-> attr, cluster |-> c, size |-> size]
Gone == Dirent(<<DELETED, "B">>, <<Blank>>, "file", 6, 2)
Long == Dirent(<<"A", "a">>, <<"a">>, "lfn", 0, 0)
Label == Dirent(<<"B", "A">>, <<Blank>>, "label", 0, 0)
Over == Dirent(<<END, Blank>>, <<Blank>>, "file", 0, 0)
Header(n) == [bytes_per_sector |-> n, sectors_per_cluster |-> 1, fat_type |-> TRUE, root_cluster |-> 2]
E == 12

Big ==
  [size |-> 600, partition |-> 0, boot |-> [b \in {0} |-> Header(2)],
   fat |-> [c \in 0 .. 10 |-> CASE c = 2 -> 4 [] c = 4 -> 3 [] c = 6 -> 8 [] c = 8 -> 7 [] OTHER -> E],
   entries |-> [c \in 2 .. 5 |->
     CASE c = 2 -> <<Label, Dirent(<<"A", "B">>, <<"A">>, "file", 6, 5)>>
       [] c = 4 -> <<Gone, Long>>
       [] c = 3 -> <<Dirent(<<"B", Blank>>, <<Blank>>, "file", 9, 3), Dirent(<<"A", Blank>>, <<Blank>>, "dir", 5, 0)>>
       [] c = 5 -> <<Dirent(<<".", ".">>, <<Blank>>, "dir", 0, 0), Dirent(<<"B", "B">>, <<Blank>>, "file", 10, 2)>>],
   bytes |-> [c \in 6 .. 10 |-> <<2 * c, 2 * c + 1>>]]
(* A root of one entry and an end mark before a stale entry; an empty file. *)
Small ==
  [size |-> 600, partition |-> 1, boot |-> [b \in {0, 1} |-> IF b = 1 THEN Header(2) ELSE Header(0)],
   fat |-> [c \in 0 .. 3 |-> IF c = 2 THEN 3 ELSE E],
   entries |-> [c \in 2 .. 3 |->
     IF c = 2 THEN <<Gone, Dirent(<<"A", "A">>, <<"B">>, "file", 0, 0)>>
     ELSE <<Over, Dirent(<<"B", "B">>, <<"B">>, "file", 0, 2)>>],
   bytes |-> <<>>]
NotFAT == [Small EXCEPT !.partition = 0]

TheImages == {Big, Small, NotFAT}
TheSizes == {1, 2, 3, 4, 6}
TheNames == {<<"a", "b", ".", "a">>, <<"b">>, <<"a">>, <<"b", "b">>, <<".", ".">>,
             <<"b", "a">>, <<"a", "a", ".", "b">>, <<"b", "b", ".", "b">>}
==============================================================================
