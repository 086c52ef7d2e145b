--------------------------------- MODULE Text ----------------------------------
(***************************************************************************)
(* What the text commands of main.c print of a file, computed as they      *)
(* compute it.  A file is the sequence of pieces that fgets returns: a line *)
(* of at most 511 characters with its end, or the next 511 characters of a  *)
(* longer one.  A piece is a number, in the order of strcmp.                *)
(***************************************************************************)
EXTENDS Integers, Sequences, SequencesExt

CONSTANT MAXSORT   \* pieces that sort reads: 1024 in the code

ASSUME TextAssumption == MAXSORT \in Nat

(* tail: a ring of the last n pieces, printed from the oldest.  With n = 0   *)
(* the index is a remainder by zero, which kills the process.               *)
Ring(lines, n) ==
  LET ring[k \in 0 .. Len(lines)] ==
        IF k = 0 THEN [i \in 0 .. n - 1 |-> 0] ELSE [ring[k - 1] EXCEPT ![(k - 1) % n] = lines[k]]
  IN  ring[Len(lines)]
Oldest(total, n) == IF total < n THEN 0 ELSE total % n
cmd_tail(lines, n) ==
  LET total == Len(lines)
      shown == IF total < n THEN total ELSE n
  IN  [i \in 1 .. shown |-> Ring(lines, n)[(Oldest(total, n) + i - 1) % n]]

(* uniq: a piece is printed when it differs from the last one printed.       *)
Seen(out, piece) == IF out /= <<>> /\ Last(out) = piece THEN out ELSE Append(out, piece)
cmd_uniq(lines) ==
  LET out[k \in 0 .. Len(lines)] == IF k = 0 THEN <<>> ELSE Seen(out[k - 1], lines[k])
  IN  out[Len(lines)]

(* sort: of the first MAXSORT pieces.  qsort only permutes them into order. *)
Orders(p, lines) ==
  /\ \A j \in 1 .. Len(lines) : \E i \in 1 .. Len(lines) : p[i] = j
  /\ \A i, j \in 1 .. Len(lines) : i < j => lines[p[i]] <= lines[p[j]]
qsort(lines) ==
  LET p == CHOOSE p \in [1 .. Len(lines) -> 1 .. Len(lines)] : Orders(p, lines)
  IN  [i \in 1 .. Len(lines) |-> lines[p[i]]]
ReadBySort(lines) == SubSeq(lines, 1, IF Len(lines) < MAXSORT THEN Len(lines) ELSE MAXSORT)
cmd_sort(lines) == qsort(ReadBySort(lines))

(* What they print.  help speaks of lines of the file (main.c:804-808): it   *)
(* is that when no line is longer than 511 characters and, for sort, when   *)
(* there are at most MAXSORT of them; sort drops the rest without a word.   *)
KeepsLast(out, lines, n) == \E k \in 0 .. Len(lines) : out = SubSeq(lines, k + 1, Len(lines))
                                                    /\ Len(out) = IF Len(lines) < n THEN Len(lines) ELSE n
Fresh(lines, k) == {i \in 1 .. k : i = 1 \/ lines[i] /= lines[i - 1]}
DropsRepeats(out, lines) ==
  /\ Len(out) = Cardinality(Fresh(lines, Len(lines)))
  /\ \A i \in Fresh(lines, Len(lines)) : out[Cardinality(Fresh(lines, i))] = lines[i]
Times(lines, l) == Cardinality({i \in 1 .. Len(lines) : lines[i] = l})
SortsFirst(out, lines) ==
  /\ \A i, j \in 1 .. Len(out) : i < j => out[i] <= out[j]
  /\ \A l \in Nat : Times(out, l) = Times(ReadBySort(lines), l)
================================================================================
