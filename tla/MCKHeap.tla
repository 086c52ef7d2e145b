------------------------------- MODULE MCKHeap -------------------------------
(* The 64-bit header and an arena of 160 bytes: three blocks of 16 bytes,   *)
(* or empty ones up to its end.  Requests of 1 and 17 bytes are rounded up  *)
(* to 16 and 32, 512 can never be satisfied, and 1020 wraps to 0.           *)
EXTENDS KHeap
==============================================================================
