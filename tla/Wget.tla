-------------------------------- MODULE Wget ----------------------------------
(***************************************************************************)
(* The downloader NoneCompiled/wget.c: one HTTP/1.0 request, whose answer  *)
(* arrives in chunks cut anywhere, and the search for the end of the       *)
(* header in each chunk.  A character is "c", a zero byte "nul", a line    *)
(* end "nl", and two line ends in a row are the header's end.  The TLS     *)
(* engine behind HTTPS hands over chunks like read, and the two loops are  *)
(* one here.                                                               *)
(*                                                                         *)
(* The results of fwrite and fclose are ignored: what main counts is what  *)
(* it gave to fwrite, and what is in the file may be less.                 *)
(***************************************************************************)
EXTENDS Integers, SequencesExt

CONSTANTS
  Answers,    \* what servers send: records [header, body] of sequences
  BufSize     \* size of buf, 4096 in the code

ASSUME WgetAssumption ==
  /\ BufSize \in Nat \ {0}
  /\ \A a \in Answers : a.header \in Seq({"c", "nl"}) /\ a.body \in Seq({"c", "nl", "nul"})

VARIABLES
  answer,         \* the server's answer
  received,       \* characters read so far
  header_passed,
  given,          \* what was given to fwrite: total_bytes is its length
  out,            \* the output file, or Absent
  lost,           \* ghost: a write failed
  before,         \* ghost: the output file of an earlier run
  misled,         \* ghost: an end of the header was seen that is not the server's
  phase           \* the calls that main has made, or its exit status

wgetvars == <<answer, received, header_passed, given, out, lost, before, misled, phase>>

Absent == <<"absent">>
Stream == answer.header \o answer.body
Exits == {"exit0", "exit2", "exit3", "exit4"}

WgetInit ==
  /\ answer \in Answers
  /\ before \in {Absent, <<"c">>} /\ out = before
  /\ given = <<>> /\ lost = FALSE
  /\ received = 0 /\ header_passed = FALSE /\ misled = FALSE
  /\ phase = "connect"

Keep == UNCHANGED <<answer, before>>

(* host_connect, then fopen for writing, which empties the file. *)
NoConnection ==
  /\ phase = "connect" /\ phase' = "exit2"
  /\ Keep /\ UNCHANGED <<received, header_passed, given, out, lost, misled>>
NoFile ==
  /\ phase = "connect" /\ phase' = "exit3"
  /\ Keep /\ UNCHANGED <<received, header_passed, given, out, lost, misled>>
Open ==
  /\ phase = "connect" /\ phase' = "read" /\ out' = <<>>
  /\ Keep /\ UNCHANGED <<received, header_passed, given, lost, misled>>

(* What strstr finds: the first two line ends with no zero byte before them, *)
(* given by the position of the second one, or 0.                            *)
HeaderEnd(chunk) ==
  LET visible == {i \in 2 .. Len(chunk) : \A j \in 1 .. i : chunk[j] /= "nul"}
      ends == {i \in visible : chunk[i - 1] = "nl" /\ chunk[i] = "nl"}
  IN IF ends = {} THEN 0 ELSE Min(ends)

(* Mutant: the second line end is left to the body. *)
BodyOfTooEarly(chunk) ==
  IF header_passed THEN chunk
  ELSE IF HeaderEnd(chunk) = 0 THEN <<>> ELSE SubSeq(chunk, HeaderEnd(chunk), Len(chunk))

(* Mutant: the header's end is looked for in every chunk. *)
BodyOfEachChunk(chunk) ==
  IF HeaderEnd(chunk) = 0 THEN IF header_passed THEN chunk ELSE <<>>
  ELSE SubSeq(chunk, HeaderEnd(chunk) + 1, Len(chunk))

(* Before the header's end nothing of a chunk is kept, after it everything. *)
BodyOf(chunk) ==
  IF header_passed THEN chunk
  ELSE IF HeaderEnd(chunk) = 0 THEN <<>> ELSE SubSeq(chunk, HeaderEnd(chunk) + 1, Len(chunk))

(* The file is to contain these characters.  When a write fails, on a full   *)
(* disk, the characters that stdio still had are gone, and later ones are    *)
(* written behind the gap.                                                   *)
Store(chars) ==
  \/ out' = chars /\ UNCHANGED lost
  \/ /\ \E k \in 0 .. Len(chars) - 1 : out' = SubSeq(chars, 1, k)
     /\ lost' = TRUE

(* One read of n characters.  buf is neither cleared nor terminated: behind *)
(* a chunk without a zero byte strstr may meet the end of another header.   *)
Read(n) ==
  LET chunk == SubSeq(Stream, received + 1, received + n) IN
  /\ phase = "read" /\ received + n <= Len(Stream)
  /\ given' = given \o BodyOf(chunk) /\ Store(out \o BodyOf(chunk))
  /\ header_passed' \in {header_passed \/ HeaderEnd(chunk) > 0}
                         \cup IF "nul" \in ToSet(chunk) THEN {} ELSE {TRUE}
  /\ misled' = \/ misled
                \/ /\ ~header_passed /\ header_passed'
                   /\ HeaderEnd(chunk) = 0 \/ received + HeaderEnd(chunk) /= Len(answer.header)
  /\ received' = received + n
  /\ Keep /\ UNCHANGED phase

(* Mutant: nothing received is a success. *)
CloseAnyway ==
  /\ phase = "read" /\ phase' = "exit0"
  /\ Store(out)
  /\ Keep /\ UNCHANGED <<received, header_passed, given, misled>>

(* The server closes, the connection breaks, or the read times out: the    *)
(* loop ends in the same way.  fclose writes what stdio still has.  A file  *)
(* that was given nothing is removed, if unlink can.                       *)
Close ==
  /\ phase = "read"
  /\ \/ given = <<>> /\ phase' = "exit4" /\ out' \in {out, Absent} /\ UNCHANGED lost
     \/ given /= <<>> /\ phase' = "exit0" /\ Store(out)
  /\ Keep /\ UNCHANGED <<received, header_passed, given, misled>>

WgetNext == NoConnection \/ NoFile \/ Open \/ Close \/ \E n \in 1 .. BufSize : Read(n)
WgetSpec == WgetInit /\ [][WgetNext]_wgetvars

-----------------------------------------------------------------------------
(* Every variable has its type; no more than the answer is received.       *)
TypeOK ==
  /\ answer \in Answers /\ received \in 0 .. Len(Stream)
  /\ header_passed \in BOOLEAN /\ misled \in BOOLEAN /\ lost \in BOOLEAN
  /\ given \in Seq({"c", "nl", "nul"})
  /\ out \in Seq({"c", "nl", "nul"}) \cup {Absent} /\ before \in Seq({"c", "nl", "nul"}) \cup {Absent}
  /\ phase \in {"connect", "read"} \cup Exits

(* What the exit status tells the caller of the file, which is what        *)
(* install_app goes by (jurkstore.c:338-341): 2 and 3, it is the one       *)
(* before; 4, nothing of the answer is in it or it is gone; 0, something   *)
(* is in it, if no write failed.  0 says neither that the writes went well *)
(* nor that the answer was complete: main knows neither (wget.c:339-351).  *)
ExitStatus ==
  /\ phase = "exit0" => out /= Absent /\ (out = <<>> => lost)
  /\ phase = "exit4" => out \in {Absent, <<>>}
  /\ phase \in {"connect", "exit2", "exit3"} => out = before

(* However the answer is cut into chunks and wherever it stops, the file   *)
(* is a gapless piece of it that ends where reading ended, if no write     *)
(* failed (wget.c:270-332).                                                *)
NothingMissing ==
  phase \in {"read", "exit0"} /\ ~lost =>
    \E k \in 0 .. received : out = SubSeq(Stream, k + 1, received)

(* If the server's own end of the header was recognised and no write       *)
(* failed, nothing of the header is in the file and the body is there from *)
(* its first byte (wget.c:273-288).                                        *)
BodyFromStart ==
  phase \in {"read", "exit0"} /\ header_passed /\ ~misled /\ ~lost
    => out = SubSeq(answer.body, 1, received - Len(answer.header))

==============================================================================
