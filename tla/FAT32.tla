-------------------------------- MODULE FAT32 ---------------------------------
(***************************************************************************)
(* The FAT32 reader fs/fat32.c on the disk image that the boot loader has  *)
(* put into memory: fat32_init, and read, readdir and finddir, which walk  *)
(* the chain of clusters of a file or of a directory, one cluster or one   *)
(* directory entry per step.  The sector arithmetic is that of the format  *)
(* and left out: a cluster is a sequence of bytes or of entries.           *)
(***************************************************************************)
EXTENDS Integers, SequencesExt

CONSTANTS
  Images,        \* records [size, partition, boot, fat, bytes, entries], see the assumption
  NULL,
  EOC,           \* 0x0FFFFFF8: from here on a number ends the chain
  cluster_size,  \* in bytes
  WORD,          \* 2^32: sizes are taken modulo WORD
  Sizes,         \* what callers read at a time
  Indices,       \* what callers pass to readdir
  Wanted         \* names that callers look for

VARIABLES
  image,
  phase, call,                     \* where the reader is, and the running call
  cluster, skip_clusters, cluster_offset, buffer, entry, current_match,   \* locals of the loops
  answer                        \* what the last call returned

loop == <<cluster, skip_clusters, cluster_offset, buffer, entry, current_match>>
fatvars == <<image, phase, call, loop, answer>>

-----------------------------------------------------------------------------
(* Directory entries.  A raw name is a base and an extension, both padded   *)
(* with blanks; its first character may be END (0x00) or DELETED (0xE5).    *)

END == "0x00"
DELETED == "0xE5"
Blank == " "

Lower(f) == [k \in DOMAIN f |-> CASE f[k] = "A" -> "a" [] f[k] = "B" -> "b" [] OTHER -> f[k]]
Word(f) ==
  LET k == SelectInSeq(f, LAMBDA c : c = Blank) IN IF k = 0 THEN f ELSE SubSeq(f, 1, k - 1)
fat32_format_name(e) ==
  Lower(Word(e.base)) \o IF Head(e.ext) = Blank THEN <<>> ELSE <<".">> \o Lower(Word(e.ext))

Skipped(e) == Head(e.base) = DELETED \/ e.attr \in {"lfn", "label"}
Listed(e) == ~Skipped(e) /\ Head(e.base) # "."

Bpb(m) == m.boot[m.partition]
Refused(m) ==
  \/ m.size < 512
  \/ Bpb(m).bytes_per_sector = 0 \/ Bpb(m).sectors_per_cluster = 0
  \/ ~Bpb(m).fat_type /\ Bpb(m).root_cluster = 0

(* The clusters that a chain goes through from c on, whatever they are.     *)
Links(fat, c) ==
  LET at[k \in Nat] == IF k = 0 THEN c ELSE IF at[k - 1] < EOC THEN fat[at[k - 1]] ELSE EOC IN at

(* The clusters with bytes are those of files, the ones with entries those *)
(* of directories, each has its own chains, and those of directories end.   *)
(* A name does not begin with a blank.  No read reaches beyond 2^32.        *)
Ends == {0, 1, EOC}
ASSUME FATAssumption ==
  /\ EOC \in Nat \ {0, 1} /\ cluster_size \in Nat \ {0} /\ WORD \in Nat \ {0}
  /\ Sizes \subseteq Nat \ {0} /\ Indices \subseteq Nat
  /\ \A m \in Images :
       /\ m.size \in Nat /\ m.partition \in DOMAIN m.boot
       /\ DOMAIN m.bytes \cup DOMAIN m.entries \subseteq 2 .. EOC - 1
       /\ DOMAIN m.fat = {0, 1} \cup DOMAIN m.bytes \cup DOMAIN m.entries
       /\ m.fat[0] = EOC /\ m.fat[1] = EOC
       /\ ~Refused(m) => Bpb(m).root_cluster \in DOMAIN m.entries \cup Ends
       /\ \A c \in DOMAIN m.bytes :
            /\ m.fat[c] \in DOMAIN m.bytes \cup Ends
            /\ m.bytes[c] \in Seq(ToSet(m.bytes[c])) /\ Len(m.bytes[c]) = cluster_size
       /\ \A c \in DOMAIN m.entries :
            /\ m.fat[c] \in DOMAIN m.entries \cup Ends
            /\ \E k \in 0 .. EOC : Links(m.fat, c)[k] \in Ends
            /\ m.entries[c] \in Seq(ToSet(m.entries[c]))
            /\ \A e \in ToSet(m.entries[c]) : Head(e.base) # END /\ ~Skipped(e) =>
                 /\ e.base \in Seq(ToSet(e.base)) \ {<<>>} /\ Head(e.base) # Blank
                 /\ e.ext \in Seq(ToSet(e.ext))
                 /\ e.cluster \in Ends \cup (IF e.attr = "dir" THEN DOMAIN m.entries ELSE DOMAIN m.bytes)
                 /\ e.size \in Nat /\ \A size \in Sizes : e.size + size < WORD

fat32_create_node(e) == [first_cluster |-> e.cluster, size |-> e.size, dir |-> e.attr = "dir"]
RootNode == [first_cluster |-> Bpb(image).root_cluster, size |-> 0, dir |-> TRUE]

(* The nodes that callers may hold: the root and what finddir returns. *)
Nodes ==
  {RootNode} \cup
  {fat32_create_node(e) : e \in {f \in UNION {ToSet(image.entries[c]) : c \in DOMAIN image.entries} :
                                   Head(f.base) # END /\ ~Skipped(f)}}

fat32_get_next_cluster(c) == image.fat[c]
(* fat32_get_cluster_ptr(c) is not NULL. *)
HasData(c) == c >= 2

FatInit ==
  /\ image \in Images
  /\ phase = "off" /\ call = NULL /\ answer = NULL
  /\ cluster = 0 /\ skip_clusters = 0 /\ cluster_offset = 0 /\ buffer = <<>>
  /\ entry = 0 /\ current_match = 0

fat32_init ==
  /\ phase = "off"
  /\ phase' = IF Refused(image) THEN "refused" ELSE "idle"
  /\ UNCHANGED <<image, call, loop, answer>>

Return(r) == phase' = "idle" /\ answer' = r /\ UNCHANGED <<image, call>>

-----------------------------------------------------------------------------
(* fat32_read_impl *)

Lesser(a, b) == IF a < b THEN a ELSE b
Clipped(n, offset, size) == IF (offset + size) % WORD > n.size THEN n.size - offset ELSE size

ReadCall(n, offset, size) ==
  /\ phase = "idle" /\ ~n.dir /\ offset < n.size
  /\ call' = [op |-> "read", node |-> n, offset |-> offset,
              size |-> Clipped(n, offset, size), asked |-> size]
  /\ cluster' = n.first_cluster
  /\ skip_clusters' = offset \div cluster_size
  /\ cluster_offset' = offset % cluster_size
  /\ buffer' = <<>> /\ entry' = 0 /\ current_match' = 0
  /\ phase' = "read"
  /\ UNCHANGED <<image, answer>>

ReadPastEnd(n, offset, size) ==
  /\ phase = "idle" /\ ~n.dir /\ offset >= n.size
  /\ call' = [op |-> "read", node |-> n, offset |-> offset, size |-> 0, asked |-> size]
  /\ answer' = <<>>
  /\ UNCHANGED <<image, phase, loop>>

Skip ==
  /\ phase = "read" /\ skip_clusters > 0 /\ cluster < EOC
  /\ cluster' = fat32_get_next_cluster(cluster)
  /\ skip_clusters' = skip_clusters - 1
  /\ UNCHANGED <<image, phase, call, cluster_offset, buffer, entry, current_match, answer>>

Reading == phase = "read" /\ (skip_clusters = 0 \/ cluster >= EOC)
Wants == Len(buffer) < call.size /\ cluster < EOC
ToCopy == Lesser(cluster_size - cluster_offset, call.size - Len(buffer))
(* Mutant: the offset is kept for the clusters that follow. *)
OffsetKept == cluster_offset
NextOffset == 0

CopyCluster ==
  /\ Reading /\ Wants /\ HasData(cluster)
  /\ buffer' = buffer \o SubSeq(image.bytes[cluster], cluster_offset + 1, cluster_offset + ToCopy)
  /\ cluster_offset' = NextOffset
  /\ cluster' = fat32_get_next_cluster(cluster)
  /\ UNCHANGED <<image, phase, call, skip_clusters, entry, current_match, answer>>

ReadDone ==
  /\ Reading /\ ~(Wants /\ HasData(cluster))
  /\ Return(buffer) /\ UNCHANGED loop

-----------------------------------------------------------------------------
(* fat32_readdir_impl and fat32_finddir_impl *)

Walk(op, n, arg) ==
  /\ phase = "idle" /\ n.dir
  /\ call' = [op |-> op, node |-> n, arg |-> arg]
  /\ cluster' = n.first_cluster /\ entry' = 0 /\ current_match' = 0
  /\ phase' = "walk"
  /\ UNCHANGED <<image, skip_clusters, cluster_offset, buffer, answer>>

InCluster == phase = "walk" /\ cluster < EOC /\ HasData(cluster)
AtEntry == InCluster /\ entry < Len(image.entries[cluster])
Here == image.entries[cluster][entry + 1]

Hit ==
  IF call.op = "readdir" THEN Listed(Here) /\ current_match = call.arg
  ELSE ~Skipped(Here) /\ fat32_format_name(Here) = call.arg

Found ==
  /\ AtEntry /\ Head(Here.base) # END /\ Hit
  /\ Return(IF call.op = "readdir"
            THEN [name |-> fat32_format_name(Here), inode |-> Here.cluster, dir |-> Here.attr = "dir"]
            ELSE fat32_create_node(Here))
  /\ UNCHANGED loop

(* Mutant: what is not listed is counted. *)
CountsAll(e) == 1
Counted(e) == IF Listed(e) THEN 1 ELSE 0

NextEntry ==
  /\ AtEntry /\ Head(Here.base) # END /\ ~Hit
  /\ entry' = entry + 1
  /\ current_match' = current_match + (IF call.op = "readdir" THEN Counted(Here) ELSE 0)
  /\ UNCHANGED <<image, phase, call, cluster, skip_clusters, cluster_offset, buffer, answer>>

NextCluster ==
  /\ InCluster /\ ~AtEntry
  /\ cluster' = fat32_get_next_cluster(cluster) /\ entry' = 0
  /\ UNCHANGED <<image, phase, call, skip_clusters, cluster_offset, buffer, current_match, answer>>

WalkDone ==
  /\ phase = "walk"
  /\ ~InCluster \/ (AtEntry /\ Head(Here.base) = END)
  /\ Return(NULL) /\ UNCHANGED loop

Step == Skip \/ CopyCluster \/ ReadDone \/ Found \/ NextEntry \/ NextCluster \/ WalkDone
Call ==
  \E n \in Nodes :
    \/ \E offset \in 0 .. n.size, size \in Sizes : ReadCall(n, offset, size) \/ ReadPastEnd(n, offset, size)
    \/ \E index \in Indices : Walk("readdir", n, index)
    \/ \E name \in Wanted : Walk("finddir", n, name)
FatNext == fat32_init \/ Call \/ Step

FatSpec == FatInit /\ [][FatNext]_fatvars

-----------------------------------------------------------------------------
(* What an image means, without walking it: the k-th cluster of a node, and *)
(* whether there is one.                                                    *)
ClusterOf(n, k) == Links(image.fat, n.first_cluster)[k]
InChain(n, k) == \A j \in 0 .. k : ClusterOf(n, j) < EOC /\ HasData(ClusterOf(n, j))

(* A read returns the bytes of the file from the offset on, as many as     *)
(* were asked for or the file and its chain have, wherever it starts and   *)
(* ends relative to the clusters (fat32.c:68-107).                         *)
ByteOf(n, p) == image.bytes[ClusterOf(n, p \div cluster_size)][(p % cluster_size) + 1]
HasByte(n, p) == p < n.size /\ InChain(n, p \div cluster_size)
ReadsFile ==
  phase = "idle" /\ call # NULL /\ call.op = "read" =>
    LET from == call.offset - 1 IN
    answer = [j \in {j \in 1 .. call.asked : HasByte(call.node, from + j)} |-> ByteOf(call.node, from + j)]

(* The places of a directory that are listed, in their order.               *)
EntryOf(n, x) == image.entries[ClusterOf(n, x[1])][x[2]]
Before(x, y) == x[1] < y[1] \/ (x[1] = y[1] /\ x[2] < y[2])
Places(n) ==
  UNION {{k} \X DOMAIN image.entries[ClusterOf(n, k)] : k \in {k \in 0 .. EOC - 1 : InChain(n, k)}}
Ended(n, x) == \E y \in Places(n) : Head(EntryOf(n, y).base) = END /\ ~Before(x, y)
ListingOf(n) == {x \in Places(n) : Listed(EntryOf(n, x)) /\ ~Ended(n, x)}
NumberOf(n, x) == Cardinality({y \in ListingOf(n) : Before(y, x)})

(* readdir numbers the files and directories from 0 without a gap, across  *)
(* clusters, deleted entries, labels and long names, and finddir finds     *)
(* the first of each name that readdir gives, and nothing by another name  *)
(* but the dots (fat32.c:111-184).                                         *)
WalksDirectory ==
  phase = "idle" /\ call # NULL /\ call.op # "read" =>
    LET listing == ListingOf(call.node)
        asked == {x \in listing : IF call.op = "readdir" THEN NumberOf(call.node, x) = call.arg
                                  ELSE fat32_format_name(EntryOf(call.node, x)) = call.arg}
        Answer(e) == IF call.op = "readdir"
                     THEN [name |-> fat32_format_name(e), inode |-> e.cluster, dir |-> e.attr = "dir"]
                     ELSE fat32_create_node(e)
    IN
    /\ asked # {} => \E x \in asked : answer = Answer(EntryOf(call.node, x)) /\ \A y \in asked : ~Before(y, x)
    /\ asked = {} => answer = NULL \/ (call.op = "finddir" /\ Head(call.arg) = ".")
==============================================================================
