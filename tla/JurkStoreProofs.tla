--------------------------- MODULE JurkStoreProofs ---------------------------
(* What the package manager's screen, its messages and the disk have to do   *)
(* with each other, for any repository, any packages and any number of       *)
(* operations, downloads and interruptions.                                  *)
EXTENDS JurkStore, FiniteSetTheorems, SequenceTheorems, TLAPS

Working == Calls \ {"sync"}
TypeOK ==
  /\ disk \in [Apps -> Packages] /\ apps \in Seq(Entries)
  /\ selected_index \in Int /\ app \in Int
  /\ pc \in {"off", "scan", "menu", "detail"} \cup Calls \cup Pauses
  /\ line \in Nat \ {0} /\ todo \in SUBSET Apps /\ failed \in BOOLEAN /\ ops \in Nat

\* The indices are in the catalogue, or -1 when it is empty.
Indexed(i) == i < app_count /\ (i >= 0 \/ apps = <<>>)
IndexOK ==
  /\ pc \in {"menu", "detail"} => Indexed(selected_index)
  /\ pc = "detail" => Indexed(app)
  /\ pc \in Working => app \in 0 .. app_count - 1

\* Metadata has a directory around it; a copy in /bin is the trace of a failed ln.
DiskOK ==
  \A n \in Apps : /\ disk[n].meta /= "none" => disk[n].dir
                  /\ ~failed => disk[n].link /= "copy"

\* How far the running call has come.
Program(p) == p.bin /= "none" /\ p.x
InstallOK ==
  /\ pc \in {"verify", "copy", "meta"} => Package.dir
  /\ pc = "copy" => Package.bk /= "none"
  /\ ~failed /\ pc \in {"meta", "ln", "installed"} => Program(Package)
  /\ ~failed /\ pc = "installed" => Package.link /= "none"
  /\ ~failed /\ pc = "rmlink" => Package = [Clean EXCEPT !.link = Package.link]
  /\ ~failed /\ pc = "removed" => Package = Clean

\* The flags are exact but for the entry that is worked on.
Alone(i) == \A j \in 1 .. app_count : j = i \/ apps[j].name /= apps[i].name
FlagOf(i) == apps[i].installed = is_app_installed(disk, apps[i].name)
FlagsOK ==
  ~failed /\ pc \notin {"off", "scan", "sync"} =>
    \A i \in 1 .. app_count : Alone(i) /\ (pc \in Working => i /= app + 1) => FlagOf(i)

\* The scan has listed the directories that it has read, each under its name.
Room == app_count + Cardinality(todo) <= Cardinality(Listed)
ScanOK ==
  pc = "scan" =>
    /\ IsFiniteSet(todo) /\ todo \subseteq Listed /\ Room
    /\ \A i \in 1 .. app_count : apps[i].id = apps[i].name /\ apps[i].name \notin todo
    /\ Cardinality(Listed) <= MAX_APPS =>
         \A n \in Listed \ todo : \E i \in 1 .. app_count : apps[i].name = n

IInv == TypeOK /\ IndexOK /\ DiskOK /\ InstallOK /\ FlagsOK /\ ScanOK

-----------------------------------------------------------------------------
(* The catalogue. *)

LEMMA InstalledIsBoolean == \A d, n : is_app_installed(d, n) \in BOOLEAN
BY DEF is_app_installed

\* An entry that is added or replaces another one, and one whose flag is set.
LEMMA AddType ==
  ASSUME NEW es \in Seq(Entries), NEW id \in Apps, NEW name \in Apps, NEW url \in Urls
  PROVE  add_or_update_app(es, id, name, url) \in Seq(Entries)
<1> DEFINE new == [id |-> id, name |-> name, url |-> url, installed |-> is_app_installed(disk, name)]
           i == SelectInSeq(es, LAMBDA e : SameApp(e, id, name))
<1>1. new \in Entries
  BY InstalledIsBoolean DEF Entries
<1> HIDE DEF new, i
<1>2. [es EXCEPT ![i] = new] \in Seq(Entries) /\ Append(es, new) \in Seq(Entries)
  <2>1. CASE i \in 1 .. Len(es)
    BY <1>1, <2>1, ExceptSeq, AppendProperties
  <2>2. CASE i \notin 1 .. Len(es)
    <3>1. [es EXCEPT ![i] = new] = es
      BY <2>2, LenProperties
    <3> QED BY <1>1, <3>1, AppendProperties
  <2> QED BY <2>1, <2>2
<1> QED BY <1>2 DEF add_or_update_app, new, i

LEMMA FlagType ==
  ASSUME NEW es \in Seq(Entries), NEW i \in 1 .. Len(es), NEW flag \in BOOLEAN
  PROVE  LET fs == [es EXCEPT ![i].installed = flag] IN
         /\ fs \in Seq(Entries) /\ Len(fs) = Len(es)
         /\ fs[i].installed = flag
         /\ \A j \in 1 .. Len(es) : /\ fs[j].name = es[j].name /\ fs[j].id = es[j].id
                                    /\ j /= i => fs[j] = es[j]
<1> DEFINE new == [es[i] EXCEPT !.installed = flag]
<1>1. es[i] \in Entries
  OBVIOUS
<1>2. /\ new \in Entries /\ new.installed = flag
      /\ new.name = es[i].name /\ new.id = es[i].id
  BY <1>1 DEF Entries
<1> HIDE DEF new
<1> DEFINE fs == [es EXCEPT ![i] = new]
<1>3. /\ fs \in Seq(Entries) /\ Len(fs) = Len(es)
      /\ fs[i] = new /\ \A j \in 1 .. Len(es) : j /= i => fs[j] = es[j]
  BY <1>2
<1>4. fs = [es EXCEPT ![i].installed = flag]
  BY DEF new
<1> QED BY <1>2, <1>3, <1>4

\* The entry of a call, its name and its package.
LEMMA EntryType ==
  ASSUME TypeOK, app \in 0 .. app_count - 1
  PROVE  /\ app + 1 \in 1 .. Len(apps) /\ Entry \in Entries /\ Name \in Apps /\ Entry.id \in Apps
         /\ Entry.url \in Urls /\ Package \in Packages
<1>1. app + 1 \in 1 .. Len(apps) /\ apps \in Seq(Entries) /\ disk \in [Apps -> Packages]
  BY DEF TypeOK, app_count
<1>2. Entry \in Entries
  BY <1>1, ElementOfSeq DEF Entry
<1> QED BY <1>1, <1>2 DEF Name, Package, Entries

LEMMA RefreshedFacts ==
  ASSUME TypeOK
  PROVE  /\ Refreshed \in Seq(Entries) /\ Len(Refreshed) = app_count
         /\ \A i \in 1 .. app_count : /\ Refreshed[i].name = apps[i].name
                                      /\ Refreshed[i].installed = is_app_installed(disk, apps[i].name)
<1>1. app_count \in Nat /\ \A i \in 1 .. app_count : apps[i] \in Entries
  BY DEF TypeOK, app_count
<1>2. ASSUME NEW i \in 1 .. app_count
      PROVE  LET e == [apps[i] EXCEPT !.installed = is_app_installed(disk, apps[i].name)] IN
             e \in Entries /\ e.name = apps[i].name /\ e.installed = is_app_installed(disk, apps[i].name)
  BY <1>1, InstalledIsBoolean DEF Entries
<1> HIDE DEF app_count
<1>3. Refreshed \in [1 .. app_count -> Entries]
  BY <1>2 DEF Refreshed
<1>4. Refreshed \in Seq(Entries) /\ Len(Refreshed) = app_count
  BY <1>1, <1>3
<1> QED BY <1>2, <1>4 DEF Refreshed

-----------------------------------------------------------------------------
(* The packages. *)

Sound(p) == p \in Packages /\ (p.meta /= "none" => p.dir)

\* What the commands make of a package, when they succeed and when they do not.
LEMMA PackageFacts ==
  ASSUME NEW q, Sound(q)
  PROVE  /\ \A c \in Contents : /\ Sound(WithBin(q, c)) /\ Sound([q EXCEPT !.bk = c])
                               /\ WithBin(q, c).link = q.link
         /\ Sound(LocalBk(q)) /\ LocalBk(q).link = q.link /\ LocalBk(q).bk = "elf" /\ LocalBk(q).dir = q.dir
         /\ Sound(Whole(q)) /\ Whole(q).link = q.link /\ Whole(q).bin = q.bk /\ Whole(q).x /\ Whole(q).dir = q.dir
         /\ Sound(Removed(q)) /\ Removed(q) = [Clean EXCEPT !.link = Removed(q).link]
         /\ Removed(q).link = q.link /\ Removed(q).bin = "none"
BY DEF Sound, Packages, Contents, Metas, Urls, WithBin, LocalBk, Whole, Removed, Clean

LEMMA CutFacts ==
  ASSUME NEW q, Sound(q)
  PROVE  /\ Cut("elf") \subseteq Contents /\ Cut(q.bk) \subseteq Contents
         /\ \A p \in CopyCut(q) : Sound(p) /\ p.link = q.link
<1>1. q.bk \in Contents
  BY DEF Sound, Packages
<1>2. Cut("elf") \subseteq Contents /\ Cut(q.bk) \subseteq Contents
  BY <1>1 DEF Cut, Contents
<1>3. ASSUME NEW p \in CopyCut(q) PROVE Sound(p) /\ p.link = q.link
  <2>1. PICK c \in Contents : p = WithBin(q, c)
    BY <1>1, <1>2 DEF CopyCut
  <2> QED BY <2>1, PackageFacts
<1> QED BY <1>2, <1>3

LEMMA EndedFacts ==
  ASSUME NEW q, Sound(q), NEW c, c = "meta" => q.dir, NEW p \in Ended(c, q)
  PROVE  Sound(p) /\ (q.link /= "copy" => p.link /= "copy")
<1>1. CASE p = q
  BY <1>1
<1>2. CASE p /= q /\ c = "mkdir"
  <2>1. p = [q EXCEPT !.dir = TRUE]
    BY <1>2 DEF Ended
  <2> QED BY <2>1 DEF Sound, Packages
<1>3. CASE p /= q /\ c = "local"
  <2>1. q.dir /\ p \in {[q EXCEPT !.bk = d] : d \in Cut("elf")} \cup {LocalBk(q)} \cup CopyCut(LocalBk(q))
    BY <1>3 DEF Ended
  <2>2. CASE p \in {[q EXCEPT !.bk = d] : d \in Cut("elf")}
    <3>1. PICK d \in Contents : p = [q EXCEPT !.bk = d]
      BY <2>2, CutFacts
    <3>2. p.link = q.link
      BY <3>1 DEF Sound, Packages
    <3> QED BY <3>1, <3>2, PackageFacts
  <2>3. CASE p \in {LocalBk(q)} \cup CopyCut(LocalBk(q))
    BY <2>3, PackageFacts, CutFacts
  <2> QED BY <2>1, <2>2, <2>3
<1>4. CASE p /= q /\ c = "wget"
  <2>1. PICK d \in Contents : p = [q EXCEPT !.bk = d]
    BY <1>4 DEF Ended
  <2>2. p.link = q.link
    BY <2>1 DEF Sound, Packages
  <2> QED BY <2>1, <2>2, PackageFacts
<1>5. CASE p /= q /\ c = "copy"
  <2>1. p \in CopyCut(q)
    BY <1>5 DEF Ended
  <2> QED BY <2>1, CutFacts
<1>6. CASE p /= q /\ c \in {"abort", "rmdir"}
  <2>1. PICK left \in SUBSET {"bk", "bin", "meta"} :
          p = [q EXCEPT !.bk = IF "bk" \in left THEN @ ELSE "none",
                        !.bin = IF "bin" \in left THEN @ ELSE "none",
                        !.x = "bin" \in left /\ @,
                        !.meta = IF "meta" \in left THEN @ ELSE "none"]
    BY <1>6 DEF Ended
  <2> QED BY <2>1 DEF Sound, Packages, Contents, Metas
<1>7. CASE p /= q /\ c = "meta"
  <2>1. p = [q EXCEPT !.meta = "empty"] \/ p = [q EXCEPT !.meta = "cut"]
    BY <1>7 DEF Ended
  <2> QED BY <1>7, <2>1 DEF Sound, Packages, Metas
<1>8. CASE p /= q /\ c \in {"ln", "rmlink"}
  <2>1. p = [q EXCEPT !.link = "none"]
    BY <1>8 DEF Ended
  <2> QED BY <2>1 DEF Sound, Packages
<1>9. CASE p /= q /\ c \notin {"mkdir", "local", "wget", "copy", "abort", "rmdir", "meta", "ln", "rmlink"}
  BY <1>9 DEF Ended
<1> QED BY <1>1, <1>2, <1>3, <1>4, <1>5, <1>6, <1>7, <1>8, <1>9

\* The package of the running call.
LEMMA CallFacts ==
  ASSUME IInv, pc \in Working
  PROVE  /\ app + 1 \in 1 .. Len(apps) /\ Name \in Apps /\ Entry \in Entries /\ Sound(Package)
         /\ ~failed => Package.link /= "copy"
<1>1. TypeOK /\ app \in 0 .. app_count - 1
  BY DEF IInv, IndexOK
<1>2. Name \in Apps /\ Package \in Packages
  BY <1>1, EntryType
<1> QED BY <1>1, <1>2, EntryType DEF IInv, DiskOK, Sound, Package

-----------------------------------------------------------------------------
(* The steps. *)

\* What the package of the call is changed to is seen under its name only.
LEMMA Others ==
  ASSUME IInv, pc \in Working, NEW p, Sound(p), disk' = [disk EXCEPT ![Name] = p],
         failed' \in BOOLEAN, failed => failed', ~failed' => p.link /= "copy"
  PROVE  /\ disk' \in [Apps -> Packages] /\ DiskOK' /\ disk'[Name] = p
         /\ \A n : n /= Name => is_app_installed(disk', n) = is_app_installed(disk, n)
<1>1. Name \in Apps /\ disk \in [Apps -> Packages] /\ DiskOK
  BY CallFacts DEF IInv, TypeOK
<1>2. disk' \in [Apps -> Packages] /\ disk'[Name] = p
  BY <1>1 DEF Sound
<1>3. \A n : n /= Name => disk'[n] = disk[n]
  BY <1>1
<1>4. DiskOK'
  BY <1>1, <1>2, <1>3 DEF DiskOK, Sound
<1> QED BY <1>2, <1>3, <1>4 DEF is_app_installed

\* A step within a call.
LEMMA LeavesStep ==
  ASSUME IInv, pc \in Working, NEW where \in Working, NEW p, Sound(p), Leaves(p, where),
         failed' \in BOOLEAN, failed => failed', ~failed' => p.link /= "copy"
  PROVE  TypeOK' /\ IndexOK' /\ DiskOK' /\ FlagsOK' /\ ScanOK' /\ Package' = p /\ pc' = where
<1>1. /\ disk' = [disk EXCEPT ![Name] = p] /\ pc' = where
      /\ UNCHANGED <<apps, selected_index, app, line, todo, ops>>
  BY DEF Leaves, Go
<1>2. /\ disk' \in [Apps -> Packages] /\ DiskOK' /\ disk'[Name] = p
      /\ \A n : n /= Name => is_app_installed(disk', n) = is_app_installed(disk, n)
  BY <1>1, Others
<1>3. TypeOK'
  BY <1>1, <1>2 DEF IInv, TypeOK, Working
<1>4. IndexOK'
  BY <1>1 DEF IInv, IndexOK, Working, Calls, app_count
<1>5. Package' = p
  BY <1>1, <1>2 DEF Package, Name, Entry
<1>6. FlagsOK'
  <2> SUFFICES ASSUME ~failed, NEW i \in 1 .. app_count, Alone(i), i /= app + 1
               PROVE  apps[i].installed = is_app_installed(disk', apps[i].name)
    BY <1>1 DEF FlagsOK, FlagOf, Alone, app_count, Working
  <2>1. app + 1 \in 1 .. app_count
    BY CallFacts DEF app_count
  <2>2. apps[i].name /= Name
    BY <2>1 DEF Alone, Name, Entry
  <2>3. FlagOf(i)
    BY DEF IInv, FlagsOK, Working, Calls
  <2> QED BY <1>2, <2>2, <2>3 DEF FlagOf
<1>7. ScanOK'
  BY <1>1 DEF ScanOK, Working, Calls
<1> QED BY <1>1, <1>2, <1>3, <1>4, <1>5, <1>6, <1>7

\* The end of a call, which sets the flag.
LEMMA EndsStep ==
  ASSUME IInv, pc \in Working, NEW where \in Pauses, NEW p, Sound(p), NEW flag \in BOOLEAN,
         Ends(p, where, flag), failed' \in BOOLEAN, failed => failed',
         ~failed' => p.link /= "copy" /\ (flag <=> Program(p))
  PROVE  TypeOK' /\ IndexOK' /\ DiskOK' /\ FlagsOK' /\ ScanOK' /\ Package' = p /\ pc' = where
<1>1. /\ disk' = [disk EXCEPT ![Name] = p] /\ pc' = where
      /\ apps' = [apps EXCEPT ![app + 1].installed = flag]
      /\ UNCHANGED <<selected_index, app, line, todo, ops>>
  BY DEF Ends
<1>2. /\ disk' \in [Apps -> Packages] /\ DiskOK' /\ disk'[Name] = p
      /\ \A n : n /= Name => is_app_installed(disk', n) = is_app_installed(disk, n)
  BY <1>1, Others
<1>3. app + 1 \in 1 .. Len(apps) /\ apps \in Seq(Entries) /\ Name \in Apps
  BY CallFacts DEF IInv, TypeOK
<1>4. /\ apps' \in Seq(Entries) /\ Len(apps') = Len(apps) /\ apps'[app + 1].installed = flag
      /\ \A j \in 1 .. Len(apps) : /\ apps'[j].name = apps[j].name
                                   /\ j /= app + 1 => apps'[j] = apps[j]
  BY <1>1, <1>3, FlagType
<1>5. TypeOK'
  BY <1>1, <1>2, <1>4 DEF IInv, TypeOK
<1>6. IndexOK'
  BY <1>1 DEF IndexOK, Working, Calls, Pauses
<1>7. Package' = p
  BY <1>1, <1>2, <1>3, <1>4 DEF Package, Name, Entry
<1>8. FlagsOK'
  <2> SUFFICES ASSUME ~failed', NEW i \in 1 .. Len(apps), Alone(i)'
               PROVE  apps'[i].installed = is_app_installed(disk', apps[i].name)
    BY <1>1, <1>4 DEF FlagsOK, FlagOf, app_count, Pauses, Working, Calls
  <2>1. CASE i = app + 1
    <3>1. apps[i].name = Name
      BY <2>1 DEF Name, Entry
    <3> QED BY <1>2, <1>4, <2>1, <3>1 DEF is_app_installed, Program
  <2>2. CASE i /= app + 1
    <3>1. Alone(i)
      BY <1>4 DEF Alone, app_count
    <3>2. apps[i].name /= Name
      BY <1>3, <2>2, <3>1 DEF Alone, Name, Entry, app_count
    <3>3. FlagOf(i)
      BY <2>2, <3>1 DEF IInv, FlagsOK, Working, Calls, app_count
    <3> QED BY <1>2, <1>4, <2>2, <3>2, <3>3 DEF FlagOf
  <2> QED BY <2>1, <2>2
<1>9. ScanOK'
  BY <1>1 DEF ScanOK, Pauses
<1> QED BY <1>1, <1>2, <1>5, <1>6, <1>7, <1>8, <1>9

\* A command that fails by itself, or one that only reads or changes the package.
LEMMA StepFacts ==
  ASSUME IInv, pc \in Working, NEW where \in Working, NEW p, Sound(p), Step(p, where),
         p.link = Package.link \/ p.link /= "copy"
  PROVE  /\ TypeOK' /\ IndexOK' /\ DiskOK' /\ FlagsOK' /\ ScanOK' /\ Package' = p /\ pc' = where
         /\ failed' = failed
<1>1. Leaves(p, where) /\ failed' = failed /\ failed \in BOOLEAN
  BY DEF Step, IInv, TypeOK
<1>2. ~failed' => p.link /= "copy"
  BY <1>1, CallFacts
<1> QED BY <1>1, <1>2, LeavesStep

LEMMA FailsFacts ==
  ASSUME IInv, pc \in Working, NEW where \in Working, NEW kind, NEW c, c = "meta" => Package.dir,
         Fails(kind, c, where)
  PROVE  /\ TypeOK' /\ IndexOK' /\ DiskOK' /\ FlagsOK' /\ ScanOK' /\ pc' = where /\ failed'
         /\ Package' \in Ended(c, Package)
<1>1. PICK p \in Ended(c, Package) : Leaves(p, where)
  BY DEF Fails
<1>2. failed' = TRUE
  BY DEF Fails, Fault
<1>3. Sound(p)
  BY <1>1, CallFacts, EndedFacts
<1>4. TypeOK' /\ IndexOK' /\ DiskOK' /\ FlagsOK' /\ ScanOK' /\ Package' = p /\ pc' = where
  BY <1>1, <1>2, <1>3, LeavesStep
<1> QED BY <1>1, <1>2, <1>4

LEMMA InstallStep ==
  ASSUME IInv, MakeDir \/ CopyLocal \/ Download \/ Verify \/ CopyBinary \/ WriteMeta \/ Link
  PROVE  IInv'
<1> USE DEF IInv, InstallOK, Program
<1>1. CASE MakeDir
  <2>1. pc \in Working /\ "local" \in Working /\ Sound(Package)
    BY <1>1, CallFacts DEF MakeDir, Working, Calls
  <2>2. CASE Fails("mkdir", "mkdir", "local")
    BY <2>1, <2>2, FailsFacts
  <2>3. CASE Step([Package EXCEPT !.dir = TRUE], "local")
    <3>1. Sound([Package EXCEPT !.dir = TRUE]) /\ [Package EXCEPT !.dir = TRUE].link = Package.link
      BY <2>1 DEF Sound, Packages
    <3> QED BY <2>1, <2>3, <3>1, StepFacts
  <2> QED BY <1>1, <2>2, <2>3 DEF MakeDir
<1>2. CASE CopyLocal
  <2>1. pc \in Working /\ {"meta", "wget"} \subseteq Working /\ Sound(Package)
    BY <1>2, CallFacts DEF CopyLocal, Working, Calls
  <2>2. CASE Package.dir /\ Step(Whole(LocalBk(Package)), "meta")
    <3> DEFINE q == Whole(LocalBk(Package))
    <3>1. Sound(q) /\ q.link = Package.link /\ q.bin = "elf" /\ q.x /\ q.dir
      BY <2>1, <2>2, PackageFacts
    <3> HIDE DEF q
    <3>2. Step(q, "meta")
      BY <2>2 DEF q
    <3> QED BY <2>1, <3>1, <3>2, StepFacts
  <2>3. CASE Step(Package, "wget")
    BY <2>1, <2>3, StepFacts
  <2>4. CASE Fails("cp", "local", "wget")
    BY <2>1, <2>4, FailsFacts
  <2> QED BY <1>2, <2>2, <2>3, <2>4 DEF CopyLocal
<1>3. CASE Download
  <2>1. pc \in Working /\ {"verify", "abort"} \subseteq Working /\ Sound(Package)
    BY <1>3, CallFacts DEF Download, Working, Calls
  <2>2. ASSUME NEW c \in Contents, Package.dir, Step([Package EXCEPT !.bk = c], "verify")
        PROVE  IInv'
    <3> DEFINE q == [Package EXCEPT !.bk = c]
    <3>1. Sound(q) /\ q.link = Package.link /\ q.dir
      BY <2>1, <2>2 DEF Sound, Packages
    <3> HIDE DEF q
    <3>2. Step(q, "verify")
      BY <2>2 DEF q
    <3> QED BY <2>1, <3>1, <3>2, StepFacts
  <2>3. ASSUME NEW q \in Ended("wget", Package), Step(q, "abort")
        PROVE  IInv'
    <3>1. Sound(q) /\ (Package.link /= "copy" => q.link /= "copy")
      BY <2>1, EndedFacts
    <3>2. q.link = Package.link \/ q.link /= "copy"
      BY <3>1
    <3> QED BY <2>1, <2>3, <3>1, <3>2, StepFacts
  <2> QED BY <1>3, <2>2, <2>3 DEF Download
<1>4. CASE Verify
  <2>1. pc \in Working /\ {"copy", "abort"} \subseteq Working /\ Sound(Package) /\ Package.dir
    BY <1>4, CallFacts DEF Verify, Working, Calls
  <2>2. CASE IsBinary
    <3>1. Step(Package, "copy") /\ Package.bk /= "none"
      BY <1>4, <2>2 DEF Verify, IsBinary
    <3> QED BY <2>1, <3>1, StepFacts
  <2>3. CASE ~IsBinary
    <3>1. Step(Package, "abort")
      BY <1>4, <2>3 DEF Verify
    <3> QED BY <2>1, <3>1, StepFacts
  <2> QED BY <2>2, <2>3
<1>5. CASE CopyBinary
  <2>1. pc \in Working /\ "meta" \in Working /\ Sound(Package) /\ Package.dir /\ Package.bk /= "none"
    BY <1>5, CallFacts DEF CopyBinary, Working, Calls
  <2>2. CASE Step(Whole(Package), "meta")
    <3> DEFINE q == Whole(Package)
    <3>1. Sound(q) /\ q.link = Package.link /\ q.bin /= "none" /\ q.x /\ q.dir
      BY <2>1, PackageFacts
    <3> HIDE DEF q
    <3>2. Step(q, "meta")
      BY <2>2 DEF q
    <3> QED BY <2>1, <3>1, <3>2, StepFacts
  <2>3. CASE Fails("cp", "copy", "meta")
    <3>1. \A q \in Ended("copy", Package) : q.dir
      <4> TAKE q \in Ended("copy", Package)
      <4>1. q = Package \/ q \in CopyCut(Package)
        BY DEF Ended
      <4>2. CASE q \in CopyCut(Package)
        <5>1. PICK c : q = WithBin(Package, c)
          BY <4>2 DEF CopyCut
        <5> QED BY <2>1, <5>1 DEF WithBin, Sound, Packages
      <4> QED BY <2>1, <4>1, <4>2
    <3> QED BY <2>1, <2>3, <3>1, FailsFacts
  <2> QED BY <1>5, <2>2, <2>3 DEF CopyBinary
<1>6. CASE WriteMeta
  <2>1. /\ pc \in Working /\ "ln" \in Working /\ Sound(Package) /\ Package.dir /\ Entry.url \in Urls
        /\ ~failed => Program(Package)
    BY <1>6, CallFacts DEF WriteMeta, Working, Calls, Entries
  <2>2. CASE Step([Package EXCEPT !.meta = Entry.url], "ln")
    <3> DEFINE q == [Package EXCEPT !.meta = Entry.url]
    <3>1. Sound(q) /\ q.link = Package.link /\ q.bin = Package.bin /\ q.x = Package.x
      BY <2>1 DEF Sound, Packages, Metas
    <3> HIDE DEF q
    <3>2. Step(q, "ln")
      BY <2>2 DEF q
    <3> QED BY <2>1, <3>1, <3>2, StepFacts
  <2>3. CASE Fails("meta", "meta", "ln")
    BY <2>1, <2>3, FailsFacts
  <2> QED BY <1>6, <2>2, <2>3 DEF WriteMeta
<1>7. CASE Link
  <2>1. /\ pc \in Working /\ "installed" \in Pauses /\ Sound(Package) /\ failed \in BOOLEAN
        /\ ~failed => Program(Package)
    BY <1>7, CallFacts DEF Link, Working, Calls, Pauses, TypeOK
  <2>2. CASE Ends([Package EXCEPT !.link = "link"], "installed", TRUE) /\ UNCHANGED failed
    <3> DEFINE q == [Package EXCEPT !.link = "link"]
    <3>1. Sound(q) /\ q.link = "link" /\ q.bin = Package.bin /\ q.x = Package.x
      BY <2>1 DEF Sound, Packages
    <3> HIDE DEF q
    <3>2. Ends(q, "installed", TRUE)
      BY <2>2 DEF q
    <3> QED BY <2>1, <2>2, <3>1, <3>2, EndsStep
  <2>3. ASSUME NEW p \in Ended("ln", Package), NEW b \in BOOLEAN, failed' = TRUE,
               Ends(IF b THEN LinkByCopy(p) ELSE p, "installed", TRUE)
        PROVE  IInv'
    <3> DEFINE q == IF b THEN LinkByCopy(p) ELSE p
    <3>1. Sound(p)
      BY <2>1, EndedFacts
    <3>2. Sound(q)
      BY <3>1 DEF LinkByCopy, Sound, Packages
    <3> HIDE DEF q
    <3>3. Ends(q, "installed", TRUE)
      BY <2>3 DEF q
    <3> QED BY <2>1, <2>3, <3>2, <3>3, EndsStep
  <2> QED BY <1>7, <2>2, <2>3 DEF Link, Fault
<1> QED BY <1>1, <1>2, <1>3, <1>4, <1>5, <1>6, <1>7

LEMMA RemoveStep ==
  ASSUME IInv, Abort \/ RemoveDir \/ RemoveLink
  PROVE  IInv'
<1> USE DEF IInv, InstallOK, Program
<1> DEFINE r == Removed(Package)
<1>1. CASE Abort
  <2>1. pc \in Working /\ "aborted" \in Pauses /\ Sound(Package) /\ failed \in BOOLEAN
        /\ (~failed => Package.link /= "copy")
    BY <1>1, CallFacts DEF Abort, Working, Calls, Pauses, TypeOK
  <2>2. CASE Ends(r, "aborted", FALSE) /\ UNCHANGED failed
    <3>1. Sound(r) /\ r.link = Package.link /\ r.bin = "none"
      BY <2>1, PackageFacts
    <3> HIDE DEF r
    <3> QED BY <2>1, <2>2, <3>1, EndsStep
  <2>3. ASSUME NEW q \in Ended("abort", Package), failed' = TRUE, Ends(q, "aborted", FALSE)
        PROVE  IInv'
    <3>1. Sound(q)
      BY <2>1, EndedFacts
    <3> QED BY <2>1, <2>3, <3>1, EndsStep
  <2> QED BY <1>1, <2>2, <2>3 DEF Abort, Fault
<1>2. CASE RemoveDir
  <2>1. pc \in Working /\ "rmlink" \in Working /\ Sound(Package)
    BY <1>2, CallFacts DEF RemoveDir, Working, Calls
  <2>2. CASE Step(r, "rmlink")
    <3>1. Sound(r) /\ r.link = Package.link /\ r = [Clean EXCEPT !.link = r.link]
      BY <2>1, PackageFacts
    <3> HIDE DEF r
    <3> QED BY <2>1, <2>2, <3>1, StepFacts
  <2>3. CASE Fails("rm", "rmdir", "rmlink")
    BY <2>1, <2>3, FailsFacts
  <2> QED BY <1>2, <2>2, <2>3 DEF RemoveDir
<1>3. CASE RemoveLink
  <2>1. pc \in Working /\ "removed" \in Pauses /\ Sound(Package) /\ failed \in BOOLEAN
        /\ (~failed => Package = [Clean EXCEPT !.link = Package.link])
    BY <1>3, CallFacts DEF RemoveLink, Working, Calls, Pauses, TypeOK
  <2>2. CASE Ends([Package EXCEPT !.link = "none"], "removed", FALSE) /\ UNCHANGED failed
    <3> DEFINE q == [Package EXCEPT !.link = "none"]
    <3>1. Sound(q) /\ q.link = "none" /\ (~failed => q.bin = "none" /\ q = Clean)
      BY <2>1 DEF Sound, Packages, Clean
    <3> HIDE DEF q
    <3>2. Ends(q, "removed", FALSE)
      BY <2>2 DEF q
    <3> QED BY <2>1, <2>2, <3>1, <3>2, EndsStep
  <2>3. CASE failed' = TRUE /\ Ends(Package, "removed", FALSE)
    BY <2>1, <2>3, EndsStep
  <2> QED BY <1>3, <2>2, <2>3 DEF RemoveLink, Fault
<1> QED BY <1>1, <1>2, <1>3

\* The steps that leave catalogue and disk alone, or have no entry to work on.
LEMMA ClampFacts ==
  ASSUME apps \in Seq(Entries), NEW s \in Int
  PROVE  Clamp(s, app_count) \in Int /\ Indexed(Clamp(s, app_count))
<1>1. app_count \in Nat /\ (app_count = 0 => apps = <<>>)
  BY EmptySeq DEF app_count
<1> QED BY <1>1 DEF Clamp, Indexed

LEMMA CallStep ==
  ASSUME IInv, pc \in {"menu", "detail"}, NEW i \in 0 .. app_count - 1, NEW where \in {"mkdir", "rmdir"},
         Call(i, where)
  PROVE  IInv'
<1>1. /\ app' = i /\ pc' = where /\ ops' = ops + 1
      /\ UNCHANGED <<disk, apps, selected_index, line, todo, failed>>
  BY DEF Call, Counted
<1>2. TypeOK'
  BY <1>1 DEF IInv, TypeOK, Calls, app_count
<1>3. IndexOK' /\ DiskOK' /\ InstallOK' /\ ScanOK'
  BY <1>1 DEF IInv, IndexOK, DiskOK, InstallOK, ScanOK, Working, Calls, app_count
<1>4. FlagsOK'
  <2>1. ~failed => \A k \in 1 .. app_count : Alone(k) => FlagOf(k)
    BY DEF IInv, FlagsOK, Working, Calls
  <2> QED BY <1>1, <2>1 DEF FlagsOK, FlagOf, Alone, app_count
<1> QED BY <1>2, <1>3, <1>4 DEF IInv

LEMMA MenuStep ==
  ASSUME IInv,
         \/ Details \/ RightArrow \/ Back \/ Install \/ Uninstall \/ Sync \/ AnyKey \/ Quit
         \/ \E s \in 0 .. MAX_APPS - 1 : Move(s)
  PROVE  IInv'
<1> USE DEF IInv, TypeOK, IndexOK, Indexed, InstallOK, FlagsOK, FlagOf, Alone, ScanOK, DiskOK, app_count,
            Working, Calls, Pauses, Package, Name, Entry
<1>1. CASE Details \/ RightArrow
  BY <1>1 DEF Details, RightArrow
<1>2. CASE Back \/ Quit
  BY <1>2 DEF Back, Quit, Go
<1>3. CASE Install
  <2>1. PICK i \in 0 .. app_count - 1 : Call(i, "mkdir") /\ pc \in {"menu", "detail"}
    BY <1>3 DEF Install
  <2> QED BY <2>1, CallStep
<1>4. CASE Uninstall
  <2>1. PICK i \in 0 .. app_count - 1 : Call(i, "rmdir") /\ pc \in {"menu", "detail"}
    BY <1>4 DEF Uninstall
  <2> QED BY <2>1, CallStep
<1>5. CASE Sync
  BY <1>5 DEF Sync, Counted
<1>6. CASE AnyKey
  <2>1. selected_index' \in Int /\ Indexed(selected_index') /\ pc' = "menu"
        /\ UNCHANGED <<disk, apps, app, line, todo, ops, failed>> /\ pc \in Pauses
    BY <1>6, ClampFacts DEF AnyKey
  <2> QED BY <2>1
<1>7. ASSUME NEW s \in 0 .. MAX_APPS - 1, Move(s) PROVE IInv'
  BY <1>7 DEF Move
<1> QED BY <1>1, <1>2, <1>3, <1>4, <1>5, <1>6, <1>7

LEMMA InstallNothingStep ==
  ASSUME IInv, InstallNothing
  PROVE  IInv'
<1>1. /\ apps = <<>> /\ pc' = "aborted" /\ ops' \in Nat
      /\ disk' = [n \in Apps |-> [Clean EXCEPT !.link = disk[n].link]]
      /\ UNCHANGED <<apps, selected_index, app, line, todo, failed>>
  BY DEF InstallNothing, Counted, IInv, TypeOK, IndexOK, Indexed
<1>2. ASSUME NEW n \in Apps
      PROVE  disk'[n] \in Packages /\ disk'[n].meta = "none" /\ disk'[n].link = disk[n].link
  <2>1. disk[n] \in Packages /\ disk'[n] = [Clean EXCEPT !.link = disk[n].link]
    BY <1>1 DEF IInv, TypeOK
  <2> QED BY <2>1 DEF Clean, Packages, Contents, Metas
<1>3. TypeOK'
  BY <1>1, <1>2 DEF IInv, TypeOK, Pauses
<1>4. DiskOK'
  BY <1>1, <1>2 DEF IInv, DiskOK
<1>5. FlagsOK'
  <2>1. Len(apps') = 0
    BY <1>1
  <2> QED BY <2>1 DEF FlagsOK, app_count
<1> QED BY <1>1, <1>3, <1>4, <1>5 DEF IInv, IndexOK, InstallOK, ScanOK, Working, Calls

-----------------------------------------------------------------------------
(* The scan at the start. *)

LEMMA StartStep ==
  ASSUME IInv, Start
  PROVE  IInv'
<1>1. /\ apps' = <<>> /\ todo' = Listed /\ pc' = "scan" /\ ops' \in Nat
      /\ UNCHANGED <<disk, selected_index, app, line, failed>>
  BY DEF Start, Counted, IInv, TypeOK
<1>2. Listed \in SUBSET Apps /\ IsFiniteSet(Listed) /\ Cardinality(Listed) \in Nat
  BY StoreAssumption, FS_Subset, FS_CardinalityType DEF Listed
<1>3. Listed' = Listed
  BY <1>1 DEF Listed
<1>4. TypeOK'
  BY <1>1, <1>2, EmptySeq DEF IInv, TypeOK
<1>5. ScanOK'
  <2>1. Len(apps') = 0
    BY <1>1
  <2>2. IsFiniteSet(todo') /\ todo' \subseteq Listed' /\ Room'
    BY <1>1, <1>2, <1>3, <2>1 DEF Room, app_count
  <2> QED BY <1>1, <1>3, <2>1, <2>2 DEF ScanOK, app_count
<1> QED BY <1>1, <1>4, <1>5 DEF IInv, IndexOK, DiskOK, InstallOK, FlagsOK, Working, Calls

\* A directory whose name is not listed is put at the end, if there is room.
LEMMA AddNew ==
  ASSUME NEW es \in Seq(Entries), NEW n \in Apps, NEW url \in Urls,
         \A i \in 1 .. Len(es) : es[i].id = es[i].name /\ es[i].name /= n
  PROVE  \/ Len(es) >= MAX_APPS /\ add_or_update_app(es, n, n, url) = es
         \/ \E new \in Entries : /\ new.id = n /\ new.name = n
                                 /\ add_or_update_app(es, n, n, url) = Append(es, new)
<1> DEFINE new == [id |-> n, name |-> n, url |-> url, installed |-> is_app_installed(disk, n)]
           i == SelectInSeq(es, LAMBDA e : SameApp(e, n, n))
<1>1. new \in Entries /\ new.id = n /\ new.name = n
  BY InstalledIsBoolean DEF Entries
<1>2. {k \in 1 .. Len(es) : SameApp(es[k], n, n)} = {}
  BY DEF SameApp
<1>3. i = 0
  BY <1>2 DEF SelectInSeq
<1>4. add_or_update_app(es, n, n, url) = IF Len(es) >= MAX_APPS THEN es ELSE Append(es, new)
  BY <1>3 DEF add_or_update_app
<1> HIDE DEF new
<1> QED BY <1>1, <1>4

LEMMA ScanEntryStep ==
  ASSUME IInv, ScanEntry
  PROVE  IInv'
<1>1. PICK n \in todo : /\ apps' = add_or_update_app(apps, n, n, MetaUrl(n))
                        /\ todo' = todo \ {n}
  BY DEF ScanEntry
<1>2. /\ pc = "scan" /\ UNCHANGED <<disk, selected_index, app, pc, line, ops, failed>>
      /\ Listed' = Listed /\ MetaUrl(n) \in Urls
  BY DEF ScanEntry, Listed, MetaUrl, Urls
<1>3. n \in Apps /\ apps \in Seq(Entries) /\ Len(apps) \in Nat
  BY <1>1 DEF IInv, TypeOK
<1>4. /\ IsFiniteSet(todo) /\ todo \subseteq Listed /\ Room
      /\ \A i \in 1 .. Len(apps) : apps[i].id = apps[i].name /\ apps[i].name \notin todo
      /\ Cardinality(Listed) <= MAX_APPS =>
           \A m \in Listed \ todo : \E i \in 1 .. Len(apps) : apps[i].name = m
  BY <1>2 DEF IInv, ScanOK, app_count
<1>5. /\ IsFiniteSet(todo') /\ Cardinality(todo') = Cardinality(todo) - 1
      /\ Cardinality(todo) \in Nat /\ Cardinality(todo') \in Nat
  BY <1>1, <1>4, FS_RemoveElement, FS_CardinalityType
<1>6. TypeOK'
  <2>1. apps' \in Seq(Entries)
    BY <1>1, <1>2, <1>3, AddType
  <2> QED BY <1>1, <1>2, <2>1 DEF IInv, TypeOK
<1>7. ScanOK'
  <2>1. CASE Len(apps) >= MAX_APPS /\ apps' = apps
    <3>1. ~(Cardinality(Listed) <= MAX_APPS)
      <4>1. PICK k \in Nat : k = Cardinality(Listed)
        BY StoreAssumption, FS_Subset, FS_CardinalityType DEF Listed
      <4>2. PICK t \in Nat : t = Cardinality(todo) /\ t >= 1
        BY <1>5
      <4>3. PICK l \in Nat : l = Len(apps) /\ l >= MAX_APPS
        BY <1>3, <2>1
      <4>4. l + t <= k
        BY <1>4, <4>1, <4>2, <4>3 DEF Room, app_count
      <4>5. MAX_APPS \in Nat
        BY StoreAssumption
      <4>6. ~(k <= MAX_APPS)
        BY <4>2, <4>3, <4>4, <4>5
      <4> QED BY <4>1, <4>6
    <3>2. Room'
      <4>1. Cardinality(Listed) \in Nat
        BY StoreAssumption, FS_Subset, FS_CardinalityType DEF Listed
      <4>2. Len(apps) + Cardinality(todo) <= Cardinality(Listed)
        BY <1>4 DEF Room, app_count
      <4>3. Len(apps) + Cardinality(todo') <= Cardinality(Listed)
        BY <1>3, <1>5, <4>1, <4>2
      <4> QED BY <1>2, <2>1, <4>3 DEF Room, app_count
    <3>3. \A i \in 1 .. Len(apps) : apps[i].name \notin todo'
      BY <1>1, <1>4
    <3> QED BY <1>1, <1>2, <1>4, <1>5, <2>1, <3>1, <3>2, <3>3 DEF ScanOK, app_count
  <2>2. ASSUME NEW new \in Entries, new.id = n, new.name = n, apps' = Append(apps, new)
        PROVE  ScanOK'
    <3>1. /\ Len(apps') = Len(apps) + 1 /\ apps'[Len(apps) + 1] = new
          /\ \A i \in 1 .. Len(apps) : apps'[i] = apps[i]
      BY <1>3, <2>2, AppendProperties
    <3>2. Room'
      <4>1. Cardinality(Listed) \in Nat
        BY StoreAssumption, FS_Subset, FS_CardinalityType DEF Listed
      <4>2. Len(apps) + Cardinality(todo) <= Cardinality(Listed)
        BY <1>4 DEF Room, app_count
      <4>3. Len(apps) + 1 + Cardinality(todo') <= Cardinality(Listed)
        BY <1>3, <1>5, <4>1, <4>2
      <4> QED BY <1>2, <3>1, <4>3 DEF Room, app_count
    <3>3. \A i \in 1 .. Len(apps') : apps'[i].id = apps'[i].name /\ apps'[i].name \notin todo'
      <4> TAKE i \in 1 .. Len(apps')
      <4>1. i \in 1 .. Len(apps) \/ i = Len(apps) + 1
        BY <1>3, <3>1
      <4> QED BY <1>1, <1>4, <2>2, <3>1, <4>1
    <3>4. ASSUME Cardinality(Listed) <= MAX_APPS, NEW m \in Listed \ todo'
          PROVE  \E i \in 1 .. Len(apps') : apps'[i].name = m
      <4>1. CASE m = n
        <5>1. Len(apps) + 1 \in 1 .. Len(apps')
          BY <1>3, <3>1
        <5> QED BY <2>2, <3>1, <4>1, <5>1
      <4>2. CASE m /= n
        <5>1. PICK i \in 1 .. Len(apps) : apps[i].name = m
          BY <1>1, <1>4, <3>4, <4>2
        <5>2. i \in 1 .. Len(apps')
          BY <1>3, <3>1
        <5> QED BY <3>1, <5>1, <5>2
      <4> QED BY <4>1, <4>2
    <3> QED BY <1>1, <1>2, <1>4, <1>5, <3>2, <3>3, <3>4 DEF ScanOK, app_count
  <2> QED BY <1>1, <1>2, <1>3, <1>4, <2>1, <2>2, AddNew
<1> QED BY <1>2, <1>6, <1>7 DEF IInv, IndexOK, DiskOK, InstallOK, FlagsOK, Working, Calls

\* Both refreshes look at the disk again.
LEMMA RefreshStep ==
  ASSUME IInv, ScanEnd \/ SyncEnd
  PROVE  IInv'
<1>1. /\ apps' = Refreshed /\ pc' \in {"menu", "synced"} /\ pc \in {"scan", "sync"}
      /\ UNCHANGED <<disk, app, line, todo, ops, failed>>
      /\ selected_index' = (IF pc = "scan" THEN Clamp(0, app_count) ELSE selected_index)
      /\ pc' = "menu" <=> pc = "scan"
  BY DEF ScanEnd, SyncEnd
<1>2. /\ apps' \in Seq(Entries) /\ Len(apps') = app_count
      /\ \A i \in 1 .. app_count : /\ apps'[i].name = apps[i].name
                                   /\ apps'[i].installed = is_app_installed(disk, apps[i].name)
  BY <1>1, RefreshedFacts DEF IInv
<1>3. /\ selected_index' \in Int
      /\ pc = "scan" => Indexed(selected_index')
  BY <1>1, ClampFacts DEF IInv, TypeOK
<1>4. TypeOK'
  BY <1>1, <1>2, <1>3 DEF IInv, TypeOK, Pauses
<1>5. IndexOK'
  <2>1. apps = <<>> => apps' = <<>>
    BY <1>2, EmptySeq DEF app_count
  <2> QED BY <1>1, <1>2, <1>3, <2>1 DEF IndexOK, Indexed, Working, Calls, app_count
<1>6. FlagsOK'
  BY <1>1, <1>2 DEF FlagsOK, FlagOf, app_count
<1> QED BY <1>1, <1>4, <1>5, <1>6 DEF IInv, DiskOK, InstallOK, ScanOK

LEMMA SyncLineStep ==
  ASSUME IInv, SyncLine
  PROVE  IInv'
<1>1. /\ pc = "sync" /\ line <= Len(Repo) /\ line' = line + 1 /\ apps' \in Fetched(Repo[line])
      /\ UNCHANGED <<disk, selected_index, app, pc, todo, failed, ops>>
  BY DEF SyncLine
<1> DEFINE m == Repo[line]
<1>2. m \in [id : Apps, name : Apps, url : {"bk", "jex"}]
  <2>1. Repo \in Seq([id : Apps, name : Apps, url : {"bk", "jex"}]) /\ line \in 1 .. Len(Repo)
    BY <1>1, StoreAssumption DEF IInv, TypeOK
  <2> QED BY <2>1, ElementOfSeq
<1>3. apps \in Seq(Entries)
  BY DEF IInv, TypeOK
<1>4. \A p \in Parsed(m) : p.id \in Apps /\ p.name \in Apps /\ p.url \in Urls
  BY <1>2 DEF Parsed, Urls
<1>5. apps' = apps \/ \E p \in Parsed(m) : apps' = add_or_update_app(apps, p.id, p.name, p.url)
  BY <1>1 DEF Fetched
<1> HIDE DEF m
<1>6. apps' \in Seq(Entries)
  BY <1>3, <1>4, <1>5, AddType
<1>7. TypeOK'
  BY <1>1, <1>6 DEF IInv, TypeOK
<1> QED BY <1>1, <1>7
        DEF IInv, IndexOK, DiskOK, InstallOK, FlagsOK, ScanOK, Working, Calls, Pauses

LEMMA InterruptStep ==
  ASSUME IInv, Interrupt
  PROVE  IInv'
<1>1. pc' = "off" /\ todo' = {} /\ UNCHANGED <<apps, selected_index, app, line, failed, ops>>
  BY DEF Interrupt
<1>2. disk' \in [Apps -> Packages] /\ DiskOK'
  <2>1. CASE UNCHANGED disk
    BY <1>1, <2>1 DEF IInv, TypeOK, DiskOK
  <2>2. ASSUME pc \in Calls \ {"sync"}, NEW p \in Ended(pc, Package), disk' = [disk EXCEPT ![Name] = p]
        PROVE  disk' \in [Apps -> Packages] /\ DiskOK'
    <3>1. pc \in Working /\ (pc = "meta" => Package.dir) /\ failed \in BOOLEAN
      BY <2>2 DEF Working, IInv, InstallOK, TypeOK
    <3>2. Sound(Package) /\ (~failed => Package.link /= "copy")
      BY <3>1, CallFacts
    <3>3. Sound(p) /\ (~failed => p.link /= "copy")
      BY <2>2, <3>1, <3>2, EndedFacts
    <3> QED BY <1>1, <2>2, <3>1, <3>3, Others
  <2> QED BY <2>1, <2>2 DEF Interrupt
<1>3. TypeOK'
  BY <1>1, <1>2 DEF IInv, TypeOK
<1> QED BY <1>1, <1>2, <1>3
        DEF IInv, IndexOK, InstallOK, FlagsOK, ScanOK, Working, Calls

-----------------------------------------------------------------------------
(* The theorems. *)

LEMMA InitIInv == Init => IInv
<1> SUFFICES ASSUME Init PROVE IInv
  OBVIOUS
<1>1. /\ disk = [n \in Apps |-> Clean] /\ apps = <<>> /\ selected_index = 0 /\ app = 0
      /\ pc = "off" /\ line = 1 /\ todo = {} /\ failed = FALSE /\ ops = 0
  BY DEF Init
<1>2. Clean \in Packages /\ Clean.meta = "none" /\ Clean.link = "none"
  BY DEF Clean, Packages, Contents, Metas
<1> HIDE DEF Clean
<1>3. TypeOK /\ DiskOK
  <2>1. disk \in [Apps -> Packages] /\ apps \in Seq(Entries) /\ DiskOK
    BY <1>1, <1>2, EmptySeq DEF DiskOK
  <2>2. selected_index \in Int /\ app \in Int /\ line \in Nat \ {0} /\ ops \in Nat
    <3>1. selected_index = 0 /\ app = 0 /\ line = 1 /\ ops = 0
      BY <1>1
    <3> QED BY <3>1
  <2>3. todo \in SUBSET Apps /\ failed \in BOOLEAN
    BY <1>1
  <2> QED BY <1>1, <2>1, <2>2, <2>3 DEF TypeOK
<1> QED BY <1>1, <1>3
        DEF IInv, IndexOK, InstallOK, FlagsOK, ScanOK, Working, Calls

LEMMA StepIInv == IInv /\ [Next]_vars => IInv'
<1> SUFFICES ASSUME IInv, [Next]_vars PROVE IInv'
  OBVIOUS
<1>1. CASE Work
  BY <1>1, InstallStep, RemoveStep, ScanEntryStep, RefreshStep, SyncLineStep DEF Work
<1>2. CASE User
  BY <1>2, StartStep, MenuStep, InstallNothingStep DEF User
<1>3. CASE Interrupt
  BY <1>3, InterruptStep
<1>4. CASE UNCHANGED vars
  BY <1>4
     DEF vars, IInv, TypeOK, IndexOK, Indexed, DiskOK, InstallOK, FlagsOK, FlagOf, Alone, ScanOK,
         Room, Listed, Package, Name, Entry, app_count
<1> QED BY <1>1, <1>2, <1>3, <1>4 DEF Next

THEOREM StoreInvariant == Spec => []IInv
BY InitIInv, StepIInv, PTL DEF Spec

(* The catalogue and the disk keep their form, the indices are in the        *)
(* catalogue when the menu and the details read apps[] (jurkstore.c:684-744) *)
(* and the scan never writes past the end of apps[] (jurkstore.c:164).       *)
THEOREM TypeCorrect == Spec => [](TypeOK /\ IndexOK)
<1>1. IInv => TypeOK /\ IndexOK
  BY DEF IInv
<1> QED BY <1>1, StoreInvariant, PTL

(* The flag on the screen is what is_app_installed says of the disk          *)
(* (jurkstore.c:66-86), whatever was interrupted before.                     *)
THEOREM FlagsHold == Spec => []FlagsExact
<1>1. IInv => FlagsExact
  BY DEF IInv, FlagsOK, FlagsExact, FlagOf, Alone, Working, Calls
<1> QED BY <1>1, StoreInvariant, PTL

(* What "[SUCCESS]" promises (jurkstore.c:421-424).                          *)
THEOREM SuccessTruthful == Spec => []SuccessRuns
<1>1. IInv => SuccessRuns
  BY DEF IInv, InstallOK, SuccessRuns, Program, is_app_installed, Package
<1> QED BY <1>1, StoreInvariant, PTL

(* Nothing is left of a package that was removed (jurkstore.c:444-450).      *)
THEOREM UninstallClean == Spec => []CleanUninstall
<1>1. IInv => CleanUninstall
  BY DEF IInv, InstallOK, CleanUninstall
<1> QED BY <1>1, StoreInvariant, PTL

(* The scan at the start finds every package whose metadata is whole         *)
(* (jurkstore.c:196-231), in whatever order readdir names the directories.   *)
THEOREM ScanFindsAll == Spec => InstalledAreListed
<1> DEFINE Found == pc = "scan" /\ pc' = "menu" /\ Cardinality(Listed) <= MAX_APPS =>
                      \A n \in Apps : disk[n].meta \in Urls
                                        => \E i \in DOMAIN apps' : apps'[i].name = n
<1>1. IInv /\ [Next]_vars => [Found]_vars
  <2> SUFFICES ASSUME IInv, Next, pc = "scan", pc' = "menu", Cardinality(Listed) <= MAX_APPS,
                      NEW n \in Apps, disk[n].meta \in Urls
               PROVE  \E i \in DOMAIN apps' : apps'[i].name = n
    OBVIOUS
  <2>1. ScanEnd
    BY DEF Next, Work, User, MakeDir, CopyLocal, Download, Verify, CopyBinary, Abort, WriteMeta, Link,
           RemoveDir, RemoveLink, ScanEntry, SyncLine, SyncEnd, Start, Details, RightArrow, Back,
           Install, InstallNothing, Uninstall, Sync, AnyKey, Quit, Move, Interrupt, Pauses
  <2>2. apps' = Refreshed /\ todo = {}
    BY <2>1 DEF ScanEnd
  <2>3. n \in Listed
    BY DEF IInv, DiskOK, Listed, Urls
  <2>4. PICK i \in 1 .. app_count : apps[i].name = n
    BY <2>2, <2>3 DEF IInv, ScanOK
  <2>5. i \in DOMAIN apps' /\ apps'[i].name = n
    BY <2>2, <2>4, RefreshedFacts DEF IInv
  <2> QED BY <2>5
<1> QED BY <1>1, StoreInvariant, PTL DEF Spec, InstalledAreListed
==============================================================================
