------------------------------ MODULE JurkStore -------------------------------
(***************************************************************************)
(* The package manager NoneCompiled/jurkstore.c: its catalogue in memory,  *)
(* the packages on the disk, and the shell commands by which install_app   *)
(* and uninstall_app change the disk.  Each command is one step; it may    *)
(* succeed, fail in the middle (Faults: most results are ignored) or be    *)
(* cut short together with the store by a signal or a loss of power.       *)
(***************************************************************************)
EXTENDS Integers, FiniteSets, SequencesExt

CONSTANTS
  Apps,       \* strings that name packages and folders of the repository
  Repo,       \* catalog.txt: a sequence of manifests [id, name, url]
  Local,      \* files of the image, as pairs <<folder, name>>
  MAX_APPS,
  Faults,     \* commands that may fail: "mkdir", "cp", "rm", "meta", "ln"
  MaxOps      \* bound: starts, installs, uninstalls and syncs in a behaviour

ASSUME StoreAssumption ==
  /\ IsFiniteSet(Apps) /\ MAX_APPS \in Nat \ {0} /\ MaxOps \in Nat
  /\ Repo \in Seq([id : Apps, name : Apps, url : {"bk", "jex"}])
  /\ Faults \subseteq {"mkdir", "cp", "rm", "meta", "ln"}

VARIABLES
  disk,       \* per name: its directory in /usr/apps and its command in /bin
  apps,       \* apps[0 .. app_count-1] as a sequence: id, name, url, installed
  selected_index,
  app,        \* index of the AppEntry* of the running call
  pc,         \* where the store is; "off" when it does not run
  line,       \* number of the next line of catalog.txt during a sync
  todo,       \* the directories that the scan at the start has not read
  failed,     \* ghost: a command has failed by itself
  ops         \* bound: operations so far

vars == <<disk, apps, selected_index, app, pc, line, todo, failed, ops>>

(* A file: absent, at most 100 bytes, a page of text, the head of a binary, *)
(* or a whole binary.  A meta.xml: absent, empty, cut off, or whole, and    *)
(* then it is written as the kind of its URL.                               *)
Contents == {"none", "short", "page", "part", "elf"}
Urls == {"bk", "jex"}
Metas == {"none", "empty", "cut"} \cup Urls
Clean == [dir |-> FALSE, bk |-> "none", bin |-> "none", x |-> FALSE, meta |-> "none",
          link |-> "none"]
Packages == [dir : BOOLEAN, bk : Contents, bin : Contents, x : BOOLEAN, meta : Metas,
             link : {"none", "link", "copy"}]
Entries == [id : Apps, name : Apps, url : Urls, installed : BOOLEAN]
Pauses == {"installed", "aborted", "removed", "synced"}
Calls == {"mkdir", "local", "wget", "verify", "copy", "abort", "meta", "ln",
          "rmdir", "rmlink", "sync"}

app_count == Len(apps)
(* The entry a call works on; index -1 is the zeroed memory before apps[]. *)
Entry == apps[app + 1]
Name == Entry.name
Package == disk[Name]

(* is_app_installed: an executable file in the directory or in /bin; a link *)
(* in /bin leads to the file in the directory.                              *)
is_app_installed(d, n) == (d[n].bin /= "none" /\ d[n].x) \/ d[n].link = "copy"

(* check_local_binary looks for the name and for the id in the id's folder. *)
check_local_binary(id, name) == {<<id, name>>, <<id, id>>} \cap Local /= {}

(* add_or_update_app overwrites the first entry with this name or this id. *)
SameApp(e, id, name) == e.name = name \/ e.id = id
add_or_update_app(es, id, name, url) ==
  LET new == [id |-> id, name |-> name, url |-> url, installed |-> is_app_installed(disk, name)]
      i == SelectInSeq(es, LAMBDA e : SameApp(e, id, name))
  IN IF i > 0 THEN [es EXCEPT ![i] = new]
     ELSE IF Len(es) >= MAX_APPS THEN es ELSE Append(es, new)

(* parse_meta_xml_buffer: a manifest that was cut off has lost its URL or  *)
(* its name too, and the default takes the place.                          *)
Parsed(m) == {m, [m EXCEPT !.url = "bk"], [m EXCEPT !.url = "bk", !.name = m.id]}

(* Mutant: only packages that run are listed. *)
ListedIfRuns == {n \in Apps : disk[n].dir /\ is_app_installed(disk, n)}

(* scan_installed_apps reads each non-empty meta.xml of /usr/apps; the name *)
(* in it, and the one that stands in for it, is the directory's.            *)
Listed == {n \in Apps : disk[n].dir /\ disk[n].meta \notin {"none", "empty"}}
MetaUrl(n) == IF disk[n].meta = "jex" THEN "jex" ELSE "bk"
Refreshed == [i \in 1 .. app_count |->
                [apps[i] EXCEPT !.installed = is_app_installed(disk, apps[i].name)]]

(* The loop of main brings the index back into the catalogue, or to -1. *)
Clamp(s, count) ==
  LET low == IF s < 0 THEN 0 ELSE s IN IF low >= count THEN count - 1 ELSE low

Init ==
  /\ disk = [n \in Apps |-> Clean]
  /\ apps = <<>> /\ selected_index = 0 /\ app = 0 /\ pc = "off" /\ line = 1 /\ todo = {}
  /\ failed = FALSE /\ ops = 0

-----------------------------------------------------------------------------
(* The menu. *)

Counted == ops < MaxOps /\ ops' = ops + 1

(* main: populate_defaults reads the directories in readdir's order, and    *)
(* the first refresh ends the scan.                                         *)
Start ==
  /\ pc = "off" /\ Counted
  /\ apps' = <<>> /\ todo' = Listed /\ pc' = "scan"
  /\ UNCHANGED <<disk, selected_index, app, line, failed>>

ScanEntry ==
  /\ pc = "scan"
  /\ \E n \in todo : /\ apps' = add_or_update_app(apps, n, n, MetaUrl(n))
                     /\ todo' = todo \ {n}
  /\ UNCHANGED <<disk, selected_index, app, pc, line, ops, failed>>

ScanEnd ==
  /\ pc = "scan" /\ todo = {}
  /\ apps' = Refreshed /\ selected_index' = Clamp(0, app_count)
  /\ pc' = "menu"
  /\ UNCHANGED <<disk, app, line, todo, ops, failed>>

Move(s) ==
  /\ pc = "menu" /\ s \in 0 .. app_count - 1
  /\ s \in {selected_index - 1, selected_index + 1}
  /\ selected_index' = s
  /\ UNCHANGED <<disk, apps, app, pc, line, todo, ops, failed>>

Go(where) == pc' = where /\ UNCHANGED <<apps, selected_index, app, line, todo, ops>>

Details ==
  /\ pc = "menu" /\ app_count > 0
  /\ app' = selected_index /\ pc' = "detail"
  /\ UNCHANGED <<disk, apps, selected_index, line, todo, ops, failed>>

(* The right arrow opens the details without looking at app_count. *)
RightArrow ==
  /\ pc = "menu"
  /\ app' = selected_index /\ pc' = "detail"
  /\ UNCHANGED <<disk, apps, selected_index, line, todo, ops, failed>>

Back == pc = "detail" /\ Go("menu") /\ UNCHANGED <<disk, failed>>

Call(i, where) ==
  /\ Counted
  /\ app' = i /\ pc' = where
  /\ UNCHANGED <<disk, apps, selected_index, line, todo, failed>>

Install ==
  \/ pc = "menu" /\ app_count > 0 /\ Call(selected_index, "mkdir")
  \/ pc = "detail" /\ app >= 0 /\ Call(app, "mkdir")

(* Before apps[] lies zeroed memory: the name is empty, there is nothing to *)
(* download, and "rm -rf /usr/apps/" cleans up.                             *)
InstallNothing ==
  /\ pc = "detail" /\ app < 0 /\ Counted
  /\ disk' = [n \in Apps |-> [Clean EXCEPT !.link = disk[n].link]]
  /\ pc' = "aborted"
  /\ UNCHANGED <<apps, selected_index, app, line, todo, failed>>

Uninstall ==
  \/ /\ pc = "menu" /\ app_count > 0 /\ apps[selected_index + 1].installed
     /\ Call(selected_index, "rmdir")
  \/ pc = "detail" /\ app >= 0 /\ Entry.installed /\ Call(app, "rmdir")

Sync ==
  /\ pc = "menu" /\ Counted
  /\ pc' = "sync" /\ line' = 1
  /\ UNCHANGED <<disk, apps, selected_index, app, todo, failed>>

(* Any key after the message; main clamps the index again. *)
AnyKey ==
  /\ pc \in Pauses
  /\ pc' = "menu" /\ selected_index' = Clamp(selected_index, app_count)
  /\ UNCHANGED <<disk, apps, app, line, todo, ops, failed>>

Quit == pc \in {"menu", "detail"} /\ Go("off") /\ UNCHANGED <<disk, failed>>

-----------------------------------------------------------------------------
(* What a command leaves of a package p when it ends early.  A file that is *)
(* written anew keeps its mode; a new one is not executable.                *)

Cut(c) == {"short"} \cup IF c = "elf" THEN {"part"} ELSE {c}
WithBin(p, c) == [p EXCEPT !.bin = c, !.x = p.bin /= "none" /\ p.x]
CopyCut(p) == {WithBin(p, c) : c \in Cut(p.bk) \cup {p.bk}}
LocalBk(p) == [p EXCEPT !.bk = "elf"]

Ended(cmd, p) ==
  {p} \cup
  CASE cmd = "mkdir" -> {[p EXCEPT !.dir = TRUE]}
    [] cmd = "local" /\ p.dir ->
         {[p EXCEPT !.bk = c] : c \in Cut("elf")} \cup {LocalBk(p)} \cup CopyCut(LocalBk(p))
    [] cmd = "wget" /\ p.dir -> {[p EXCEPT !.bk = c] : c \in Contents}
    [] cmd = "copy" -> CopyCut(p)
    [] cmd \in {"abort", "rmdir"} ->
         {[p EXCEPT !.bk = IF "bk" \in left THEN @ ELSE "none",
                    !.bin = IF "bin" \in left THEN @ ELSE "none",
                    !.x = "bin" \in left /\ @,
                    !.meta = IF "meta" \in left THEN @ ELSE "none"]
            : left \in SUBSET {"bk", "bin", "meta"}}
    [] cmd = "meta" -> {[p EXCEPT !.meta = c] : c \in {"empty", "cut"}}
    [] cmd \in {"ln", "rmlink"} -> {[p EXCEPT !.link = "none"]}
    [] OTHER -> {}

(* The steps of install_app and uninstall_app; installed is set at the end. *)
Leaves(after, where) == Go(where) /\ disk' = [disk EXCEPT ![Name] = after]
Step(after, where) == Leaves(after, where) /\ UNCHANGED failed

(* Bound: one command of a behaviour fails by itself. *)
Fault(kind) == ~failed /\ kind \in Faults /\ failed' = TRUE
Fails(kind, cmd, where) == Fault(kind) /\ \E p \in Ended(cmd, Package) : Leaves(p, where)

Ends(after, where, flag) ==
  /\ disk' = [disk EXCEPT ![Name] = after]
  /\ apps' = [apps EXCEPT ![app + 1].installed = flag]
  /\ pc' = where
  /\ UNCHANGED <<selected_index, app, line, todo, ops>>

MakeDir ==
  /\ pc = "mkdir"
  /\ Step([Package EXCEPT !.dir = TRUE], "local") \/ Fails("mkdir", "mkdir", "local")

(* Mutant: chmod is forgotten. *)
WholeNotExecutable(p) == WithBin(p, p.bk)
Whole(p) == [p EXCEPT !.bin = p.bk, !.x = TRUE]

(* cp, cp and chmod from the image; otherwise the download. *)
Preloaded == check_local_binary(Entry.id, Name)
CopyLocal ==
  /\ pc = "local"
  /\ \/ Preloaded /\ Package.dir /\ Step(Whole(LocalBk(Package)), "meta")
     \/ ~(Preloaded /\ Package.dir) /\ Step(Package, "wget")
     \/ Preloaded /\ Fails("cp", "local", "wget")

(* wget exits with 0 for whatever it received, if anything (module Wget); *)
(* otherwise it leaves the file alone, removes it, or was killed.         *)
Download ==
  /\ pc = "wget"
  /\ \/ /\ Package.dir
        /\ \E c \in Contents \ {"none"} : Step([Package EXCEPT !.bk = c], "verify")
     \/ \E p \in Ended("wget", Package) : Step(p, "abort")

(* More than 100 bytes, and the magic number or a URL with .jex or .sh. *)
IsBinary == Package.bk \in {"part", "elf"} \/ (Entry.url = "jex" /\ Package.bk = "page")
Verify == pc = "verify" /\ Step(Package, IF IsBinary THEN "copy" ELSE "abort")

(* The result of cp and chmod is ignored. *)
CopyBinary ==
  /\ pc = "copy"
  /\ Step(Whole(Package), "meta") \/ Fails("cp", "copy", "meta")

(* Mutants: the program or the download stays. *)
RemovedButProgram(p) == [p EXCEPT !.bk = "none", !.meta = "none"]
RemovedButDownload(p) == [Clean EXCEPT !.link = p.link, !.bk = p.bk]
Removed(p) == [Clean EXCEPT !.link = p.link]

Abort ==
  /\ pc = "abort"
  /\ \/ Ends(Removed(Package), "aborted", FALSE) /\ UNCHANGED failed
     \/ Fault("rm") /\ \E p \in Ended("abort", Package) : Ends(p, "aborted", FALSE)

WriteMeta ==
  /\ pc = "meta"
  /\ Step([Package EXCEPT !.meta = Entry.url], "ln") \/ Fails("meta", "meta", "ln")

(* ln -sf, or a copy when that fails and the link is not there already. *)
LinkByCopy(p) ==
  IF p.link /= "link" /\ p.bin /= "none" /\ p.x THEN [p EXCEPT !.link = "copy"] ELSE p
Link ==
  /\ pc = "ln"
  /\ \/ Ends([Package EXCEPT !.link = "link"], "installed", TRUE) /\ UNCHANGED failed
     \/ /\ Fault("ln")
        /\ \E p \in Ended("ln", Package), q \in {TRUE, FALSE} :
             Ends(IF q THEN LinkByCopy(p) ELSE p, "installed", TRUE)

RemoveDir ==
  /\ pc = "rmdir"
  /\ Step(Removed(Package), "rmlink") \/ Fails("rm", "rmdir", "rmlink")

RemoveLink ==
  /\ pc = "rmlink"
  /\ \/ Ends([Package EXCEPT !.link = "none"], "removed", FALSE) /\ UNCHANGED failed
     \/ Fault("rm") /\ Ends(Package, "removed", FALSE)

(* fetch_meta_from_entry: the manifest cannot be fetched, or is cut off, or *)
(* is a page of the server, which is parsed like one without any tag.       *)
Fetched(m) ==
  {apps} \cup {add_or_update_app(apps, p.id, p.name, p.url) : p \in Parsed(m)}

(* refresh_remote_catalog; the list may be missing or end early, and        *)
(* apps.txt then says the same.  A line cut in the middle is one of Repo.   *)
SyncLine ==
  /\ pc = "sync" /\ line <= Len(Repo)
  /\ line' = line + 1
  /\ apps' \in Fetched(Repo[line])
  /\ UNCHANGED <<disk, selected_index, app, pc, todo, failed, ops>>

SyncEnd ==
  /\ pc = "sync"
  /\ apps' = Refreshed /\ pc' = "synced"
  /\ UNCHANGED <<disk, selected_index, app, line, todo, failed, ops>>

(* A signal or a loss of power, in the middle of a command too. *)
Interrupt ==
  /\ pc /= "off"
  /\ \/ UNCHANGED disk
     \/ /\ pc \in Calls \ {"sync"}
        /\ \E p \in Ended(pc, Package) : disk' = [disk EXCEPT ![Name] = p]
  /\ pc' = "off" /\ todo' = {}
  /\ UNCHANGED <<apps, selected_index, app, line, failed, ops>>

Work ==
  \/ MakeDir \/ CopyLocal \/ Download \/ Verify \/ CopyBinary \/ Abort \/ WriteMeta \/ Link
  \/ RemoveDir \/ RemoveLink \/ ScanEntry \/ ScanEnd \/ SyncLine \/ SyncEnd
User ==
  \/ Start \/ Details \/ RightArrow \/ Back \/ Install \/ InstallNothing \/ Uninstall \/ Sync
  \/ AnyKey \/ Quit
  \/ \E s \in 0 .. MAX_APPS - 1 : Move(s)
Next == Work \/ User \/ Interrupt

Spec == Init /\ [][Next]_vars

-----------------------------------------------------------------------------

(* When the menu is shown, the installed flag of an entry says what        *)
(* is_app_installed would say of the disk, whatever was interrupted, cut   *)
(* off or renamed by a sync before, as long as no command has failed by    *)
(* itself.  Two entries of one name may disagree after one was used.       *)
FlagsExact ==
  pc = "menu" /\ ~failed =>
    \A i \in 1 .. app_count :
      (\A j \in 1 .. app_count : j = i \/ apps[j].name /= apps[i].name)
        => apps[i].installed = is_app_installed(disk, apps[i].name)

(* After "[SUCCESS]" (jurkstore.c:421-424) the command runs, unless a      *)
(* command has failed by itself: /bin leads to an executable file.         *)
SuccessRuns ==
  pc = "installed" /\ ~failed => Package.link /= "none" /\ is_app_installed(disk, Name)

(* An uninstallation leaves nothing of the package, whatever interrupted   *)
(* or repeated installations had left before (jurkstore.c:444-450).        *)
CleanUninstall == pc = "removed" /\ ~failed => Package = Clean

(* When the store starts, every package whose metadata was written whole   *)
(* is in the catalogue again under its name, if the catalogue has room for *)
(* all of them (jurkstore.c:164, 196-225).                                 *)
InstalledAreListed ==
  [][pc = "scan" /\ pc' = "menu" /\ Cardinality(Listed) <= MAX_APPS =>
       \A n \in Apps : disk[n].meta \in Urls
                          => \E i \in DOMAIN apps' : apps'[i].name = n]_vars

(* "Installation aborted. System untouched." (jurkstore.c:381): cleaning up *)
(* after a failed download leaves a version installed earlier in place.    *)
AbortUntouched ==
  [][pc = "abort" /\ pc' = "aborted" /\ is_app_installed(disk, Name)
       => is_app_installed(disk', Name)]_vars
==============================================================================
