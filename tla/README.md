# JurkOS in TLA+

A model of the JurkOS kernel (`src/source/kernel`) and of its userland
(`src/NoneCompiled`), checked with TLC. What the memory managers, the keyboard, the
network driver, the FAT32 reader, the lookups of the VFS, the choice of PID 1, the loader, the package store, the file commands, the login, the downloader and the network
manager's connections promise is also proved with TLAPS. Line numbers refer to the files under `src/`.

## 1. Inventory

JurkOS is a small kernel for x86_64 and i386 with no processes and no
scheduler: `kernel_main` initialises everything, runs the program
`/sbin/main` as PID 1 and panics when it returns, or runs an emergency shell
when there is none. The same userland programs also run under Linux. The only
concurrency in the kernel is between the one thread of execution, the interrupt
handlers and the devices.

| component | state | operations | hard behaviour | what makes it correct |
|---|---|---|---|---|
| page allocator `mem/pmm.c` | bitmap, counter of free pages | mark region, allocate one or n pages, free | long histories of calls, boundaries, overlapping regions | counter equals bitmap, no page has two holders, allocation fails only when it must |
| heap `mem/kheap.c` | list of blocks in an arena | kmalloc, kzalloc, kfree | splits and merges, `size_t` wrap-around | blocks tile the arena, live payloads are disjoint, free neighbours merge |
| keyboard `drivers/keyboard.c` | ring of 256 characters, shift flag | IRQ 1 handler, getchar, readline | handler against reader, lost wake-up, early interrupts | bounded FIFO, the reader catches up |
| VFS `fs/vfs.c` | root node, mount pointers in nodes | lookup, finddir, readdir, mount, read, write | nodes are created by lookups, mounts refer to nodes | a lookup answers with the file at that path |
| devfs `fs/devfs.c` | tree of device nodes | register, init, device handlers | built twice during boot, 16 children per folder | every registered device is found once |
| FAT32, JurkVFS `fs/` | parameters of the image, a fresh node per lookup | init, finddir, readdir, read | cluster chains, boundaries | listing and reading agree with the image |
| loader `loader/` | the file being loaded, its segment and page | ELF-64/32, flat binaries, stack, entry, return | programs lie in memory that the allocator regards as free, pages never freed, no result tested | segments are in memory as in the file, each stack has pages of its own |
| paging `arch/*/paging.c` | the boot loader's tables, and tables made of PMM pages | map, unmap, translate | large entries taken for tables, allocation of tables in the middle of a map | the tables made are private, nothing else moves in the address space |
| interrupts `arch/*/idt.c` | gates, handlers, PIC mask | ISR, IRQ, registration | interrupts before registration | each IRQ is acknowledged; an exception halts |
| e1000 `drivers/e1000.c` | two descriptor rings | send, receive, init | device and driver share the rings | frames in order, none twice |
| PCI `drivers/pci.c` | table of 64 functions | scan, find, get | table limit, multi-function devices | the table is the prefix of the scan |
| framebuffer, serial, speaker | cursor; none | print, scroll; port I/O | wrap at the last row | cursor stays on the screen |
| boot and emergency shell `kernel_main.c` | locals | boot order, ls, cat, exec, command names | mounts change what later steps see | the right PID 1, commands end |
| PID 1 `main.c` | user name, setup marker, credentials, the file tree | setup, login, file and text commands, program search | a power failure between two files, links and a second file system, system calls that fail | the login accepts what was chosen, commands change what they name, copies are whole |
| JurkStore `jurkstore.c` | catalogue, files under `/usr/apps`, `/bin` | sync, install, uninstall, menu | each shell command can fail or be cut off | flags agree with the disk, success means the command runs, nothing is left after removal |
| wget `wget.c` | header flag, output file | download | header split between chunks, breaks | what is saved is gapless if the writes go well, the exit status is what the caller may take it for |
| wifi `wifi.c` | list of networks, profiles, configuration of the supplicant | scan, connect, wired, disconnect, save | names heard twice or taken for lines, daemons left running, commands that fail or are interrupted | the list agrees with the air, the network last asked for is joined and a disconnection lasts if their commands succeed |
| BearSSL, image contents, build | | | | third party or no behaviour: not modelled |

Interactions: JurkStore runs wget and goes by its exit status. devfs, the disk file systems and the loader allocate from the
heap; paging, the loader and e1000 from the page allocator; the shell reads from
the keyboard and goes through the VFS; devfs handlers call keyboard, framebuffer,
serial and e1000; `idt.c` dispatches interrupts to the keyboard. There are
no locks: the heap, the page allocator and the VFS are never used by a handler.

The places where these behaviours are hard to test are listed under `hazards`
in `PROJECT.json`, each with its line.

## 2. Modules

| module | models | kind |
|---|---|---|
| `PageAllocator` | what `pmm.c` promises: pages are free, held or reserved; first fit | abstract specification |
| `PMM` | `mem/pmm.c` | detailed, one loop iteration per step |
| `PMMProofs` | theorems about `PMM` | proofs |
| `HeapSpec` | what `kheap.c` promises: live allocations are disjoint and in the arena | abstract specification |
| `KHeap` | `mem/kheap.c` | detailed, one step of a list walk per step |
| `KHeapProofs` | theorems about `KHeap` | proofs |
| `CharQueue` | a bounded FIFO that drops the newest character when full | abstract specification |
| `Keyboard` | `drivers/keyboard.c` and the interrupt path of `arch/x86_64/idt.c` | detailed, composed with the hardware it uses |
| `PCI` | `drivers/pci.c` | detailed, one function asked for per step; part of `VFS` |
| `VFS` | `fs/vfs.c`, `fs/devfs.c`, `fs/jurkvfs.c`, the node layer of `fs/fat32.c`, and `kernel_main.c` from `pci_scan` to the shell | composition |
| `FAT32` | `fs/fat32.c` | detailed, one cluster or directory entry per step |
| `Vmm` | `arch/x86_64/paging.c`, from the boot loader's tables | detailed, one level per step |
| `Loader` | `loader/loader.c`, `elf.c` | composition: programs over `Vmm` |
| `E1000` | `drivers/e1000.c` and the device | detailed, composed with the hardware; implements `CharQueue` |
| `Wget` | `main` of `wget.c` | detailed, one read per step |
| `JurkStore` | `jurkstore.c` | detailed, one shell command per step |
| `Files` | the file system under the userland (external) | operators: open, rename, unlink, rmdir and mkdir over a tree with links and a mount |
| `Text` | `tail`, `uniq` and `sort` of `main.c` | pure functions and what they print |
| `Shell` | the file commands of `main.c` and the search for programs | detailed, one system call per step, over `Files` |
| `Pid1` | setup, login, logout and restart of `main.c` | composition with `Shell` |
| `Wifi` | `wifi.c` | detailed, one line of a scan or one system call per step |
| `KeyboardProofs`, `JurkStoreProofs`, `Pid1Proofs` | theorems about these modules | proofs |
| `BootProofs` | theorems about `Loader` with `Vmm`, and `VFS` | proofs |
| `DriverProofs` | theorems about `E1000` and `FAT32` | proofs |
| `ToolProofs` | theorems about `Wget` and `Wifi` | proofs |
| `MC*` | values of the constants for TLC | model checking |

### Correspondence

**PMM.** `bitmap` and `free_pages` are the static variables (TRUE is a set bit),
`pc` with `i`, `start_page`, `count`, `consecutive`, `used` are the running call and its
locals, `ret` its result; `held` is a ghost: the pages that callers
have and did not give back. The actions named like functions start a call; `MarkPage`,
`ScanPage`, `ScanRun` and `FreeStep` are one iteration of the loops, `Take` is
the inner loop that sets the bits with the two lines after it. `Init` is the state after
`pmm_init`, on entry to the `pmm_mark_region` of `kernel_main.c:357`. Callers
keep a contract (`ReleaseOK`, `FreeOK`): they give back what they hold, what is free
already, or what lies past the end of memory.

**KHeap.** `blocks`, `size`, `is_free` and `next` are the headers in the list, with
the numeric addresses and sizes the code computes with; `size_t` has the width
`WORD`, and `AlignUp` wraps as `(size + 15) & ~15` does. `Found` is the branch that returns a
block, `Split` the header written inside it, `Merge` and `KeepApart` the
two branches of `kfree`'s walk. `live` is a ghost: the payloads callers have. Callers
free NULL or a payload they have.

**Keyboard.** A handler runs to its end between two instructions of the reader
(interrupt gates, one processor), so `KeyboardIRQ` is one action. The
reader's accesses to `kbd_head`, `kbd_tail` and the slot are separate actions
(`Check`, `Hlt`, `Load`, `Advance`), in source order. Scancodes are the
classes that the handler tells apart: a letter, enter, backspace, a
character that `readline` ignores, a key without character, shift, releases.
The controller holds one byte until the port is read and raises IRQ 1 when it
puts one there. `lost` is a ghost that counts dropped characters.

**VFS.** A node is numbered by the order in which `kzalloc` gave it and is never
freed, as in the code. `Finddir` gives the nodes afterwards and the one found:
a disk file system appends a node, devfs returns the one it has. `LookupStep` is one
iteration of `vfs_lookup`, `caller` says where its answer goes and `doing` what the kernel is in. The two disk formats are
one here: an image is a function from inode to name, parent, type and length.
The boot begins with the PCI scan of module `PCI`, whose table devfs registers.
`HeapNodes` is the size of the heap in nodes: no caller tests for NULL, so
the allocation after the last one is a fault, and `isr_handler` halts.

**FAT32.** An image has the boot sector or, behind a partition table, two of them, the
allocation table `fat`, and the contents of its clusters: bytes for files, entries for
directories. `call` is the running call with its arguments, the other variables are its
locals. `Skip`, `CopyCluster`, `NextEntry` and `NextCluster` are one iteration each of
the loops of read, readdir and finddir; `Walk` starts the last two, which differ in `Hit`. Cluster
numbers from `EOC` on end a chain, as `fat[0]` and `fat[1]` do. The properties do not walk: `ClusterOf(n, k)` is the
k-th cluster of a node, `ListingOf` the places of a directory that are listed.

**Vmm.** `memory` has the words of every page, since tables and programs are in the same memory; a word is an entry, a
large entry, a word of a file, zero, or junk. The root is the boot loader's. It maps low memory to itself, part of it by large entries, which
the processor takes for the mapping of a block of pages (`Physical`) and the code for the address of a table (`TablesIn`,
`Descend`): what it takes for the table is the first page of the block, ordinary memory. `IsPresent` and `To` say how the code
reads a word that is no entry. `Descend`, `NewTable` and `SetLeaf` are the three things that a level of
`vmm_map_page` does; `vmm_get_phys` ends at `Found`, and finds nothing before the first call of `vmm_map_page` has set
`kernel_pml4` (`known`). `NullTable` is the page fault of a `memset` on NULL. `Take` is `pmm_alloc_page`: the
lowest free page, which is what `PMM` is proved to give.

**Loader.** Programs are linked into low memory (`Low`), and the stack lies where the root is empty (`Own`).
`LookUp`, `MapPage` and `MapStack` start calls of `Vmm`, whose steps are `Walk`. `KeepPage` is the branch in which something was
found for a page; in the other a page is allocated, cleared and mapped (`AllocPage`, `MapPage`), but the program keeps
lying in the physical pages of its addresses: the entry is a word in the first page of a block, and the page allocated is never
used. `CopySegment` is the `memcpy` and `memset`, `Work` what the program writes while it runs. Programs run in
sequence in the one address space; `ran` remembers them. The page allocator knows nothing of where programs lie. When it hands out such a
page, or a program is loaded over pages that it has handed out, the model ends in the stage "overlap".

**E1000.** `rx_descs`, `tx_descs` and the positions are the driver's variables and registers.
Each access of the driver to memory shared with the device is a step (`FillTx` is one: the device
does not look before `Kick`). The device writes a frame and its status in
two steps (`Arrive`, `WriteRxStatus`). `arrived`, `dropped` and `wire` are ghosts.

**Wget.** `phase` is where `main` stands. `Read` is one iteration of either loop. A chunk is any piece of the answer; zero
bytes end what `strstr` sees, and because `buf` is neither cleared nor terminated a chunk without
one may be followed by an old header's end, which is a choice. `given` is what `fwrite` was handed, whose length is `total_bytes`;
`Store` says what is in the file, where every write, the one of `fclose` too, may fail without anybody looking. `misled` and `lost` (a write failed) are ghosts.

**JurkStore.** `disk` has the directory, download, program, metadata and command of each
package, `apps` is the catalogue. Each `system()`, copy or write is one action; `Ended` says what it
leaves if it ends early. `ScanEntry` is one directory of the scan at the start, in any order (`todo` has those to come). `Interrupt` ends the store at any point, in the middle of a
command too. `failed` is a ghost: a command has failed by itself, at most one per behaviour.

**Pid1, Shell, Files, Text.** `marker` and `auth` are the two files of the setup, each created by one step
and written by another (`OpenFile`, `WriteFile`); `disk` is the tree the commands work on. `cp`,
and `mv` when `rename` fails, are `OpenBoth`, `CopyBlock` and `Copied`; `rm_recursive` is one entry of `rm -r`.
`before` and `scope` are ghosts: the tree when the command began and the paths that it
names; `err` and `full` record that a write failed. `Text` has the three text commands as functions of the pieces that `fgets(..., 512)` returns of a
file: a line, or 511 characters of a longer one. A piece is a number.

**Wifi.** A line of a scan is its kind, what it says, and the words in it that the parser searches for; a name may contain
such words (`InName`). The scan is at line `row` of cell `cell` of what was heard (`air`). `ReadLine` is one turn of the parsing loop, `ScanEnds` what follows it, with `iw` after an empty
`iwlist`. `connect_wifi` is cut at each `run_sys`: `WriteConf`, `Kill`, `Up`, `Launch`, `Lease`, `Static`, `Save`.
`system` ignores SIGINT in the program, so ctrl-C during a command ends the command and the program goes on; no result is looked
at. So each of these steps may do all, some or none of its work, and the next one follows. `Quit` is ctrl-C between two
commands, Q, or SIGTERM.
`asked`, `unwritten`, `stopped` and `off` are ghosts: the network that the supplicant was last launched for, whether
the configuration was another network's then, whether the commands of the last call that were to stop something did, and whether the last
call was a disconnect.

## 3. Runs

| run | result | states | what it shows |
|---|---|---|---|
| `pmm` | pass | 90 000 | counter, ownership, first fit |
| `kheap` | pass | 248 000 | tiling, disjointness, coalescing |
| `keyboard` | pass | 197 000 | FIFO, no lost wake-up |
| `vfs` | pass | 52 000 | lookups, PID 1, device tree, listings |
| `fat32` | pass | 48 000 | reads and walks of directories |
| `loader` | pass | 14 000 | programs in memory, private stacks and tables, translation |
| `e1000` | pass | 48 000 | frames in order, none twice, calls return |
| `wget` | pass | 6 400 | the file and the exit status |
| `jurkstore` | pass | 2 580 000 | flags, success, removal, restart |
| `jurkstore_abort` | violation | | the finding below |
| `pid1` | pass | 2 210 000 | login, file commands |
| `wifi` | pass | 2 970 000 | the list, the network joined, disconnection |

Deadlock is not checked where the system may stop: after a panic or a fault, at an exit, or
when a bound on calls, frames or operations is reached.

**pmm.** Six pages, counts 0 to 3, a boot region that runs past the end of memory,
regions with unaligned base or length, pointers NULL, inside a page and past the
end. Six pages have room for two runs of the longest count and for every way in which used
pages separate free ones. *Accounting*: the counter
equals the clear bits in every state. *FailsOnlyWhenFull*: the scans miss no run.
*ImplementsPageAllocator*: each step is a step of the abstract allocator, which is first fit and gives
no page to two holders.

**kheap.** An arena of 160 bytes with the 64-bit header of 24 holds one to three blocks
of 16 bytes or more, so that splits, exact fits, merges left and right and of three blocks
happen. Requests of 1 and 17 bytes are rounded, 512 is refused, 1020 wraps to 0 in a word of
1024. *Tiled*, *Coalesced*, *FailsOnlyWhenFull*: the list is the arena, free neighbours are merged, and a
request is refused only without a block that fits. *ImplementsHeap*: live allocations never overlap.

**keyboard.** Three slots (two characters fill the ring, as 255 fill the real
one), lines of two characters, four scancodes of any class: the ring is full while the reader is at
each of its steps, lines end by enter and by length.
*ImplementsCharQueue*: in spite of the handler the ring is a FIFO that loses a character only when
full. *ReaderCatchesUp*: a character that arrives between test and `hlt` is not forgotten,
which holds only because `pic_remap` leaves IRQ 0 unmasked: its mutant masks the
timer and the property fails. Keys are pressed at any time, before `keyboard_init` too; a byte that arrives then stays in the
controller, no property claims that it is read, and these two hold all the same.

**vfs.** Four PCI slots with a multi-function device and one whose single function answers to
every number. No disk, a disk with PID 1 at the second path, one whose `/sbin/main` is a
directory, one with `/sbin/main.jex`, one without PID 1 with files, directories, an empty file
and a name that occurs in two directories. After boot the shell runs any commands over eight
paths until the heap has no room for a node.
*LookupMatchesDisk*: with a disk mounted, the answer is the file the disk has at the path. *LookupMatchesDisk* and *ListsDirectory* say nothing
of paths under `/dev`: what a lookup answers there is in the model, and is not what the kernel says (below).
*InitChoice*: the right program is PID 1.
*DevTreeComplete*: each device and each PCI function is in the tree once, also when the tree is
built for the second time. *ListsDirectory*: a listing has the names of the directory, and as many as it has entries.

**fat32.** Clusters of two bytes or two entries. One image has a root of three clusters out of
order and without an end mark, with deleted, label and long entries, a file of three clusters that
ends inside the last one and one whose chain is shorter than its size; the other lies behind a partition table
and has an end mark before a stale entry and an empty file; a third is refused. Every offset, five lengths.
*ReadsFile*: a read gives the bytes there are. *WalksDirectory*: readdir numbers what is listed
from 0 without a gap, and finddir finds each of them by that name.

**loader.** Three levels of tables of four entries, sixteen pages of low memory in one block mapped page by page and three mapped by
large entries, a stack of two pages. Programs lie in the last two blocks: one whose segments share a page, one in the block whose second page
the allocator has, one that is cut off over two blocks, one that ends in its header, one that loads nothing; four
in a row in any order. The allocator has seven pages, so that memory ends in the middle of a map, a load or a stack, and
its last page lies where programs do, so that it is handed out.
*TablesPrivate*: the tables made for the stack are pages given out, none of them in two places nor where the
program lies. *StackPrivate*: on entry each page of the stack has a page of its own, or page 0 when memory has run out.
*TranslationStable*: nothing moves in the address space but the page of the stack that is being mapped.
*SegmentsAsInFile*: on entry each segment is in memory as in the file, the rest zero, but for words of the first page of a
block under which no entry was seen and over which one was written for a page of a later segment. *OverlapWhenUsedUp*: programs and pages given
out meet only after as many pages were needed as there are below. The fourth level of the code adds one more `Descend`.

**e1000.** Rings of four and nine frames each way, so that both wrap twice, and a receiver that may never
poll, so that the ring fills. *ImplementsQueue*: received frames are
a bounded FIFO of those that arrived. *SentInOrder*: when send returns, its frame is on the wire.
*CallsReturn*: send and receive end.

**wget.** A header of five characters with bodies that have an empty line, zero bytes, or nothing,
cut into chunks of one to four characters anywhere and stopped anywhere: the header's end is whole
in a chunk, split, or missed. Any write may fail and later ones succeed.
*NothingMissing*: if no write failed, the file has a gapless piece of the answer up to where reading stopped.
*BodyFromStart*: the body from its first byte, if the header's end was recognised besides. *ExitStatus*: what each exit status says of
the file; with 0 it is there, and empty only if a write failed. With 0 it may also be short, because a write
failed or the answer broke off: the code knows neither.

**jurkstore.** Two packages, one preloaded under a folder with another name, six operations, one
command that fails in the middle, interruptions anywhere. Six operations suffice for a start, a sync, an
installation that is cut off, a restart, a removal, and one more. *FlagsExact*,
*SuccessRuns*, *CleanUninstall* are what the messages say, as long as no command has
failed; *InstalledAreListed* holds in spite of failures.

**pid1.** Ten paths: a file, a directory with room for a file and a link to the other directory, which has a
file, and a second file system with a link to the first file. Two commands of any kind over seven operands, so that one meets what the
other left, one power failure anywhere, and any system call of a copy, a removal or the setup may
fail. Two names and two passwords, one of each chosen. *LoginAsChosen*: a finished setup lets its user in with the
password chosen and no other. *CommandsStayInside*: a command changes what its operands name; `rm -r` does not leave its
directory through the link. *CopyExact*: copies are whole, and what is moved is somewhere, unless
a system call failed or the destination links back to the source. What the text commands print is not state and has theorems instead of a run.

**wifi.** Eight scans of up to four cells and room for three: one name at two or three access points in
different orders, names that contain `Cell ` or `WPA3`, an element that `iw` prints like a new cell, and an
empty scan, after which `iw` hears something else. Two calls of any kind, with the right, the wrong or no password,
cut off at each system call, each command failing or doing part of its work, with daemons that stay and renew: a call that fails and the one that meets
what it left. *EachListedOnce*, *StrongestIsShown*: the list has each name once, with what was heard at its
strongest access point. *JoinsTheLastAsked*: no supplicant of an earlier call survives the next one whose configuration was written and whose `killall`
came to its end. *StaysDisconnected*: after a disconnect whose two commands came to their ends neither a scan nor
a daemon brings a connection back. The last two are proved for any number of calls.

### Finding

A reinstallation whose download fails removes the version that was installed
(`jurkstore.c:385`), while line 381 says "Installation aborted. System untouched."

Seen while modelling, without a run:

- A key pressed between `sti` (`idt.c:130`) and `keyboard_init` (`kernel_main.c:416`) is acknowledged
  without reading port 0x60 (`idt.c:215`); the controller raises no further interrupt and the keyboard stays dead, while
  the log says "PS/2 controller active with interrupt queue".
- `/dev` is never reachable, while `devfs.c:206` reports it mounted: the memory root has no `finddir`, and on a
  disk the mount pointer is set on a node that only that lookup saw.
- `/dev/pci` drops the 17th function silently (`devfs.c:160`); the `..` entry of a directory directly
  under the FAT32 root names cluster 0, which `finddir` takes as it is, so that the node lists nothing (`fat32.c:174`).
- `vmm_get_phys` and `vmm_map_page` take the boot loader's large entries for tables (`paging.c:47`, `86`). A program linked into low memory stays
  in the physical pages of its addresses: pages are allocated for it and never used, entries are written over words of its own first page (`paging.c:47`), and the
  page allocator, which was given those pages at boot, hands them out one day (`elf.c:43`, `pmm.c:50`). If the boot loader protects what it maps
  there, the copy of a segment faults; the model takes it to be writable. The NULL of a full memory is mapped as page 0 for a stack (`loader.c:59`).
- `mv` onto a directory that `rename` refuses removes the source although `cp` failed (`main.c:286`).
  `mv` of a file onto a link to it on another file system loses the file: `rename` fails, `cp` opens the
  source and empties it through the link, and `unlink` removes it (`main.c:283-287`).
  `cp` of a file onto itself empties it. `tail -n 0` divides by zero and the handler ends PID 1 (`main.c:441`).
  `sort` drops what follows piece 1024 without a word, and `sort`, `uniq` and `tail` take a line over 511 characters for several, while
  `help` speaks of the lines of a file (`main.c:804-808`). A directory in `/usr/apps` with the name of a command is taken for it and `exec` fails.
- Success is printed after the static fallback, also with a wrong password and no link (`wifi.c:312`). In `iw`'s
  output "BSS Load" ends a cell before its security is read, so that WPA2 is listed as open. A last cell whose name is
  listed is dropped however strong it is. The interface name typed by hand is overwritten at the top of
  the loop (`wifi.c:861`). Profiles in the legacy file are not shown once the main file exists (`wifi.c:759`). When the
  configuration cannot be written the supplicant joins the previous network.
  So it does when the `killall` of line 661 is interrupted by ctrl-C or fails: the old supplicant stays, the new one gives up.
  "Disconnected" is printed when the `killall` or the `ifconfig` failed and the connection stands (`wifi.c:624-630`).
- `wget` exits with 0 after a transfer that broke in the middle (`wget.c:272`), and on a full disk with an empty or short file (`wget.c:341`). JurkStore ignores the results of `cp`
  and `chmod` and reports success (`jurkstore.c:364`), and accepts any page over 100 bytes if the URL names `.jex`
  or `.sh` (line 354); the right arrow on an empty catalogue opens `apps[-1]` (line 692).

### Fairness

Only `keyboard` and `e1000` check liveness. The processor runs whatever is next: weak fairness of
`Reader` in `Keyboard`, of `Send` and `Receive` in `E1000`. A latched, unmasked interrupt is
delivered and the controller hands over its queue (weak fairness of `KeyboardIRQ` and `FillPort`). The PIT ticks after
reset and IRQ 0 is unmasked (weak fairness of `TimerIRQ`). A network device with a link sends what is in its
ring and completes what it began (weak fairness of `Transmit` and `WriteRxStatus`). Nobody has to press a key,
and no frame has to arrive. The userland programs wait for a user at every prompt, and a system call of
theirs may take for ever: no liveness is claimed of them.

## 4. Proofs

For every value of the constants that the named assumptions allow:

| module | theorems | from |
|---|---|---|
| `PMMProofs` | type, *Accounting*, holders, *FailsOnlyWhenFull*, refinement of `PageAllocator` | `PMMAssumption` |
| `KHeapProofs` | type, *Tiled*, holders, *Coalesced*, wear, *FailsOnlyWhenFull*, refinement of `HeapSpec` | `KHeapAssumption` |
| `KeyboardProofs` | type, refinement of `CharQueue` | `KeyboardAssumption` |
| `DriverProofs` | of `E1000`: type, *SentInOrder*, refinement of `CharQueue`; of `FAT32`: *ReadsFile*, *WalksDirectory* | `E1000Assumption`, `FATAssumption` |
| `BootProofs` | of `Loader`: *TablesPrivate*, *StackPrivate*, *TranslationStable*, *SegmentsAsInFile*; of `VFS`: *LookupMatchesDisk*, *InitChoice*, *ListsDirectory*, *DevTreeComplete* | `LoaderAssumption`, with `VmmAssumption` in it; `VFSAssumption`; `PCIAssumption` |
| `ToolProofs` | of `Wget`: type, *ExitStatus*, *NothingMissing*, *BodyFromStart*; of `Wifi`: *JoinsTheLastAsked*, *StaysDisconnected*, *EachListedOnce*, *StrongestIsShown* | `WgetAssumption`, `WifiAssumption` |
| `JurkStoreProofs` | type and indices, *FlagsExact*, *SuccessRuns*, *CleanUninstall*, *InstalledAreListed* | `StoreAssumption` |
| `Pid1Proofs` | the tree, *CommandsStayInside*, *CopyExact*, *LoginAsChosen*; what `tail`, `uniq` and `sort` print of any file | `FilesAssumption`, `ShellAssumption`, `Pid1Assumption`, `TextAssumption` |

**PMM** (sizes are naturals, the boot region is above page 0).
The invariants are not inductive alone: that `pmm_free_pages` never makes a held page free
depends on what the loop will still touch, and that the scan takes free pages depends on the
`consecutive` pages before `i`. `IInv` adds `LoopInv`: a region being released or freed
contains neither page 0 nor a held page; the scan has seen no run in the first `i` pages, and
the `consecutive` pages before `i` are free with a used one before them. `Accounting` needs lemmas on the
cardinality of a set with a page added, removed, or a run removed. `NoFalseFailure`
is the scan's invariant at the end of memory; `Refinement` maps each loop iteration to one
abstract step or a stutter.

**KHeap** (the header is not empty, the arena has room for one, its end does
not overflow a word). `IInv` is the conjunction of the invariants with `LoopInv`: `kmalloc` has
passed no block that fits and its aligned size is at least what was asked, `kfree` has left no
free pair behind its cursor. `NoWear` follows from `Coalesced` and `UsedIsLive` by the block after the
head.

**Rings.** `KeyboardProofs` and `DriverProofs` begin with the same lemmas on rings: a window of `w` slots
behind a position of a ring is a sequence; the slot behind it appends, dropping its first slot is `Tail`, and
a slot outside it may change freely. The remainder is hidden behind `Around`.

**Keyboard.** `IInv` adds to the type that a character which the reader is about to take is in the ring and that
the line has room. The handler's enqueue is `Put` or `Drop` of `CharQueue`, the reader's advance is `Get` and every other step
a stutter, at any point where the handler interrupts.

**E1000.** `TxInv`: between the kick and the end of the wait exactly one descriptor is the device's,
its status is clear and its frame is next on the wire; otherwise head, tail and the driver's position are
equal. So the wait cannot end on a status of an earlier round. `RxInv`: the descriptors with a status lie between tail
and head, the driver stands on the first of them, and what it has copied is still the oldest when it gives
the descriptor back. `WriteRxStatus` is `Put`, `Arrive` without a descriptor is `Drop`, `GiveBack` is `Get`.

**FAT32** (images as a formatter leaves them: files and directories have clusters of their own, each as long as a cluster
is, and the chains of directories end; any sizes and chains of files). The k-th cluster of a chain is a recursive function; that a chain stays
among the clusters of its kind, and does not go on after its end, follows by the smallest `k` at which it would not.
`ReadInv`: the buffer has the bytes from the offset on, as far as it goes, and the reader stands before the cluster with
the next byte, or has all that it wanted; while clusters are skipped it stands as many before the first. `WalkInv`: no place of the directory before the one
at which the walk stands ends the directory or is what was asked for, and `current_match` is the number of listed places
before it. So what `readdir` finds has the number asked for and what `finddir` finds is the first of its name.
A name formatted begins with a dot only if the raw one does, which keeps the dots, which `finddir` finds and `readdir` does not list, apart.

**Loader and Vmm** (any tables of the boot loader such that a page is mapped to itself by a large entry, mapped page by page, or
absent from the root; programs in pages of the first kind and a stack in pages of the last; segments of a file do not overlap and are nowhere longer in the
file than in memory; any number of levels, files and programs). These are facts about the boot loader and the linker that nothing in
the kernel tests.
The way through the tables is a recursive function of a virtual page (`Path`), and two ways are compared by the
smallest level at which they differ: a table that is linked where none was, or an entry set on the last level, changes the way of
no page but those that go through that very entry.
`VmmInv`: the tables of the stack are pages given out, each in one place, with nothing in them but entries and zeros (`Private`); the boot
loader's tables are as they were but for the root's empty entries (`BootKept`); a running call stands where its page leads. A call for a page of a
program stands, on the last level, in a page of memory and not in a table, and changes nothing but a word there.
`Control`: until the stage "overlap" no page of the running program is given out, so that what the loader writes there reaches no table. `StackInv`: the pages
of the stack that are mapped lead to pages given out that are no tables, each to its own, or to page 0 when none is free
(`Frames`), and the page just taken is nobody's yet (`Fresh`). `IInv` is the conjunction; *TablesPrivate* and *StackPrivate* follow, and
*TranslationStable* because the three kinds of pages are translated through entries that no step but `MapStack`'s call changes.
`JInv` adds the load: the segments before `seg` are in memory (`Loaded`), up to words over which an entry was written; before
that happens the word has been looked at and led nowhere (`LookedUp`), unless the segment is the first, for which nothing is loaded yet. A copy
writes to no cell of an earlier segment. *OverlapWhenUsedUp* counts pages and is only model-checked.

**VFS** (paths are sequences of names, an image is finite and, if not empty, has the root inode; any image, heap, machine and commands).
What a path leads to (`Along`) is a recursive function of its length that goes only through directories, and two ways along
it are compared by the smallest place at which they differ. `PlaceInv` follows a lookup: it stands on a node of the inode to which
the components so far lead, and on nothing where they lead nowhere. What could get in between is a mount pointer, since devfs is
mounted on a node: `Standing` says that a lookup stands only on nodes on which nothing is mounted. The node that carries devfs is a fresh one
that only the lookup of that mount has seen, while every other lookup begins at the root, whose pointer stays NULL, and `finddir` of a disk never returns
an old node. `Grows` says that registering devices adds and links nodes of devfs and changes no node of the disk.
`BootInv` adds what the boot has tried: the paths before `try` are not there, and in the emergency shell none is. A program runs only if
its node can be read, and of what is on a disk only files can. `ListingInv` follows `ls`: at index `i` it has printed the `i` entries
that have fewer than `i` matches before them (`Taken`); one entry at most is at an index (`NextTaken`), and at the first index where there is none
every entry has been printed (`AllTaken`, from the smallest entry that would be left).

`FoundInv` follows the PCI scan (the machine has finitely many functions, no two at one place): the table has each function that lies
behind the question asked next, once, or is full. `TreeInv` follows the registrations: when `j` of them are done, the tree is that of `Tree(j)`,
whose root and folders have the first so many names of `TopNames` and of `Inside`, and the folders are nodes of their
own, made one after the other (`Ordered`), so that what is put into one is in no other. A registration finds its folder because
the names are distinct, or makes it because the name is new. `Keeps` says that no lookup, mount or disk node
changes a name or a child of what is there, and a second `devfs_init` starts again from `Tree(0)` at a new root. A function is in the
folder once because it is in the table once, and all of them are there when as many fit into table and folder.

**Wget.** `IInv` relates the file, what `fwrite` was given, the position in the answer and the header flag in each phase: what was given is
the piece of the answer that ends where reading stopped, and begins at the end of the header or, when that was
missed, later; the file has it unless a write failed.

**JurkStore** (finitely many packages, room for at least one entry).
The properties speak of moments of a call, so `IInv` follows the call: `InstallOK` says, for each label of an installation or
a removal, what is on the disk already if no command failed by itself (the program before the link, the
link before the message, nothing after a removal); `FlagsOK`, that an entry which is not being worked on, and whose name no other entry
has (`Alone`), has the flag the disk gives it; `ScanOK`, that what was scanned
so far is in the catalogue, and that it has as many entries as directories were read, so that none is dropped while
there are no more of them than room. `add_or_update_app` has its own lemmas: it keeps the form of the catalogue, keeps
what is listed, and lists the new name if there is room.

**Shell** (`Paths` are tuples of names closed under prefixes, the mount point is a directory of the root, the tree
is one at the start; any operands). `ShellInv` adds four things to the properties. The disk is a tree: what is there is in a
directory, so that a file or a directory is what its own path leads to and a link has nothing below it. `InScope`: what a running command is going to
change is among what its operands named when it began, although a path may lead elsewhere later; `rm -r` may remove
the very link by which its directory was named, and then nothing has that name any more. `CopyInv`: links
do not change during a copy, and the destination has the first `pos` lines. `MoveInv`: a file that is moved is its own name and the destination is
elsewhere, because otherwise `rename` would have succeeded. The lemmas on `Real` and `Named`
are about paths as sequences (prefixes, the first link on the way); those on `Set` and `Rename` show that a tree stays a tree.

**Pid1.** `IInv` says what each step of the setup has written if none of its writes failed: the
credentials before the marker is created, the marker's name last; and that after it the name in use is the
marker's. Commands leave these files alone and stay among the shell's labels.

**Wifi** (the list holds at least one; an access point without a key sends no element that names an
encryption). `JoinInv`: if the kill came to its end no supplicant runs until the launch, and the configuration is of the network asked for unless it
could not be written. `OffInv`: after a disconnect whose commands came to their ends there is no daemon and no address on the
wireless interface, and no step of a call on it is due. The two theorems on the list share `ListInv`. By `NamesInv` the names that have been
read are those in the list and the one in the current entry, and none is in the list twice (`Once`). A cell has ended when the entry made of
it was put into the list (`Ended`), which happens at the first line of the next cell, or at its own fourth line where its name contains
"Cell"; by `Best` the entry of a name is as strong as every cell of it that has ended, and by `Held` the current
entry describes the cell that is being read. The last cell ends with the text and is the exception of *StrongestIsShown*.
`CellLines` is taken apart once, by `Rows`, into the line at each place.

**Text.** The loops of `tail` and `uniq` are recursive functions over the lines read. That such a function exists is
`Loop`, stated once for a loop of L steps with the step as a function, because the prover has no induction: were some loop not to exist,
there would be a shortest such loop, and the one that is shorter by one goes on. `Holds` is the invariant of the ring: after `k` lines the slot `(m - 1) % n`
has line `m` for the last `n` of them, since fewer than `n` successive numbers have different remainders
(`RemaindersDiffer`). `PrintedOf` is that of `uniq`: it has printed as many lines as there are that differ from the one
before, each at its place, and the last one read is the last one printed. `qsort` is external: it returns some permutation in
order, and `OrderExists` shows that there is one, by the place of each line among the others; so `SortSortsFirst` is
about what `sort` makes of it. The three theorems are about any file, and of `sort` they say what becomes of the first `MAXSORT` pieces. That this is what
`help` says holds when no line is longer than 511 characters and there are at most `MAXSORT`.

Model-checked only: liveness (`ReaderCatchesUp`, `CallsReturn`), which rests on fairness and ENABLED, and
*OverlapWhenUsedUp*. Every other property of a passing run is stated by a theorem.

## 5. Not modelled

- BearSSL (`src/source/bearssl`), a third-party TLS library, is most of the repository's lines;
  wget's use of it is modelled as a stream of bytes that may end anywhere. The shares of source covered are therefore small in
  total and large in the kernel and the userland.
- Output (framebuffer, serial, speaker), encodings (GDT, gates), the device handlers of devfs, `kzalloc`'s
  fill, the string library, and the parts marked `not_modelled` in `PROJECT.json`.
- The order of a plain load and a volatile store in `keyboard_getchar` is the
  source's: the slot is read before the tail moves. On i386 the kernel's own
  image lies in the region that `kernel_main.c:357` makes available; the model starts from that call's
  arguments and knows nothing of link addresses.
- `Vmm` is the x86_64 variant, without the two levels of i386, the flags of entries, and `vmm_unmap_page` and `vmm_switch_pml4`, which nobody calls. What
  the boot loader's tables contain is not in the repository: the model takes any that map low memory to itself as described above.
  `FAT32` leaves out the arithmetic of sectors and `offset + size` beyond 2^32, which no caller asks
  for, and takes the chains of directories to end: on a cycle `readdir` and `finddir` do not return. `Wget` leaves out `parse_url` and the TLS engine, `E1000` the EEPROM.
- `Loader` takes segments that do not overlap and whose file part is not larger than their memory part, as
  linkers write them. Entry addresses are not modelled: a program is entered and returns. `xec_load` is not
  modelled: it maps a flat file at 1 GB, where the boot loader may have mapped memory or not. What happens after a program and a page given out have met is
  not modelled either, nor the pages that drivers take while programs run.
- `Shell` leaves out `ls`, `cat`, `wc`, `grep`, `ps`, `kill` and the commands that only print, and hard links; links do
  not lead to links. `Wifi` leaves out how an interface is recognised, and `status`, `saved` and `help`.

## 6. Plan

1. The framebuffer console: cursor and scrolling as a pure function over a small screen.
2. The i386 paging as a second instance of the levels of `Vmm`.
