-------------------------------- MODULE VFS ----------------------------------
(***************************************************************************)
(* The file systems from boot to the kernel shell: kernel/fs/vfs.c, the    *)
(* node layer that fs/fat32.c and fs/jurkvfs.c share, fs/devfs.c, and the  *)
(* part of kernel_main.c that scans the PCI bus, mounts the file systems,  *)
(* looks for PID 1 and runs the emergency shell.  A path is the sequence   *)
(* of its components.                                                      *)
(*                                                                         *)
(* A node is what kzalloc gave: nodes are numbered in that order and never *)
(* freed, as in the code.  Both disk file systems make a new node each     *)
(* time finddir succeeds, devfs keeps one node per device.                 *)
(***************************************************************************)
EXTENDS PCI, FiniteSets

CONSTANTS Images,      \* disk images: inode |-> [name, parent, dir, length]
          Paths,       \* paths that are typed in the shell
          HeapNodes    \* how many nodes fit in the kernel heap

NULL == 0
RootInode == 0         \* the root inode
Nothing == -1          \* no inode

ASSUME VFSAssumption ==
  /\ HeapNodes \in Nat /\ \A p \in Paths : p \in Seq(ToSet(p))
  /\ \A im \in Images : DOMAIN im \subseteq Nat /\ (DOMAIN im # {} => RootInode \in DOMAIN im)
  /\ \A im \in Images : IsFiniteSet(DOMAIN im)

\* The flags of vfs.h, as sets of bits.
VFS_FILE == {1}
VFS_DIRECTORY == {2}
VFS_CHARDEVICE == {1, 2}
VFS_BLOCKDEVICE == {4}

DirOps == {"readdir", "finddir"}

VARIABLES
  image,                 \* the boot module; the empty function if there is none
  nodes,                 \* the nodes allocated so far
  vfs_root, dev_root,
  root_mounted,
  doing,                 \* what the kernel is doing
  todo,                  \* devfs_init: the registrations left
  caller, want,          \* who called vfs_lookup and with which path
  path, current,         \* its locals
  result,                \* the node it returned
  try,                   \* kernel_main: which path for PID 1
  idx, listing           \* shell_ls, shell_cat: position, names printed

lookup == <<caller, want, path, current, result>>
shell == <<idx, listing>>
vfsvars == <<pci, image, nodes, vfs_root, dev_root, root_mounted, doing, todo, lookup, try, shell>>

Node(fs, name, flags, ops, inode, length) ==
  [fs |-> fs, name |-> name, flags |-> flags, ops |-> ops,
   inode |-> inode, length |-> length, ptr |-> NULL, kids |-> <<>>]

\* kzalloc had room for the nodes that a step creates.
Room == Len(nodes') <= HeapNodes

IsDir(n) == nodes[n].flags \cap VFS_DIRECTORY # {}

VFSInit ==
  /\ image \in Images
  /\ nodes = <<>> /\ vfs_root = NULL /\ dev_root = NULL /\ root_mounted = FALSE
  /\ PciInit
  /\ doing = "pci_scan" /\ todo = <<>>
  /\ caller = "none" /\ want = <<>> /\ path = <<>> /\ current = NULL /\ result = NULL
  /\ try = 1 /\ idx = 0 /\ listing = <<>>

-----------------------------------------------------------------------------
(* vfs_lookup, one component of the path at a time *)

StartLookup(who, p) ==
  /\ doing' = "lookup"
  /\ caller' = who /\ want' = p /\ path' = p
  /\ current' = vfs_root /\ result' = NULL

Answer(n) ==
  /\ doing' = "answer"
  /\ result' = n
  /\ path' = <<>> /\ current' = NULL
  /\ UNCHANGED <<caller, want>>

Children(inode) == {k \in DOMAIN image : image[k].parent = inode /\ k # inode}
Lowest(S) == CHOOSE k \in S : \A l \in S : k <= l

\* The entries named "name" that finddir considers in directory node n.
MatchAnywhere(n, name) == {k \in DOMAIN image : image[k].name = name}
Match(n, name) == {k \in Children(nodes[n].inode) : image[k].name = name}

\* fat32_create_node and jurkvfs_create_vfs_node.
DiskNode(k) ==
  IF image[k].dir THEN Node("disk", image[k].name, VFS_DIRECTORY, DirOps, k, image[k].length)
                  ELSE Node("disk", image[k].name, VFS_FILE, {"read"}, k, image[k].length)

DevChild(ns, n, name) ==
  LET K == {k \in DOMAIN ns[n].kids : ns[ns[n].kids[k]].name = name}
  IN IF K = {} THEN NULL ELSE ns[n].kids[Lowest(K)]

Follow(n) == IF nodes[n].ptr # NULL THEN nodes[n].ptr ELSE n

\* vfs_finddir of node n: the nodes there are afterwards, and the one it found.
Finddir(n, name) ==
  LET K == Match(n, name)
      none == [ns |-> nodes, found |-> NULL]
  IN IF ~(IsDir(n) /\ "finddir" \in nodes[n].ops) THEN none
     ELSE IF nodes[n].fs = "dev" THEN [ns |-> nodes, found |-> DevChild(nodes, n, name)]
     ELSE IF K = {} THEN none
     ELSE [ns |-> Append(nodes, DiskNode(Lowest(K))), found |-> Len(nodes) + 1]

Component == Finddir(Follow(current), Head(path))

LookupStep ==
  /\ doing = "lookup" /\ path # <<>>
  /\ nodes' = Component.ns /\ Room
  /\ IF Component.found = NULL
     THEN Answer(NULL)
     ELSE /\ current' = Component.found
          /\ path' = Tail(path)
          /\ UNCHANGED <<doing, caller, want, result>>
  /\ UNCHANGED <<pci, image, vfs_root, dev_root, root_mounted, todo, try, shell>>

LookupEnd ==
  /\ doing = "lookup" /\ path = <<>>
  /\ Answer(IF want = <<>> THEN vfs_root ELSE Follow(current))
  /\ UNCHANGED <<pci, image, nodes, vfs_root, dev_root, root_mounted, todo, try, shell>>

-----------------------------------------------------------------------------
(* devfs *)

MAX_CHILDREN == 16

DevNode(name, flags, ops) == Node("dev", name, flags, ops \cup DirOps, 0, 0)

\* A full folder drops the child.
AddChild(ns, parent, child) ==
  IF Len(ns[parent].kids) < MAX_CHILDREN
  THEN [ns EXCEPT ![parent].kids = Append(@, child)] ELSE ns

Device(p, flags, ops) == [path |-> p, flags |-> flags, ops |-> ops]

Devices ==
  << Device(<<"null">>, VFS_CHARDEVICE, {"write"}),
     Device(<<"zero">>, VFS_CHARDEVICE, {"read"}),
     Device(<<"urandom">>, VFS_CHARDEVICE, {"read"}),
     Device(<<"console">>, VFS_CHARDEVICE, {"write"}),
     Device(<<"tty">>, VFS_CHARDEVICE, {"read", "write"}),
     Device(<<"ttyS0">>, VFS_CHARDEVICE, {"write"}),
     Device(<<"fb0">>, VFS_CHARDEVICE, {"write"}),
     Device(<<"input", "kbd0">>, VFS_CHARDEVICE, {"read"}),
     Device(<<"net", "eth0">>, VFS_CHARDEVICE, {"read", "write"}),
     Device(<<"disk", "jurk_root">>, VFS_BLOCKDEVICE, {}),
     Device(<<"disk", "sda">>, VFS_BLOCKDEVICE, {}) >>
Registrations ==
  Devices \o [k \in DOMAIN pci_devices |-> Device(<<"pci", pci_devices[k]>>, VFS_CHARDEVICE, {})]

FolderNever(ns, name) == NULL
Folder(ns, name) == DevChild(ns, dev_root, name)

\* devfs_register of r: the nodes there are afterwards.
Registered(r) ==
  LET ofRoot == Len(r.path) = 1
      folder == IF ofRoot THEN dev_root ELSE Folder(nodes, r.path[1])
      ns == IF folder # NULL THEN nodes
            ELSE AddChild(Append(nodes, DevNode(r.path[1], VFS_DIRECTORY, {})),
                          dev_root, Len(nodes) + 1)
      parent == IF folder # NULL THEN folder ELSE Len(ns)
  IN AddChild(Append(ns, DevNode(r.path[Len(r.path)], r.flags, r.ops)), parent, Len(ns) + 1)

devfs_init ==
  /\ doing = "devfs_init"
  /\ nodes' = Append(nodes, DevNode("dev", VFS_DIRECTORY, {})) /\ Room
  /\ dev_root' = Len(nodes')
  /\ todo' = Registrations
  /\ doing' = "register"
  /\ UNCHANGED <<pci, image, vfs_root, root_mounted, lookup, try, shell>>

devfs_register ==
  /\ doing = "register" /\ todo # <<>>
  /\ nodes' = Registered(Head(todo)) /\ Room
  /\ todo' = Tail(todo)
  /\ UNCHANGED <<pci, image, vfs_root, dev_root, root_mounted, doing, lookup, try, shell>>

\* vfs_mount("/dev", dev_root)
MountDev ==
  /\ doing = "register" /\ todo = <<>>
  /\ StartLookup("mount", <<"dev">>)
  /\ UNCHANGED <<pci, image, nodes, vfs_root, dev_root, root_mounted, todo, try, shell>>

DevMounted ==
  /\ doing = "answer" /\ caller = "mount"
  /\ nodes' = IF result = NULL THEN nodes ELSE [nodes EXCEPT ![result].ptr = dev_root]
  /\ doing' = IF root_mounted THEN "init" ELSE "module"
  /\ UNCHANGED <<pci, image, vfs_root, dev_root, root_mounted, todo, lookup, try, shell>>

-----------------------------------------------------------------------------
(* kernel_main *)

pci_scan ==
  /\ doing = "pci_scan"
  /\ IF pci_slot < Slots THEN ScanFunction /\ UNCHANGED doing
                         ELSE doing' = "vfs_init" /\ UNCHANGED pci
  /\ UNCHANGED <<image, nodes, vfs_root, dev_root, root_mounted, todo, lookup, try, shell>>

vfs_init ==
  /\ doing = "vfs_init"
  /\ nodes' = Append(nodes, Node("mem", "/", VFS_DIRECTORY, {}, 0, 0)) /\ Room
  /\ vfs_root' = Len(nodes')
  /\ doing' = "devfs_init"
  /\ UNCHANGED <<pci, image, dev_root, root_mounted, todo, lookup, try, shell>>

\* fat32_init or jurkvfs_init recognises the module: its root is mounted on "/"
\* and devfs is built once more.
MountDisk ==
  /\ doing = "module" /\ DOMAIN image # {}
  /\ nodes' = Append(nodes, DiskNode(RootInode)) /\ Room
  /\ vfs_root' = Len(nodes')
  /\ root_mounted' = TRUE
  /\ doing' = "devfs_init"
  /\ UNCHANGED <<pci, image, dev_root, todo, lookup, try, shell>>

NoDisk ==
  /\ doing = "module" /\ DOMAIN image = {}
  /\ doing' = "init"
  /\ UNCHANGED <<pci, image, nodes, vfs_root, dev_root, root_mounted, todo, lookup, try, shell>>

InitPaths == << <<"sbin", "main">>, <<"bin", "main">>, <<"sbin", "main.jex">> >>

FindInit ==
  /\ doing = "init"
  /\ StartLookup("init", InitPaths[try])
  /\ UNCHANGED <<pci, image, nodes, vfs_root, dev_root, root_mounted, todo, try, shell>>

\* The first path that exists is executed, without any the shell starts.
NextInitAlways == try < Len(InitPaths)
NextInit == result = NULL /\ try < Len(InitPaths)

InitFound ==
  /\ doing = "answer" /\ caller = "init"
  /\ IF NextInit
     THEN try' = try + 1 /\ doing' = "init"
     ELSE doing' = (IF result # NULL THEN "exec" ELSE "shell") /\ UNCHANGED try
  /\ UNCHANGED <<pci, image, nodes, vfs_root, dev_root, root_mounted, todo, lookup, shell>>

\* loader_exec gives up on an empty file and on a file it reads nothing from.
Runnable(n) == nodes[n].length # 0 /\ "read" \in nodes[n].ops

loader_exec ==
  /\ doing = "exec"
  /\ \/ Runnable(result) /\ doing' = "running"
     \/ doing' = "returned"
  /\ UNCHANGED <<pci, image, nodes, vfs_root, dev_root, root_mounted, todo, lookup, try, shell>>

ProgramReturns ==
  /\ doing = "running"
  /\ doing' = "returned"
  /\ UNCHANGED <<pci, image, nodes, vfs_root, dev_root, root_mounted, todo, lookup, try, shell>>

\* kernel_panic_pid1_died when it was PID 1, the prompt when it was a command.
ExecReturned ==
  /\ doing = "returned"
  /\ doing' = IF caller = "init" THEN "panic" ELSE "shell"
  /\ UNCHANGED <<pci, image, nodes, vfs_root, dev_root, root_mounted, todo, lookup, try, shell>>

-----------------------------------------------------------------------------
(* run_shell *)

\* "run" is a command name without a leading slash.
Command(cmd, p) ==
  /\ doing = "shell"
  /\ cmd = "run" => p # <<>>
  /\ StartLookup(cmd, p)
  /\ idx' = 0 /\ listing' = <<>>
  /\ UNCHANGED <<pci, image, nodes, vfs_root, dev_root, root_mounted, todo, try>>

shell_ls ==
  /\ doing = "answer" /\ caller = "ls"
  /\ doing' = IF result # NULL /\ IsDir(result) THEN "list" ELSE "shell"
  /\ UNCHANGED <<pci, image, nodes, vfs_root, dev_root, root_mounted, todo, lookup, try, shell>>

\* The inode that jurkvfs_readdir finds at an index: the one with that many
\* matches before it.
Rank(K, k) == Cardinality({l \in K : l < k})
AtIndex(K, i) == {k \in K : Rank(K, k) = i}

\* The name that vfs_readdir returns at index i, if any.
Readdir(n, i) ==
  IF ~(IsDir(n) /\ "readdir" \in nodes[n].ops) THEN {}
  ELSE IF nodes[n].fs = "dev" THEN {nodes[nodes[n].kids[k]].name : k \in DOMAIN nodes[n].kids \cap {i + 1}}
  ELSE {image[k].name : k \in AtIndex(Children(nodes[n].inode), i)}

ListFromOne == idx + 1
ListNext == idx

ListEntry ==
  /\ doing = "list"
  /\ \/ /\ \E name \in Readdir(result, ListNext) : listing' = Append(listing, name)
        /\ idx' = idx + 1
        /\ UNCHANGED doing
     \/ Readdir(result, ListNext) = {} /\ doing' = "shell" /\ UNCHANGED shell
  /\ UNCHANGED <<pci, image, nodes, vfs_root, dev_root, root_mounted, todo, lookup, try>>

shell_cat ==
  /\ doing = "answer" /\ caller = "cat"
  /\ doing' = IF result # NULL /\ ~IsDir(result) THEN "cat" ELSE "shell"
  /\ UNCHANGED <<pci, image, nodes, vfs_root, dev_root, root_mounted, todo, lookup, try, shell>>

CatAdvances == idx' = idx + 1

CatBuffer ==
  /\ doing = "cat"
  /\ IF "read" \in nodes[result].ops /\ idx < nodes[result].length
     THEN CatAdvances /\ UNCHANGED doing
     ELSE doing' = "shell" /\ UNCHANGED idx
  /\ UNCHANGED <<pci, image, nodes, vfs_root, dev_root, root_mounted, todo, lookup, try, listing>>

ShellExec ==
  /\ doing = "answer" /\ caller \in {"exec", "bin"}
  /\ doing' = IF result # NULL THEN "exec" ELSE "shell"
  /\ UNCHANGED <<pci, image, nodes, vfs_root, dev_root, root_mounted, todo, lookup, try, shell>>

\* A name that is not found is looked up once more in /bin.
ShellRun ==
  /\ doing = "answer" /\ caller = "run"
  /\ IF result = NULL THEN StartLookup("bin", <<"bin">> \o want)
                      ELSE doing' = "exec" /\ UNCHANGED lookup
  /\ UNCHANGED <<pci, image, nodes, vfs_root, dev_root, root_mounted, todo, try, shell>>

-----------------------------------------------------------------------------
Boot == pci_scan \/ vfs_init \/ devfs_init \/ devfs_register \/ MountDev \/ DevMounted
        \/ MountDisk \/ NoDisk \/ FindInit \/ InitFound
Exec == loader_exec \/ ExecReturned
Shell == shell_ls \/ ListEntry \/ shell_cat \/ CatBuffer \/ ShellExec \/ ShellRun
Kernel == Boot \/ LookupStep \/ LookupEnd \/ Exec \/ Shell

Typed == \E p \in Paths, cmd \in {"ls", "cat", "exec", "run"} : Command(cmd, p)

\* How many nodes the next step of the kernel asks kzalloc for.
Creates ==
  CASE doing \in {"vfs_init", "devfs_init"} -> 1
    [] doing = "module" /\ DOMAIN image # {} -> 1
    [] doing = "register" /\ todo # <<>> -> Len(Registered(Head(todo))) - Len(nodes)
    [] doing = "lookup" /\ path # <<>> -> Len(Component.ns) - Len(nodes)
    [] OTHER -> 0

\* No caller of kzalloc tests for NULL: the write to address 0 faults and
\* isr_handler stops the machine.
Fault ==
  /\ doing # "panic" /\ Len(nodes) + Creates > HeapNodes
  /\ doing' = "panic"
  /\ UNCHANGED <<pci, image, nodes, vfs_root, dev_root, root_mounted, todo, lookup, try, shell>>

VFSNext == Kernel \/ ProgramReturns \/ Typed \/ Fault

VFSSpec == VFSInit /\ [][VFSNext]_vfsvars

-----------------------------------------------------------------------------
(* Properties *)

\* What a path means: the inode that the disk image has there.  A path goes
\* through directories.
Step(k, name) ==
  LET K == IF k = Nothing \/ ~image[k].dir THEN {} ELSE {c \in Children(k) : image[c].name = name}
  IN IF K = {} THEN Nothing ELSE Lowest(K)
Along(p) == LET at[k \in Nat] == IF k = 0 THEN RootInode ELSE Step(at[k - 1], p[k]) IN at
Resolve(p) == Along(p)[Len(p)]

\* Where devfs is said to be mounted.  It is not there: vfs_mount sets the pointer
\* of a node that no later lookup returns (vfs.c:105), so that /dev is NULL, or
\* the disk's own directory of that name.  No property is about these paths.
InDev(p) == p # <<>> /\ p[1] = "dev"

\* Whatever has been looked up, listed or mounted before, vfs_lookup answers
\* with the file the disk has at that path, and with NULL where it has none:
\* the nodes of earlier lookups and both trees of devfs never get in between
\* (vfs.c:53-88).
LookupMatchesDisk ==
  doing = "answer" /\ root_mounted /\ ~InDev(want) =>
    IF result = NULL THEN Resolve(want) = Nothing
    ELSE nodes[result].fs = "disk" /\ nodes[result].inode = Resolve(want)

\* PID 1 is the first of the three paths that the disk has, and the emergency
\* shell runs only when it has none of them.  What runs is a regular file of the
\* disk, although nobody looks at the node's type before executing it.
Present(t) == DOMAIN image # {} /\ Resolve(InitPaths[t]) # Nothing
InitChoice ==
  /\ doing \in {"exec", "running"} /\ caller = "init" =>
       /\ nodes[result].inode = Resolve(InitPaths[try])
       /\ \A t \in DOMAIN InitPaths : t < try => ~Present(t)
  /\ doing = "shell" => \A t \in DOMAIN InitPaths : ~Present(t)
  /\ doing = "running" => nodes[result].flags = VFS_FILE

\* Once devfs_init is through, the tree has each device once, under its folder,
\* also after it has been built a second time, and its pci folder has exactly
\* the functions the machine has, each once, if they fit into the table and into
\* the folder.
DevTreeBuilt == dev_root # NULL /\ todo = <<>> /\ doing \notin {"devfs_init", "register"}
NamedIn(n, name) == {k \in DOMAIN nodes[n].kids : nodes[nodes[n].kids[k]].name = name}
Reaches(n, p) ==
  /\ Cardinality(NamedIn(n, Head(p))) = 1
  /\ Len(p) = 2 => Cardinality(NamedIn(DevChild(nodes, n, Head(p)), p[2])) = 1
Installed ==
  {n \in DOMAIN PciFunctions : \E m \in DOMAIN PciFunctions :
     /\ PciFunctions[m].slot = PciFunctions[n].slot /\ PciFunctions[m].func = 0
     /\ m = n \/ PciFunctions[m].multi}
DevTreeComplete ==
  DevTreeBuilt =>
    /\ \A k \in DOMAIN Devices : Reaches(dev_root, Devices[k].path)
    /\ Cardinality(Installed) <= MAX_PCI_DEVICES /\ Cardinality(Installed) <= MAX_CHILDREN =>
         /\ \A n \in Installed : Reaches(dev_root, <<"pci", n>>)
         /\ Installed # {} => Len(nodes[DevChild(nodes, dev_root, "pci")].kids) = Cardinality(Installed)

\* "ls" prints each entry of a directory of the disk once: the names that are
\* there, and as many of them.
Names(K) == {image[k].name : k \in K}
ListsDirectory ==
  doing = "shell" /\ caller = "ls" /\ root_mounted /\ ~InDev(want) /\ result # NULL /\ IsDir(result) =>
    LET K == Children(nodes[result].inode) IN ToSet(listing) = Names(K) /\ Len(listing) = Cardinality(K)
==============================================================================
