-------------------------------- MODULE Files --------------------------------
(***************************************************************************)
(* The file commands of src/shell.c over src/vfs.c, the working directory  *)
(* of each process, and the users.  A path is the sequence of its names,   *)
(* absolute or not; "/" is the empty absolute path.  The shell's thread    *)
(* runs each command as whatever process is current, and the timer changes *)
(* that between any two steps.  Memory is counted in blocks of kmalloc.    *)
(***************************************************************************)
EXTENDS Integers, FiniteSets, Sequences, Functions

CONSTANTS
  FileProcs,            \* processes
  Paths,                \* arguments of commands: [abs, names]
  MAX_MOUNTS,           \* 16 in the kernel
  PWD_MAX,              \* most names that fit into pwd
  MemoryBlocks,         \* blocks the heap has left for files
  MaxCommands           \* bound

Nobody == "nobody"      \* current_process = NULL

ASSUME FilesAssumption ==
  Nobody \notin FileProcs /\ MAX_MOUNTS \in Nat \ {0} /\ MemoryBlocks \in Nat

Root == "/"
RootPath == [abs |-> TRUE, names |-> <<>>]
Devices == {"ext2", "blank", "unknown"}       \* a disk with ext2, one without, a bad name
Accounts == [root |-> 0, guest |-> 1]         \* users[]; the password is the name

VARIABLES
  at,                   \* place of the thread in a command
  cmd,                  \* the path a cd works with
  current_process,      \* process_get_current
  pwd, uid,             \* of each process
  current_uid,          \* of the shell
  mounts,               \* mount table, oldest first
  memory,               \* free blocks
  output,               \* what the last command printed: its kind, then the data
  balance,              \* history: mounts minus unmounts of each path
  caller,               \* history: who was current when the command began
  raced,                \* history: a switch came inside a command
  commands

fvars == <<at, cmd, current_process, pwd, uid, current_uid, mounts, memory, output, balance,
           caller, raced, commands>>

-----------------------------------------------------------------------------
\* vfs_create_base_dirs: each new node is put first.
Children ==
  [d \in {Root, "home", "tmp", "dev"} |->
     IF d = Root THEN <<"readme.txt", "home", "tmp", "dev">> ELSE <<>>]
Directories == DOMAIN Children

\* vfs_virtual_finddir; a file has no finddir.
vfs_virtual_finddir(node, name) ==
  IF node \in Directories /\ name \in Range(Children[node]) THEN name ELSE "none"

\* Name by name from the root.  The mount table is not asked.
vfs_resolve_path(names) ==
  LET reached[n \in 0..Len(names)] ==
        IF n = 0 THEN Root ELSE vfs_virtual_finddir(reached[n - 1], names[n])
  IN  reached[Len(names)]

Full(base, path) == IF path.abs THEN path.names ELSE base \o path.names

\* pwd of the current process, or "/".
CurrentPwd == IF current_process = Nobody THEN <<>> ELSE pwd[current_process]

resolve_path_from_pwd(path) == vfs_resolve_path(Full(CurrentPwd, path))

\* kmain has mounted the first disk if it has ext2, and made the shell's process if it could.
FilesInit ==
  /\ at = "idle" /\ cmd = <<>>
  /\ current_process \in FileProcs \union {Nobody}
  /\ pwd = [p \in FileProcs |-> <<>>]
  /\ uid = [p \in FileProcs |-> 0]
  /\ current_uid = 0
  /\ mounts \in {<<>>, <<RootPath>>}
  /\ balance = [p \in Paths |-> IF p \in Range(mounts) THEN 1 ELSE 0]
  /\ memory = MemoryBlocks
  /\ output = <<>>
  /\ caller = current_process /\ raced = FALSE /\ commands = 0

\* A command begins.
Begin ==
  /\ at = "idle"
  /\ commands < MaxCommands /\ commands' = commands + 1
  /\ caller' = current_process
  /\ UNCHANGED <<current_process, pwd, uid, raced>>

\* It prints no data and leaves the disks alone.
NoOutput == output' = <<>> /\ UNCHANGED <<mounts, memory, balance>>

\* What the later steps of a command leave alone.
Rest ==
  UNCHANGED <<current_process, current_uid, mounts, memory, output, balance, caller, raced, commands>>

\* The timer: process_schedule makes another process current.
process_schedule ==
  /\ \E p \in FileProcs \ {current_process} : current_process' = p
  /\ raced' = (raced \/ at # "idle")
  /\ UNCHANGED <<at, cmd, pwd, uid, current_uid, mounts, memory, output, balance, caller, commands>>

\* cd: resolve, ...
cmd_cd(path) ==
  /\ Begin /\ NoOutput /\ UNCHANGED current_uid
  /\ IF resolve_path_from_pwd(path) \in Directories
     THEN at' = "build" /\ cmd' = path
     ELSE UNCHANGED <<at, cmd>>

\* ... build the full path from the pwd of whoever is current now, ...
cd_build ==
  /\ at = "build" /\ at' = "set"
  /\ cmd' = Full(CurrentPwd, cmd)
  /\ Rest /\ UNCHANGED <<pwd, uid>>

\* ... and set it as the pwd of whoever is current then (process_set_pwd).
cd_set ==
  /\ at = "set" /\ at' = "idle"
  /\ pwd' = IF current_process = Nobody \/ Len(cmd) > PWD_MAX THEN pwd
            ELSE [pwd EXCEPT ![current_process] = cmd]
  /\ cmd' = <<>>
  /\ Rest /\ UNCHANGED uid

\* Mutated form: the children from index 1 on.
readdir_skips(dir) == IF Children[dir] = <<>> THEN <<>> ELSE Tail(Children[dir])

\* vfs_virtual_readdir for index 0, 1, ... until it returns NULL: a copy of each child, as
\* many as there is memory for.
vfs_virtual_readdir(dir) ==
  SubSeq(Children[dir], 1, IF memory < Len(Children[dir]) THEN memory ELSE Len(Children[dir]))

\* ls: the copies are printed and never freed.
cmd_ls(dir) ==
  /\ Begin /\ UNCHANGED <<at, cmd, current_uid, mounts, balance>>
  /\ IF dir \in Directories
     THEN LET shown == vfs_virtual_readdir(dir)
          IN  output' = <<"ls", dir, shown>> /\ memory' = memory - Len(shown)
     ELSE output' = <<>> /\ UNCHANGED memory

\* cat: a buffer as large as the file is taken for the call.
cmd_cat(path) ==
  /\ Begin /\ UNCHANGED <<at, cmd, current_uid, mounts, memory, balance>>
  /\ LET file == resolve_path_from_pwd(path) IN
     output' = IF file \in Directories \union {"none"} \/ memory = 0 THEN <<>>
               ELSE <<"cat", file>>

cmd_pwd ==
  /\ Begin /\ UNCHANGED <<at, cmd, current_uid, mounts, memory, balance>>
  /\ output' = <<"pwd", CurrentPwd>>

cmd_whoami ==
  /\ Begin /\ UNCHANGED <<at, cmd, current_uid, mounts, memory, balance>>
  /\ output' = <<"whoami", current_uid>>

\* A node for the root inode, which is read through a further block.  With the two blocks
\* the caller has taken, three are gone.
vfs_mount(path) ==
  /\ memory >= 3 /\ Len(mounts) < MAX_MOUNTS
  /\ mounts' = Append(mounts, path)
  /\ balance' = [balance EXCEPT ![path] = @ + 1]
  /\ memory' = memory - 3

\* mount: fs and its descriptors are allocated first.  If vfs_mount fails, only fs is freed.
cmd_mount(device, path) ==
  /\ Begin /\ output' = <<>> /\ UNCHANGED <<at, cmd, current_uid>>
  /\ \/ /\ device # "ext2" \/ memory < 2              \* no device, ext2_init fails, no memory
        /\ UNCHANGED <<mounts, memory, balance>>
     \/ /\ device = "ext2" /\ memory >= 2
        /\ Len(mounts) >= MAX_MOUNTS \/ memory < 3
        /\ memory' = memory - 1 /\ UNCHANGED <<mounts, balance>>
     \/ device = "ext2" /\ vfs_mount(path)

\* Mutated form: the last entry goes.
unmount_last(k) == SubSeq(mounts, 1, Len(mounts) - 1)

\* Entry k goes and those behind it move down.
unmount_shift(k) == SubSeq(mounts, 1, k - 1) \o SubSeq(mounts, k + 1, Len(mounts))

\* umount: the first entry with this path; only its node is freed.
cmd_umount(path) ==
  /\ Begin /\ output' = <<>> /\ UNCHANGED <<at, cmd, current_uid>>
  /\ LET found == {k \in DOMAIN mounts : mounts[k] = path} IN
     IF found = {} \/ path = RootPath THEN UNCHANGED <<mounts, memory, balance>>
     ELSE /\ mounts' = unmount_shift(CHOOSE k \in found : \A j \in found : k <= j)
          /\ balance' = [balance EXCEPT ![path] = @ - 1]
          /\ memory' = memory + 1

\* login: the shell's uid, a message, ...
cmd_login(name, password) ==
  /\ Begin /\ NoOutput /\ UNCHANGED cmd
  /\ IF name \in DOMAIN Accounts /\ password = name
     THEN current_uid' = Accounts[name] /\ at' = "update"
     ELSE UNCHANGED <<current_uid, at>>

\* Mutated form: the shell keeps the new uid to itself.
login_update_missing ==
  /\ at = "update" /\ at' = "idle"
  /\ Rest /\ UNCHANGED <<cmd, pwd, uid>>

\* ... then the uid of whoever is current.
login_update ==
  /\ at = "update" /\ at' = "idle"
  /\ uid' = IF current_process = Nobody THEN uid
            ELSE [uid EXCEPT ![current_process] = current_uid]
  /\ Rest /\ UNCHANGED <<cmd, pwd>>

FilesNext ==
  \/ process_schedule
  \/ \E path \in Paths : cmd_cd(path) \/ cmd_umount(path) \/ cmd_cat(path)
  \/ \E path \in Paths : cmd_ls(resolve_path_from_pwd(path))
  \/ cmd_ls(vfs_resolve_path(CurrentPwd))
  \/ cd_build \/ cd_set
  \/ cmd_pwd \/ cmd_whoami
  \/ \E device \in Devices, path \in Paths : cmd_mount(device, path)
  \/ \E name \in DOMAIN Accounts \union {"stranger"}, password \in DOMAIN Accounts :
       cmd_login(name, password)
  \/ login_update

FilesSpec == FilesInit /\ [][FilesNext]_fvars

-----------------------------------------------------------------------------
\* Unless a switch came inside it, a command acts on the process that was current when
\* it began and on no other: cd takes it to the directory that its argument named there,
\* login gives it the uid that whoami shows.
ActsOnCaller ==
  [][~raced /\ at # "idle" /\ at' # at /\ caller # Nobody =>
       /\ \A p \in FileProcs \ {caller} : pwd'[p] = pwd[p] /\ uid'[p] = uid[p]
       /\ at = "build" => vfs_resolve_path(cmd') = vfs_resolve_path(Full(pwd[caller], cmd))
       /\ at = "set" => pwd'[caller] = cmd \/ Len(cmd) > PWD_MAX
       /\ at = "update" => uid'[caller] = current_uid]_fvars

\* ls shows every entry of its directory unless the heap has no block left, although it
\* never gives back the copies that vfs_readdir made.
ListingComplete ==
  output # <<>> /\ output[1] = "ls" => output[3] = Children[output[2]] \/ memory = 0

\* The table holds each path as often as it was mounted and not unmounted since, whatever
\* the order of mount and umount, and never more than MAX_MOUNTS entries.
MountsExact ==
  /\ Len(mounts) <= MAX_MOUNTS
  /\ \A p \in Paths : Cardinality({k \in DOMAIN mounts : mounts[k] = p}) = balance[p]

\* KFS6_TESTING.md mounts a disk on /mnt and lists it there: a path on which a disk is
\* mounted resolves.
MountedPathsResolve ==
  \A k \in DOMAIN mounts : vfs_resolve_path(mounts[k].names) # "none"
=============================================================================
