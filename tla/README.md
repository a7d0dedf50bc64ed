# A TLA+ model of the KFS kernel

KFS is a small 32-bit x86 kernel in C: one CPU, a shell that runs in the kernel,
interrupts, a heap, a table of processes. These modules model its parts, TLC
checks them on small instances and TLAPS proves the main results for every
instance. Paths below are relative to the repository (`src/kmalloc.c`).

## The system

**How it runs.** After `kmain` there is one kernel thread, the shell, with
interrupts on. The timer interrupts it 100 times a second; every tenth tick
`process_schedule` picks the next READY process. The kernel saves and restores no
registers there: `current_process` and CR3 change, and the shell's code goes on
where it was. Interrupt handlers and system calls (`int 0x80`, an interrupt gate)
run with interrupts off, so each is one step; a shell command is many steps and the
timer may come between any two of them. That is where most of the hard behaviour is.

| Part | State | Operations | Modules |
| --- | --- | --- | --- |
| Kernel heap, `kmalloc.c` | block list in the arena, counters | kmalloc, kmalloc_aligned, kfree | Heap, HeapLoops, HeapInterrupts, Allocator, HeapProofs |
| Process table and scheduler, `process.c`, `timer.c` | 256 PCBs, links of parent and children, current_process, CR3 | create, fork, exit, wait, schedule, switch | Process, ProcessProofs, ProcessTreeProofs |
| Process signals, `process.c` | a list of entries per process | send, process, sys_kill | ProcessSignals, SignalProofs |
| Virtual allocator, `vmalloc.c` | list of virtual blocks | vmalloc, vfree | Vmalloc, PagePool, Memory, MemoryProofs |
| Paging and mappings, `paging.c`, `process.c` | page tables, heap_end | mmap, munmap, brk, clone | AddressSpace, PagePool, Memory, MemoryProofs (directories: Process) |
| Keyboard, PIC, IDT, shell input | ring, modifiers, masks, handler table, line | IRQ handlers, getchar, login and line loops | KeyRing, KeyQueue, Console, ShellProofs |
| Screens, `screen.c`, `vga.c` | video memory, four saved screens, cursor | put, scroll, clear, switch | Screens, SignalProofs |
| System calls and sockets, `syscall.c`, `socket.c` | table of handlers, table of sockets | dispatch, the socket calls | Syscalls, Sockets, ShellProofs |
| Kernel signals, `signal.c` | pending bits, actions | register, raise, send, the walk | KernelSignals, SignalProofs |
| Files and users, `vfs.c`, `shell.c` | tree, mount table, working directories, uids | cd, pwd, ls, cat, mount, umount, login, whoami | Files, ShellProofs |
| ext2, `ext2.c` | inode tables, blocks | read data, walk directories, read and write inodes | Ext2Data, Ext2Dir, Ext2Inodes, DiskProofs, ShellProofs |
| IDE, `ide.c` | registers of one channel, two drives | identify, read, write, flush | Ide, DiskProofs |

`PROJECT.json` lists every part, the hazards of the code with their lines, and the
line range each definition models.

## Modules

**Heap** models `kmalloc.c`. `heap` maps the address of each listed block to its
header (size, is_free, next); `owned` is what the callers hold. The actions are
`kmalloc`, `kmalloc_aligned`, `kfree` and, for careless callers, `kfree_again`.
A call is one step. `find_free_block` and `merge_free_blocks` are closed forms;
**HeapLoops** has the loops themselves, pointer by pointer, and `LoopsAgree` says
that the two agree in every reachable heap. The magic number is not kept: a header is
valid when a block of the list starts there, and where none does kfree may panic or
may read what is left of a merged block.

**Allocator** is what an allocator promises: pieces of the arena that never overlap.
`RefinesAllocator` says that Heap implements it, with `live` mapped to the pointers
and sizes in `owned`.

**HeapInterrupts** drops the assumption that a call is one step. kmalloc and kfree run
in the shell's thread one header write at a time (`pc` is the place), and the timer,
through `process_switch` and `process_signal_process`, runs a whole kfree between any
two of them; nothing locks the list. This can break it. The history variable `torn`
says where: the interrupt has merged away the block the thread holds, or changed the
header it is about to overwrite, at one of the places `TornBy` lists. Everywhere else
the two calls together are correct, which is what the properties say; the list of
places is tight, a property fails when any one is taken out of it.

**Process** models the process table, fork, exit, wait and the scheduler, with the
timer. `call` is the place of the shell's thread inside `process_create`,
`process_fork` or `process_exit`; each place is one where the timer may find it and
see something different. `process_fork` is cut where it matters: the memcpy writes
pid and state first, then the rest; then the links; then the clone; then the stack.
A page directory is the pid of its process. `FailSites` names the allocations that
may fail. `paging_destroy_directory` gives a pointer of kmalloc_aligned to kfree, so
it may panic or free nothing (see Heap). Nothing in the kernel runs a process's entry
point, the only caller of `process_exit`; `ExitSpec` adds exits as that function
makes them, `Spec` is the kernel without them. The stacks, sections and signal
handlers of a process are left out; BLOCKED is a state no code sets.

**ProcessSignals** models the signal queues: entries in kmalloc's memory whose
contents outlive kfree, `sys_kill`, the timer that drains the queue of the process
it switches to, and `cmd_psignal`, which drains one with interrupts on, in three
steps. Which READY process is switched to is Process's subject and left open here.
The processes are those `process_create` makes, each with a queue of its own.

**PagePool** is the heap as users of whole pages see it: pointers that come after a
header, so seldom page aligned. **Vmalloc** is the list of virtual blocks with the
wrong size its split gives the remainder, kept as the code has it. **AddressSpace**
has the page tables (two levels as one function) with mmap, its roll-back, munmap, brk
and fork's clone: as system calls in one step each, and as `cmd_mmap` page by page with
the timer between. The history variable `misplaced` holds the processes whose roll-back
ran while another directory was loaded, and the children forked from them, which inherit
the pages it left. **Memory** composes the two on one heap, as `cmd_memtest` and the
system calls share it.

**KeyRing** is the ring of `keyboard.c`, **KeyQueue** the bounded queue it implements.
**Console** extends KeyRing with the keyboard controller and the PICs (external), the
dispatch of IRQ0 and IRQ1, modifiers, masking of the line, and the thread that logs in,
polls the ring, edits its line and halts. The thread begins after `idt_init`, or after
a login.

**Screens** runs `vga_putchar`, scrolling and the switch of screens write by write; the
message `process_schedule` prints in the timer comes between any two. A cell holds the
number of the screen on which it was printed, not a character.

**Sockets**, **Syscalls**: each socket call is one step behind `int 0x80`. **Files**
keeps the tree, the mount table and each process's directory and uid; a command of the
shell is several steps, each reading `current_process` anew. **KernelSignals** has a
handler that raises signals in the middle of the walk. **Ide** is the polling driver,
register access by register access, against two external drives that answer when they
like, late, with an error, or never. **Ext2Data**, **Ext2Dir**, **Ext2Inodes** are
pure: the loops of reading a file, of walking a directory in its three uses, and the
arithmetic that finds an inode, each against what they should compute.

**MCHeap**, **MCProcess**, **MCSignals**, **MCMemory**, **MCConsole**, **MCFiles** and
**MCDevices** are what TLC runs. MCDevices puts nine parts that share no state side by
side: in a behaviour one of them moves and the others rest, so their states add up.

## What TLC checks

| Run | Shows |
| --- | --- |
| heap | tiling, merging, disjoint live memory, loops = closed forms, statistics balance, Heap implements Allocator |
| process | with exits and waits, no failed allocation: exact children lists on reused slots, current_process always in use, zombies stay, every READY process runs |
| process_failures | without exits, every allocation failing anywhere: one running process, distinct pids and directories |
| signals | every signal handled once, none lost or leaked, all handled eventually |
| memory | frames never shared, nothing mapped that was freed, nothing mapped above the break after a failed or lowered call (but for a roll-back in the wrong directory, and what is forked from it); vmalloc's statistics and ownership, and disjoint blocks up to the first vfree |
| console | the ring is a queue, the line is what was typed, every key is taken (which fails when a handler does not acknowledge, or a byte is left that nobody reads) |
| devices | one line per part below |

The parts of *devices*:

| Part | Properties |
| --- | --- |
| heap under interrupts | `LiveUnlessTorn`, `TilesUnlessTorn`: live memory apart and the list whole wherever the timer's kfree comes, but for `TornBy` |
| screens | `CursorBounded` at every interruption; `ReturnsAsLeft` unless a message comes inside a switch |
| system calls, sockets | `NeverOpened`: see below |
| kernel signals | `RaiseNotLost`: also for a handler that raises its own signal |
| files | `ActsOnCaller` unless the timer switched inside the command; `ListingComplete`, `MountsExact` |
| disk | `ReadExact` and `WriteStored` unless an earlier wait timed out |
| ext2 | `DataExact`, `LookupsAgree`, `ReaddirEnumerates`, `InodesApart` |

Five runs state what a comment or a document of the repository says and the code does
not do; each has a finding in `PROJECT.json`:

| Run | The code |
| --- | --- |
| heap_aligned_free | kfree of a kmalloc_aligned pointer panics |
| process_children | a failed fork makes the list of children endless |
| signals_shell | a signal is handled twice when shell and timer drain one queue |
| disk_ready | with no slave drive, the wait for a ready master reads the status of nothing and every transfer fails |
| files_mounted | no path leads into a mounted file system |

### Also visible, without a run of its own

Heap and processes:

* a second kfree after reuse frees the new owner's block (`kmalloc.c:161`); kfree counts
  slack that kmalloc did not, so "Currently used" may fall below what callers hold
  (`StatsBalance` bounds by how much);
* a child chosen before its directory is cloned runs in its parent's address space
  (`process.c:165`, `625`); exit frees the directory in CR3 (`process.c:199`);
* the timer may choose the child inside fork's memcpy, and fork then makes whatever is
  current READY; a failed create may leave current_process on an UNUSED slot;
* parent and child share the signal queue after fork (`process.c:152`); signals are
  handled last in, first out; children of an exited process get a NULL parent;
* sys_kill returns 0 also when no entry could be allocated (`process.c:390`); brk has no lower bound (`process.c:512`); clone and mmap fill the page at kmalloc's
  pointer, while the entry maps the frame that begins below it (`paging.c:261`,
  `process.c:443`);
* vmalloc's remainder gets the size of the whole space less the request
  (`vmalloc.c:119`), so that blocks overlap after a vfree.

Console, files, disk:

* a message inside a switch mixes two of the "4 independent screens" (`README.md:152`);
* a new socket is CLOSED and every call looks for one that is not, so bind, connect and
  all the rest fail (`socket.c:98`); this is what `NeverOpened` says;
* cd and login act on the process that is current at each of their steps
  (`shell.c:869`, `880`, `1133`); ls, mount and umount keep memory they could free;
* a drive that answers after the driver's time-out gives the next call wrong sectors
  with result 0 (`ide.c:28`); an error of the last written sector is not looked at
  (`ide.c:234`);
* ext2: the block of the group descriptors has its two cases exchanged (`ext2.c:59`),
  their buffer may be shorter than the blocks read into it (66, 74), the number of
  groups ignores first_data_block (48); double indirect blocks, named at line 189, read
  as zeros; a read that starts inside a hole skips too much (224), and a block that
  cannot be read is left out, so the bytes behind it move up (230); readdir uses an
  entry after its buffer is freed (`vfs.c:72`).

**Bounds.** The heap has 192 bytes, twelve headers: room for several blocks, requests that
split, that leave slack, that do not fit, and up to four allocations, so that every
pattern of a free block between two others occurs. With interrupts it has ten units of
a header, five blocks, and requests that split, fit exactly or fail. The process table
has three slots with five pids (six with failures): enough to fill the table, reuse a
slot twice and fork from a reused slot. Signals: three processes and three signals.
Memory: five pages for three processes, so that it runs out in every call, mmaps of one
and of two pages, four vmallocs; the two processes that are not the shell are
symmetric. Console: a ring of three (two keys wait, the third is dropped), a line of
three characters, four keys, one masking. Screens: two of two by two cells, so that
every second character scrolls; five calls, two messages. Disk: two sectors, two polls
before a time-out, two transfers. ext2: two direct and two indirect blocks and one
beyond, four shapes of superblock with short last groups and inodes that do not fill a
block. Every bound is a CONSTANT named in its module. Under these bounds TLC's coverage
finds every branch of the modules in *memory*, *console* and *devices* taken, but for what
the socket calls do with an open socket, which the code cannot reach (`NeverOpened`), and
vfree of an address that is not in the list.

**Deadlock** is checked in *console*: the thread is never stuck. In the others a panic
or an endless walk stops the machine, or a behaviour ends when its bound is used up.

**Fairness.** `Process!FairSpec` has weak fairness of the timer interrupt: the PIT
raises it at a fixed rate and the thread runs with interrupts on, apart from short
handlers. The thread itself gets none. `ReadyRuns` excepts a machine that has stopped:
the release of a directory at exit may panic. `ProcessSignals!FairSpec` has weak fairness of
the switch to each process, which is what `ReadyRuns` shows of the round robin.
It is given where at least two processes exist: with one alone `process_schedule`
never switches and its signals stay queued. `Console!FairSpec` has weak fairness of the
thread (the CPU runs between two interrupts) and of the PIT, and strong fairness of each
interrupt, which the PIC holds pending while the line is masked or IF is clear. The user
gets none: keys need not be pressed.

## What is proved

For every value of the constants, under the named assumptions `HeapAssumption`
(a non-empty arena, natural sizes far from 2^32), `ProcessAssumption` (at least
one slot), `SignalsAssumption`, `PagePoolAssumption` (finitely many blocks of a page, at
least one, more than a page apart), `AddressSpaceAssumption` (at least four pages below
the stack), `VmallocAssumption` (a region that does not start at 0 and
is not empty), `KeyRingAssumption` (a ring of at least one place), `SocketsAssumption`,
`FilesAssumption` (a mount table with a place), `IdeAssumption` (sectors numbered from 0
without a gap), `DirAssumption`, `DataAssumption` (blocks that are not empty), `ScreensAssumption` (a screen
with a cell, whose width the tab stop divides) and
`InodesAssumption` (superblocks as mkfs makes them, `MadeByMkfs`: inodes that fit their
block and groups whose tables fit them):

* `HeapTypeCorrect`, `HeapTiling`, `HeapNoAdjacentFree`, also for callers that free
  twice. The three are inductive only together (`ListInv`): merging is right because
  the list tiles, the closed form of merge because no two free neighbours existed.
* `HeapOwners`, `HeapLiveMemorySafe`, for callers that free once. Live memory is
  disjoint because each owner has an allocated block to itself (`OwnersHoldBlocks`):
  `HeapInv == ListInv /\ OwnersHoldBlocks` is inductive.
* `HeapRefinesAllocator`: an allocation maps to `Give`, a free to `TakeBack`, all else
  stutters.
* `ProcessTypeCorrect`, `ProcessRunningIsCurrent`, `ProcessUniquePids`,
  `ProcessOwnDirectory`, with exits, any failures and the timer anywhere. `ProcInv`
  adds: the thread holds valid slots inside a call (`CallOK`); issued pids lie below
  next_pid (`PidsIssued`), which makes a new one fresh; a directory belongs to its
  pid except while fork has not cloned it (`DirectoryByPid`); the shell's process is
  alone while it is made (`BootAlone`), which makes `process_set_current` safe.
* `ProcessZombieStays`, the action property, from `ProcInv`: each action is one of the
  steps that `Unrevived` allows.
* `ProcessChildrenTree`, `ProcessCurrentInUse`, with exits and the timer anywhere, when no
  allocation fails (`FailSites = {}`; with failures the first is false, as the run
  process_children shows). `Tree(t, M, A)` says of a table that the processes M hang in
  lists below the processes A: `Kids` gives each list as a sequence of slots without
  repetition that `next_sibling` links. `TreeKept`, `TreeAdopted`, `TreeOrphaned` and
  `TreeReaped` are the four things calls do to such a tree. A list is walked by
  `ListAt`, a recursive function; `ChainIs` shows by induction that the walk finds the
  sequence, and a pigeonhole argument that it is no longer than the table. One case needs
  more: a process that has ended stays current until the next tick, and may still call
  fork and wait with a list of children that exit did not clear. `Ghostly` says why that
  does no harm: the slots on the stale list reach no zombie that has a parent.
* `MemoryFramesDistinct`, `MemoryNoDangling`, `MemoryNothingAboveBreak`: `MemInv`. `Sound`
  ties the page tables to the heap (the block of every mapped frame is allocated and no
  two entries have the same); distinct blocks have distinct frames because they are more
  than a page apart. `kmalloc` picks the i-th free block by its rank; `RankIs` and
  `RankOnto`, by induction on the size of the set, say that the rank counts.
  `CallInv` is what cmd_mmap has done at each of its steps.
* `VmallocOwners`, `VmallocStats`, `VmallocDisjoint`: `VInv`. Ownership and statistics are
  both sums over the list, with a weight for each block that is 0 when the block is free:
  1 for an allocated block at a given address, or its size. `SumIs` is such a sum;
  `SumExcept` and `SumInsert` say what a changed and a new block do to it, and `MergeFreeIs`
  that the merge of vfree, however many blocks it joins, changes none of them. The
  inductive fact is that the allocated blocks at an address are as many as its owners:
  after a vfree there may be two, as the remainder has the wrong size. `Unfreed` says
  that before the first vfree the blocks follow each other and only the last is free, so a
  new area begins behind all others.
* `SignalsHandledOnce`, `SignalsQueuesExact`: `SigInv` says that the queues are disjoint
  lists (`Linked`) of the allocated entries, that each entry holds a signal sent to its
  queue's process, and that no signal is both queued and delivered. For cmd_psignal's walk
  with the timer inside it `HandledOnce` is false (run signals_shell), so these two are
  about the switches and system calls.
* `KernelRaiseNotLost`: the walk clears a bit before it calls the handler, so what the
  handler raises is in the word when the walk, or the next one, comes to it.
* `ScreensCursor`, `ScreensReturn`: `ScreenInv`. `CursorInv` bounds the cursor and what the
  thread has loaded at each place of vga_putchar; a message of the timer only brings the
  cursor back onto the screen (`PutIs`, and `PrintkIs` by induction on the message), so what
  the thread loaded before stays in bounds. `KeptInv` says which cells a switch has saved
  and restored so far; in it, as in the property, a switch that a message interrupted is
  excepted.
* `RingTypeCorrect`, `RingRefinesQueue`: the ring implements the queue for every size.
  `Waiting` maps the slots from the read to the write position to a sequence;
  `PutAppends` and `GetTakesOldest` show that a put and a get are Append and Tail there,
  `FullIs` that the ring refuses a key exactly when one key less than its size waits.
* `SocketsNeverOpen`, `SocketsUsedOnce`: for every table, by `SocketInv`. Slots are used
  in order because nothing gives one back, and nothing does because no lookup succeeds.
* `FilesListingComplete`, `FilesMountsExact`: `FilesInv`. A mount appends to the table
  (`MountStep`), an umount moves the entries behind the one it removes up by one
  (`UmountStep`); `EntriesShifted` counts what is left of each path.
* `FilesActsOnCaller`, the action property, from `FilesInv`: while no switch has come,
  current_process is still the caller (`CallerIs`).
* `DirLookupsAgree`, `DirReaddirEnumerates`: `DirInv` says that the two lookups agree so
  far and that readdir's counter is the number of live entries passed; `WalkStep` is one
  entry of the walk.
* `IdeReadExact`, `IdeWriteStored`: `IdeInv`. `DriveOK` is what ATA promises of a drive's
  bits; `Exchange` says, for every place of the driver, what the drive it has commanded may
  be doing (`Serving`): which sector it is at, how many are left, what is on the disk
  already, while the other drive is still. A late answer breaks `Exchange`, so it is
  required only while no wait has timed out. For a write the last sector is not promised,
  because the driver sends FLUSH without looking at ERR.
* `InodesStayApart`: two inodes of a group have different places in its table because
  block and offset are quotient and remainder of one index (`DivMod`, `DivUnique`), and
  the tables of two groups do not meet because each lies inside its group (`Layout`).
* `DataReadExact`: `DataInv` says how many bytes the loop has put into the buffer before
  block i and that each is the byte of the file; `PassStep` is one pass of the loop, whose
  first and last blocks may be partial.

The lemmas treat one action each; `StepKinds` (heap) and `QuietStep`,
`NewChildStep` (processes) collect the actions that disturb the same conjuncts.

The type invariants, `OwnersHoldBlocks` and `SlotsUsedOnce` are proved and not in a run.

Induction over data is done in set form: `NatSetInduction` of **SetInduction** takes a set
of numbers, not a predicate, and a proof gives it the set of the numbers for which the
fact holds. `Pigeonhole` is proved the same way, and `Iterates`: a recursive function that
applies a step n times exists and has the type of the step.

Only model-checked: liveness (out of the prover's reach); the loops of HeapLoops
(`LoopsAgree`, `StatsBalance`) and the heap under interrupts, whose walks are RECURSIVE
operators, which the prover does not take; the console beyond the ring.

## Not modelled

* Without a caller in the kernel: `timer_wait`, `keyboard_getline`, `vsize`,
  `process_handle_exception`, `page_fault_handler`, `socket_can_read`,
  `socket_can_write`, `vfs_write`, `syscall_unregister`. (`vfree`,
  `ext2_write_inode` and `sys_socket_close` have none either, but are modelled as
  intended. ext2's reads are reached only through nodes no path leads to.)
* Not enabled: the mouse and scrollback.
* Straight lines without shared state: printing and string functions, the GDT, boot
  code, panic and stack dumps, CPU exceptions (they print and halt), the shell commands
  that only print.
* Reading ext2's superblock and descriptors: one pass of block reads; what is wrong in it
  is listed above, and Ext2Inodes and Files take descriptors that fill their blocks.
* Sizes that wrap at 2^32 (`kmalloc.c:108`; TLC's integers are too small) and the contents
  of pages.
* A key pressed before `pic_init`: it depends on the firmware.
