---------------------------- MODULE AddressSpace ----------------------------
(***************************************************************************)
(* The page tables of processes: mmap, munmap, brk and the clone of fork   *)
(* (src/process.c, src/paging.c), as system calls of the current process   *)
(* make them, with interrupts off, and as cmd_mmap makes them for a new    *)
(* process, with the timer free to switch processes between two pages.     *)
(*                                                                         *)
(* directory[p] maps page numbers to frames, 0 for an entry that is not    *)
(* present; the two levels of tables are one function.  Page 0 lies below  *)
(* heap_start, HEAP_PAGE is the first of the heap, StackPage is the user   *)
(* stack.  The kernel's own pages are in every directory and left out.     *)
(***************************************************************************)
EXTENDS PagePool

CONSTANTS
  Procs,
  Shell,           \* the process that exists at the start
  LastPage,        \* bound: the highest heap page
  Lengths          \* bytes asked of mmap

ASSUME AddressSpaceAssumption ==
  /\ Shell \in Procs
  /\ LastPage \in Nat /\ LastPage >= 3   \* room for the pages of cmd_mmap
  /\ Lengths \subseteq Nat

HEAP_PAGE == 1
StackPage == LastPage + 1
HeapPages == 0..LastPage
Pages == 0..StackPage
NotPresent == 0

VARIABLES
  used,            \* processes that exist
  current,         \* current_process; its directory is in CR3
  directory,       \* process -> page -> frame
  heap_end,        \* process -> page
  mcall,           \* where cmd_mmap is
  misplaced        \* processes whose roll-back ran in another directory, and the
                   \* children cloned from them

asvars == <<used, current, directory, heap_end, mcall, misplaced>>

Idle == [at |-> "idle", proc |-> Shell, addr |-> 0, n |-> 0, i |-> 0, j |-> 0,
         last |-> FALSE]

NewDirectory(stack) == [v \in Pages |-> IF v = StackPage THEN Frame(stack) ELSE NotPresent]

\* The entries of dir from page addr on are set to the given frames.
MapPages(dir, addr, frames) ==
  [v \in Pages |-> IF v - addr + 1 \in DOMAIN frames THEN frames[v - addr + 1] ELSE dir[v]]

UnmapPages(dir, S) == [v \in Pages |-> IF v \in S THEN NotPresent ELSE dir[v]]

\* shell_create_process has made the shell's process.
AddressSpaceInit ==
  /\ used = {Shell} /\ current = Shell
  /\ allocated = {Min(PageBlocks)}
  /\ directory = [p \in Procs |-> IF p = Shell THEN NewDirectory(Min(PageBlocks))
                                  ELSE [v \in Pages |-> NotPresent]]
  /\ heap_end = [p \in Procs |-> HEAP_PAGE]
  /\ mcall = Idle
  /\ misplaced = {}

Up == cpu = "up"
InSyscall == Up /\ mcall = Idle

\* kfree of the frames of a set of entries, one after the other, while the entries
\* are cleared: the first that is no block may panic.  Those that are go.
FreeFrames(F, blocks) ==
  /\ allocated' = blocks \ F
  /\ cpu' \in IF F \subseteq blocks THEN {"up"} ELSE {"up", "panic"}

-----------------------------------------------------------------------------
\* sys_mmap(addr, length) of the current process; page 0 as addr is NULL.  When
\* memory runs out the pages mapped so far are given back: the process's own
\* directory is the loaded one here.
sys_mmap(addr, length) ==
  LET p    == current
      n    == PagesNeeded(length)
      at   == IF addr = 0 THEN heap_end[p] ELSE addr
      got  == kmalloc(n)
      new  == MapPages(directory[p], at, [k \in DOMAIN got |-> Frame(got[k])])
      undo == at..(at + Len(got) - 1)
  IN  /\ InSyscall
      /\ n > 0 /\ at + n <= StackPage
      /\ IF Len(got) = n
         THEN /\ directory' = [directory EXCEPT ![p] = new]
              /\ allocated' = allocated \cup Range(got)
              /\ heap_end' = [heap_end EXCEPT ![p] = Max({@, at + n})]
              /\ UNCHANGED cpu
         ELSE /\ directory' = [directory EXCEPT ![p] = UnmapPages(new, undo)]
              /\ FreeFrames({new[v] : v \in undo}, allocated \cup Range(got))
              /\ UNCHANGED heap_end
      /\ UNCHANGED <<used, current, mcall, misplaced>>

\* Mutated form: the pages are given back and stay mapped.
process_munmap_keeps(p, S) ==
  /\ FreeFrames({directory[p][v] : v \in S} \ {NotPresent}, allocated)
  /\ UNCHANGED directory

\* process_munmap of the current process.
process_munmap(p, S) ==
  /\ FreeFrames({directory[p][v] : v \in S} \ {NotPresent}, allocated)
  /\ directory' = [directory EXCEPT ![p] = UnmapPages(@, S)]

\* sys_brk that lowers the break, also below heap_start; raising it is an mmap
\* at heap_end.
sys_brk(new_brk) ==
  /\ InSyscall
  /\ new_brk < heap_end[current]
  /\ process_munmap(current, new_brk..(heap_end[current] - 1))
  /\ heap_end' = [heap_end EXCEPT ![current] = new_brk]
  /\ UNCHANGED <<used, current, mcall, misplaced>>

\* Mutated form: the entries are copied, not the pages.
CloneShares(dir, blocks) == dir

\* paging_clone_directory: the entries of the clone, in the order of the pages.
CloneEntries(dir, blocks) ==
  [v \in Pages |->
     IF dir[v] = NotPresent THEN NotPresent
     ELSE Frame(blocks[Cardinality({u \in Pages : u <= v /\ dir[u] # NotPresent})])]

\* sys_fork: paging_clone_directory gives the child a page of its own for each of
\* the parent's, heap first.  When memory runs out before the heap's table is
\* finished its pages are lost; later they are given back with the directory.
sys_fork(child) ==
  LET present == {v \in Pages : directory[current][v] # NotPresent}
      got     == kmalloc(Cardinality(present))
      heap    == present \ {StackPage}
  IN  /\ InSyscall
      /\ child \notin used
      /\ IF Len(got) = Cardinality(present)
         THEN /\ used' = used \cup {child}
              /\ directory' = [directory EXCEPT ![child] = CloneEntries(directory[current], got)]
              /\ allocated' = allocated \cup Range(got)
              /\ heap_end' = [heap_end EXCEPT ![child] = heap_end[current]]
              /\ misplaced' = IF current \in misplaced THEN misplaced \cup {child}
                              ELSE misplaced
              /\ UNCHANGED cpu
         ELSE /\ allocated' = (allocated \cup Range(got)) \
                                (IF Len(got) < Cardinality(heap) THEN {}
                                 ELSE {Frame(b) : b \in Range(got)})
              /\ cpu' \in {"up", "panic"}
              /\ UNCHANGED <<used, directory, heap_end, misplaced>>
      /\ UNCHANGED <<current, mcall>>

-----------------------------------------------------------------------------
\* cmd_mmap makes a process and maps two pages, then one more by brk.  Between
\* two pages the timer may switch.
cmd_mmap(p) ==
  /\ InSyscall
  /\ p \notin used
  /\ kmalloc(1) # <<>>
  /\ used' = used \cup {p}
  /\ allocated' = allocated \cup Range(kmalloc(1))
  /\ directory' = [directory EXCEPT ![p] = NewDirectory(kmalloc(1)[1])]
  /\ heap_end' = [heap_end EXCEPT ![p] = HEAP_PAGE]
  /\ mcall' = [Idle EXCEPT !.at = "mmap", !.proc = p, !.addr = HEAP_PAGE, !.n = 2]
  /\ UNCHANGED <<current, misplaced, cpu>>

\* One page: paging_map_page_in_directory works on the process's directory.
mmap_page ==
  /\ Up /\ mcall.at = "mmap" /\ mcall.i < mcall.n
  /\ IF kmalloc(1) = <<>>
     THEN /\ mcall' = [mcall EXCEPT !.at = "rollback"]
          /\ UNCHANGED <<directory, allocated>>
     ELSE /\ directory' = [directory EXCEPT
               ![mcall.proc][mcall.addr + mcall.i] = Frame(kmalloc(1)[1])]
          /\ allocated' = allocated \cup Range(kmalloc(1))
          /\ mcall' = [mcall EXCEPT !.i = @ + 1]
  /\ UNCHANGED <<used, current, heap_end, misplaced, cpu>>

mmap_done ==
  /\ Up /\ mcall.at = "mmap" /\ mcall.i = mcall.n
  /\ LET end == mcall.addr + mcall.n
     IN  /\ heap_end' = [heap_end EXCEPT ![mcall.proc] = Max({@, end})]
         /\ mcall' = IF mcall.last THEN Idle
                     ELSE [mcall EXCEPT !.addr = end, !.n = 1, !.i = 0, !.last = TRUE]
  /\ UNCHANGED <<used, current, directory, allocated, misplaced, cpu>>

\* Mutated form: the last page mapped is not given back.
mmap_rollback_short ==
  /\ Up /\ mcall.at = "rollback"
  /\ mcall' = Idle
  /\ UNCHANGED <<used, current, directory, heap_end, allocated, misplaced, cpu>>

\* The roll-back of a failed mmap, page by page: lookup and unmap go to the
\* directory that is loaded, whosever it is.
mmap_rollback ==
  /\ Up /\ mcall.at = "rollback"
  /\ IF mcall.j = mcall.i
     THEN /\ mcall' = Idle
          /\ UNCHANGED <<directory, allocated, misplaced, cpu>>
     ELSE LET v == mcall.addr + mcall.j
              f == directory[current][v]
          IN  /\ IF f # NotPresent THEN kfree_frame(f) ELSE UNCHANGED <<allocated, cpu>>
              /\ directory' = [directory EXCEPT ![current][v] = NotPresent]
              /\ misplaced' = IF current = mcall.proc THEN misplaced
                              ELSE misplaced \cup {mcall.proc}
              /\ mcall' = [mcall EXCEPT !.j = @ + 1]
  /\ UNCHANGED <<used, current, heap_end>>

\* The timer switches to another process and loads its directory.
process_switch(p) ==
  /\ Up /\ p \in used /\ p # current
  /\ current' = p
  /\ UNCHANGED <<used, directory, heap_end, mcall, misplaced, allocated, cpu>>

AddressSpaceNext ==
  \/ \E addr \in HeapPages, length \in Lengths : sys_mmap(addr, length)
  \/ \E new_brk \in HeapPages : sys_brk(new_brk)
  \/ \E p \in Procs : sys_fork(p) \/ cmd_mmap(p) \/ process_switch(p)
  \/ mmap_page \/ mmap_done \/ mmap_rollback

-----------------------------------------------------------------------------
Mapped == {m \in used \X Pages : directory[m[1]][m[2]] # NotPresent}

\* Processes are apart: no two page table entries, of one process or of two, hold
\* the same frame, although an entry keeps only the upper bits of a pointer that
\* is not page aligned.
FramesDistinct ==
  \A m, o \in Mapped : directory[m[1]][m[2]] = directory[o[1]][o[2]] => m = o

\* No entry of any directory is left behind when kfree really takes a page back:
\* what is mapped is the frame of an allocated block.
NoDanglingMapping ==
  \A m \in Mapped : \E b \in allocated : directory[m[1]][m[2]] = Frame(b)

\* A call that fails leaves nothing mapped beyond the break, and a lowered break
\* nothing above it: only a roll-back that ran in another process's directory
\* does, for the process it was meant for and for the children it forks.
NothingAboveBreak ==
  \A p \in used \ misplaced : \A v \in HeapPages :
    directory[p][v] # NotPresent =>
      v < heap_end[p] \/ (mcall.at # "idle" /\ mcall.proc = p)
=============================================================================
