------------------------------ MODULE Process -------------------------------
(***************************************************************************)
(* The process table, fork, exit, wait and the scheduler of src/process.c, *)
(* as the shell and the timer interrupt drive them.                        *)
(*                                                                         *)
(* There is one kernel thread, the shell.  Its calls run with interrupts   *)
(* on, so the timer may run process_schedule between any two steps of      *)
(* them; call says where the thread is.  System calls (int 0x80) run with  *)
(* interrupts off and are one step.  The scheduler changes current_process *)
(* and the loaded page directory but no registers, so the thread goes on   *)
(* where it was.                                                           *)
(*                                                                         *)
(* A page directory is named by the pid of the process it was made for;    *)
(* 0 is NULL in a process and kernel_directory in current_directory.       *)
(***************************************************************************)
EXTENDS Integers

CONSTANTS
  MAX_PROCESSES,   \* slots of the table, 256 in the kernel
  MaxPid,          \* bound: process ids handed out in one behaviour
  FailSites        \* allocations that may fail: a subset of Sites

Sites == {"directory", "kernel_stack", "user_stack", "table", "clone", "fork_stack"}

ASSUME ProcessAssumption ==
  /\ MAX_PROCESSES \in Nat \ {0}
  /\ MaxPid \in Nat
  /\ FailSites \subseteq Sites

NULL == 0
Slots == 1..MAX_PROCESSES
States == {"UNUSED", "RUNNING", "READY", "ZOMBIE"}
Places == {"idle", "create_directory", "create_kernel_stack", "create_user_stack",
           "set_current", "fork", "fork_copy", "fork_link", "fork_clone",
           "fork_stack", "exit", "stuck"}
Commands == {"boot", "process", "fork", "none"}

VARIABLES
  process_table,
  current_process,
  next_pid,
  current_directory,  \* what CR3 holds
  directories,        \* page directories allocated and not freed
  call,               \* where the kernel thread is
  cpu                 \* "up", or stopped: "panic", "hang" (a loop with IRQs off)

vars == <<process_table, current_process, next_pid, current_directory,
          directories, call, cpu>>

Pointer == Slots \cup {NULL}

PCB == [pid : Nat, state : States, parent : Pointer, children : Pointer,
        next_sibling : Pointer, page_directory : Nat]

Cleared == [pid |-> 0, state |-> "UNUSED", parent |-> NULL, children |-> NULL,
            next_sibling |-> NULL, page_directory |-> NULL]

Idle == [at |-> "idle", cmd |-> "none", proc |-> NULL, parent |-> NULL]

-----------------------------------------------------------------------------
\* process_init; shell_run then makes a process for the shell.
Init ==
  /\ process_table = [i \in Slots |-> Cleared]
  /\ current_process = NULL
  /\ next_pid = 1
  /\ current_directory = NULL
  /\ directories = {}
  /\ call = Idle
  /\ cpu = "up"

At(place) == cpu = "up" /\ call.at = place

GoTo(place) == call' = [call EXCEPT !.at = place]

\* process_alloc_slot finds slot i, the first UNUSED one.
process_alloc_slot(t, i) ==
  /\ t[i].state = "UNUSED"
  /\ \A j \in Slots : t[j].state = "UNUSED" => i <= j

TableFull(t) == \A i \in Slots : t[i].state # "UNUSED"

\* paging_destroy_directory: d came from kmalloc_aligned, so kfree may find no
\* header below it and panic, or a stale one and leave the memory allocated.
paging_destroy_directory(d) ==
  \/ cpu' = "panic" /\ UNCHANGED directories
  \/ UNCHANGED cpu /\ directories' \in {directories, directories \ {d}}

-----------------------------------------------------------------------------
\* process_create up to the READY state; the shell's own process comes first.
\* With no free slot it returns NULL and nothing changes.
process_create(cmd) ==
  /\ At("idle")
  /\ next_pid <= IF cmd = "fork" THEN MaxPid - 1 ELSE MaxPid
  /\ IF next_pid = 1 THEN cmd = "boot" ELSE cmd \in {"process", "fork"}
  /\ \E i \in Slots :
       /\ process_alloc_slot(process_table, i)
       /\ process_table' = [process_table EXCEPT
            ![i] = [Cleared EXCEPT !.pid = next_pid, !.state = "READY"]]
       /\ call' = [at |-> "create_directory", cmd |-> cmd, proc |-> i, parent |-> NULL]
  /\ next_pid' = next_pid + 1
  /\ UNCHANGED <<current_process, current_directory, directories, cpu>>

\* The slot of the process being made is given up and the call returns NULL.
GiveUp ==
  /\ process_table' = [process_table EXCEPT ![call.proc].state = "UNUSED"]
  /\ call' = Idle

paging_create_directory ==
  /\ At("create_directory")
  /\ LET pid == process_table[call.proc].pid
     IN  /\ process_table' = [process_table EXCEPT ![call.proc].page_directory = pid]
         /\ directories' = directories \cup {pid}
  /\ GoTo("create_kernel_stack")
  /\ UNCHANGED <<current_process, next_pid, current_directory, cpu>>

create_directory_fails ==
  /\ At("create_directory") /\ "directory" \in FailSites
  /\ GiveUp
  /\ UNCHANGED <<current_process, next_pid, current_directory, directories, cpu>>

create_kernel_stack ==
  /\ At("create_kernel_stack")
  /\ GoTo("create_user_stack")
  /\ UNCHANGED <<process_table, current_process, next_pid, current_directory,
                 directories, cpu>>

\* kmalloc of one of the two stacks fails: the directory goes, then the slot.
create_stack_fails ==
  /\ \/ At("create_kernel_stack") /\ "kernel_stack" \in FailSites
     \/ At("create_user_stack") /\ "user_stack" \in FailSites
  /\ paging_destroy_directory(process_table[call.proc].page_directory)
  /\ IF cpu' = "up" THEN GiveUp ELSE UNCHANGED <<process_table, call>>
  /\ UNCHANGED <<current_process, next_pid, current_directory>>

\* The user stack is mapped and process_create returns the process.
create_user_stack ==
  /\ At("create_user_stack")
  /\ call' = IF call.cmd = "process" THEN Idle
             ELSE IF call.cmd = "boot" THEN [call EXCEPT !.at = "set_current"]
             ELSE [call EXCEPT !.at = "fork", !.parent = call.proc, !.proc = NULL]
  /\ UNCHANGED <<process_table, current_process, next_pid, current_directory,
                 directories, cpu>>

\* paging_map_page_in_directory finds no memory for the table.
create_table_panics ==
  /\ At("create_user_stack") /\ "table" \in FailSites
  /\ cpu' = "panic"
  /\ UNCHANGED <<process_table, current_process, next_pid, current_directory,
                 directories, call>>

\* shell_create_process calls it once, when the shell's is the only process:
\* the timer can only have switched to that same process.
process_set_current ==
  /\ At("set_current")
  /\ LET proc == call.proc
         t    == IF current_process # NULL /\ current_process # proc
                 THEN [process_table EXCEPT ![current_process].state = "READY"]
                 ELSE process_table
     IN  /\ process_table' = [t EXCEPT ![proc].state = "RUNNING"]
         /\ current_process' = proc
         /\ current_directory' = IF t[proc].page_directory # NULL
                                 THEN t[proc].page_directory ELSE current_directory
  /\ call' = Idle
  /\ UNCHANGED <<next_pid, directories, cpu>>

-----------------------------------------------------------------------------
\* process_fork, called by cmd_fork on the process it has just created.  The
\* memcpy of the PCB copies pid and state first: the slot is in use before its
\* page_directory is written.
process_fork ==
  /\ At("fork")
  /\ \/ TableFull(process_table) /\ call' = Idle /\ UNCHANGED process_table
     \/ \E child \in Slots :
          LET from == process_table[call.parent]
          IN  /\ process_alloc_slot(process_table, child)
              /\ process_table' = [process_table EXCEPT ![child].pid = from.pid,
                                                        ![child].state = from.state]
              /\ call' = [call EXCEPT !.at = "fork_copy", !.proc = child]
  /\ UNCHANGED <<current_process, next_pid, current_directory, directories, cpu>>

fork_copy ==
  /\ At("fork_copy")
  /\ process_table' = [process_table EXCEPT
       ![call.proc] = [process_table[call.parent] EXCEPT
                         !.pid = process_table[call.proc].pid,
                         !.state = process_table[call.proc].state]]
  /\ GoTo("fork_link")
  /\ UNCHANGED <<current_process, next_pid, current_directory, directories, cpu>>

\* Mutated form: the child keeps the pid memcpy gave it.
LinkChildSamePid(t, parent, child, pid) ==
  LET t1 == [t EXCEPT ![child].state = "READY", ![child].parent = parent,
                      ![child].children = NULL]
      t2 == [t1 EXCEPT ![child].next_sibling = t1[parent].children]
  IN  [t2 EXCEPT ![parent].children = child]

\* The new pid, the READY state and the links between parent and child.
LinkChild(t, parent, child, pid) ==
  LET t1 == [t EXCEPT ![child].pid = pid, ![child].state = "READY",
                      ![child].parent = parent, ![child].children = NULL]
      t2 == [t1 EXCEPT ![child].next_sibling = t1[parent].children]
  IN  [t2 EXCEPT ![parent].children = child]

fork_link ==
  /\ At("fork_link")
  /\ process_table' = LinkChild(process_table, call.parent, call.proc, next_pid)
  /\ next_pid' = next_pid + 1
  /\ GoTo("fork_clone")
  /\ UNCHANGED <<current_process, current_directory, directories, cpu>>

\* Mutated form: the child goes on with the parent's directory.
clone_directory_shared ==
  /\ At("fork_clone")
  /\ GoTo("fork_stack")
  /\ UNCHANGED <<process_table, current_process, next_pid, current_directory,
                 directories, cpu>>

paging_clone_directory ==
  /\ At("fork_clone")
  /\ LET pid == process_table[call.proc].pid
     IN  /\ process_table' = [process_table EXCEPT ![call.proc].page_directory = pid]
         /\ directories' = directories \cup {pid}
  /\ GoTo("fork_stack")
  /\ UNCHANGED <<current_process, next_pid, current_directory, cpu>>

\* The clone gives back what it had built, which may panic.
clone_directory_fails ==
  /\ At("fork_clone") /\ "clone" \in FailSites
  /\ \/ /\ cpu' = "panic"
        /\ UNCHANGED <<process_table, call>>
     \/ /\ process_table' = [process_table EXCEPT ![call.proc].page_directory = NULL,
                                                  ![call.proc].state = "UNUSED"]
        /\ call' = Idle
        /\ UNCHANGED cpu
  /\ UNCHANGED <<current_process, next_pid, current_directory, directories>>

fork_stack ==
  /\ At("fork_stack")
  /\ call' = Idle
  /\ UNCHANGED <<process_table, current_process, next_pid, current_directory,
                 directories, cpu>>

fork_stack_fails ==
  /\ At("fork_stack") /\ "fork_stack" \in FailSites
  /\ paging_destroy_directory(process_table[call.proc].page_directory)
  /\ IF cpu' = "up" THEN GiveUp ELSE UNCHANGED <<process_table, call>>
  /\ UNCHANGED <<current_process, next_pid, current_directory>>

\* sys_fork: process_fork of the current process in one step.
sys_fork ==
  /\ At("idle")
  /\ next_pid > 1 /\ next_pid <= MaxPid
  /\ current_process # NULL
  /\ \E child \in Slots :
       LET parent == current_process
           linked == LinkChild([process_table EXCEPT ![child] = process_table[parent]],
                               parent, child, next_pid)
           noclone == linked[parent].page_directory = NULL
           Fails(d) == process_table' = [linked EXCEPT ![child].page_directory = d,
                                                       ![child].state = "UNUSED"]
       IN  /\ process_alloc_slot(process_table, child)
           /\ \/ /\ ~noclone
                 /\ process_table' = [linked EXCEPT ![child].page_directory = next_pid]
                 /\ directories' = directories \cup {next_pid}
                 /\ UNCHANGED cpu
              \/ /\ "clone" \in FailSites \/ noclone
                 /\ Fails(NULL)
                 /\ UNCHANGED <<directories, cpu>>
              \/ /\ "clone" \in FailSites \/ "fork_stack" \in FailSites
                 /\ ~noclone
                 /\ cpu' = "panic"
                 /\ UNCHANGED <<process_table, directories>>
              \/ /\ "fork_stack" \in FailSites /\ ~noclone
                 /\ Fails(next_pid)
                 /\ directories' \in {directories, directories \cup {next_pid}}
                 /\ UNCHANGED cpu
  /\ next_pid' = next_pid + 1
  /\ UNCHANGED <<current_process, current_directory, call>>

-----------------------------------------------------------------------------
\* The k-th process of a list of siblings, from its head (k = 0); NULL beyond
\* its end.
ListAt(t, head) ==
  LET at[k \in 0..MAX_PROCESSES] ==
        IF k = 0 THEN head
        ELSE IF at[k - 1] = NULL THEN NULL ELSE t[at[k - 1]].next_sibling
  IN  at

Listed(t, head) ==
  {ListAt(t, head)[k] : k \in 0..MAX_PROCESSES} \ {NULL}

\* A walk that has not met NULL after as many steps as there are slots never
\* does.
Endless(t, head) == ListAt(t, head)[MAX_PROCESSES] # NULL

\* Mutated form: the slot is freed at once.
process_exit_frees ==
  /\ At("idle")
  /\ current_process # NULL
  /\ process_table[current_process].state \in {"RUNNING", "READY"}
  /\ process_table' = [process_table EXCEPT ![current_process].state = "UNUSED"]
  /\ call' = [Idle EXCEPT !.at = "exit", !.proc = current_process]
  /\ UNCHANGED <<current_process, next_pid, current_directory, directories, cpu>>

\* process_exit(process_get_current()), as test_process_entry calls it once in
\* the life of a process.
process_exit ==
  /\ At("idle")
  /\ current_process # NULL
  /\ process_table[current_process].state \in {"RUNNING", "READY"}
  /\ process_table' = [process_table EXCEPT ![current_process].state = "ZOMBIE"]
  /\ call' = [Idle EXCEPT !.at = "exit", !.proc = current_process]
  /\ UNCHANGED <<current_process, next_pid, current_directory, directories, cpu>>

\* Its directory goes and its children lose their parent.
exit_release ==
  /\ At("exit")
  /\ LET proc == call.proc
         kids == Listed(process_table, process_table[proc].children)
     IN  /\ paging_destroy_directory(process_table[proc].page_directory)
         /\ IF cpu' = "up"
            THEN /\ process_table' =
                      [i \in Slots |->
                         [process_table[i] EXCEPT
                            !.page_directory = IF i = proc THEN NULL ELSE @,
                            !.parent = IF i \in kids THEN NULL ELSE @]]
                 /\ call' = IF Endless(process_table, process_table[proc].children)
                            THEN [call EXCEPT !.at = "stuck"] ELSE Idle
            ELSE UNCHANGED <<process_table, call>>
  /\ UNCHANGED <<current_process, next_pid, current_directory>>

\* Mutated form: the slot is freed and the child stays on the list.
sys_wait_linked ==
  /\ At("idle")
  /\ current_process # NULL
  /\ \E c \in Listed(process_table, process_table[current_process].children) :
       /\ process_table[c].state = "ZOMBIE"
       /\ process_table' = [process_table EXCEPT ![c].state = "UNUSED"]
  /\ UNCHANGED <<current_process, next_pid, current_directory, directories, call, cpu>>

\* sys_wait: process_wait of the current process.  The first zombie of the list
\* is unlinked and its slot freed; without one, an endless list is walked with
\* interrupts off.
sys_wait ==
  /\ At("idle")
  /\ current_process # NULL
  /\ LET t    == process_table
         head == t[current_process].children
         at   == ListAt(t, head)
         zombies == {k \in 0..MAX_PROCESSES :
                       at[k] \in Slots /\ t[at[k]].state = "ZOMBIE"}
     IN  \/ \E k \in zombies :
              LET next == t[at[k]].next_sibling
                  u == IF k = 0 THEN [t EXCEPT ![current_process].children = next]
                                ELSE [t EXCEPT ![at[k - 1]].next_sibling = next]
              IN  /\ \A j \in zombies : k <= j
                  /\ process_table' = [u EXCEPT ![at[k]].state = "UNUSED"]
                  /\ UNCHANGED cpu
         \/ /\ zombies = {} /\ Endless(t, head)
            /\ cpu' = "hang"
            /\ UNCHANGED process_table
  /\ UNCHANGED <<current_process, next_pid, current_directory, directories, call>>

-----------------------------------------------------------------------------
\* How far i comes after the current process in the order of the table and
\* around its end.
Ahead(cur, i) == IF i > cur THEN i - cur ELSE i - cur + MAX_PROCESSES

\* Mutated form: the search always starts at the first slot.
RoundRobinFromFirst(t, cur, next) ==
  /\ next # cur /\ t[next].state = "READY"
  /\ \A j \in Slots : j # cur /\ t[j].state = "READY" => next <= j

\* process_schedule finds next: the first READY process after the current one.
RoundRobin(t, cur, next) ==
  /\ next # cur /\ t[next].state = "READY"
  /\ \A j \in Slots : j # cur /\ t[j].state = "READY" => Ahead(cur, next) <= Ahead(cur, j)

\* Mutated form: the process that was running is not made READY.
process_switch_both(next) ==
  /\ process_table' = [process_table EXCEPT ![next].state = "RUNNING"]
  /\ current_process' = next
  /\ UNCHANGED current_directory

\* Mutated form: the old process is made READY whatever its state.
process_switch_revives(next) ==
  /\ process_table' = [i \in Slots |->
       [process_table[i] EXCEPT !.state =
          IF i = next THEN "RUNNING" ELSE IF i = current_process THEN "READY" ELSE @]]
  /\ current_process' = next
  /\ UNCHANGED current_directory

process_switch(next) ==
  LET t == IF current_process # NULL /\ process_table[current_process].state = "RUNNING"
           THEN [process_table EXCEPT ![current_process].state = "READY"]
           ELSE process_table
  IN  /\ process_table' = [t EXCEPT ![next].state = "RUNNING"]
      /\ current_process' = next
      /\ current_directory' = IF t[next].page_directory # NULL
                              THEN t[next].page_directory ELSE current_directory

\* The timer interrupt on a tick that is a multiple of SCHEDULE_FREQUENCY; on
\* the other ticks it only counts.
timer_irq_handler ==
  /\ cpu = "up"
  /\ \E next \in Slots :
       /\ RoundRobin(process_table, current_process, next)
       /\ process_switch(next)
  /\ UNCHANGED <<next_pid, directories, call, cpu>>

-----------------------------------------------------------------------------
Create ==
  \/ \E cmd \in Commands : process_create(cmd)
  \/ paging_create_directory \/ create_directory_fails
  \/ create_kernel_stack \/ create_stack_fails
  \/ create_user_stack \/ create_table_panics
  \/ process_set_current

Fork ==
  \/ process_fork \/ fork_copy \/ fork_link
  \/ paging_clone_directory \/ clone_directory_fails
  \/ fork_stack \/ fork_stack_fails

Next == Create \/ Fork \/ sys_fork \/ sys_wait \/ timer_irq_handler

\* With processes that end: nothing in the kernel runs a process's entry point
\* yet, so no call of process_exit is reached without this.
NextExit == Next \/ process_exit \/ exit_release

Spec == Init /\ [][Next]_vars

ExitSpec == Init /\ [][NextExit]_vars

\* The PIT raises IRQ0 at a fixed rate and the thread runs with interrupts on.
FairSpec == ExitSpec /\ WF_vars(timer_irq_handler)

-----------------------------------------------------------------------------
TypeOK ==
  /\ process_table \in [Slots -> PCB]
  /\ current_process \in Pointer
  /\ next_pid \in Nat
  /\ current_directory \in Nat
  /\ directories \subseteq Nat
  /\ call \in [at : Places, cmd : Commands, proc : Pointer, parent : Pointer]
  /\ cpu \in {"up", "panic", "hang"}

InUse(i) == process_table[i].state # "UNUSED"

\* The slot process_fork has copied the parent into and not yet made its own.
Copied(i) == call.at \in {"fork_copy", "fork_link"} /\ i = call.proc

\* However the timer cuts into process_create and process_fork, no process but
\* current_process is RUNNING, except for the copy process_fork has just made
\* of a running parent.
RunningIsCurrent ==
  \A i \in Slots :
    process_table[i].state = "RUNNING" => i = current_process \/ Copied(i)

\* process_get_by_pid can mean one process only: two slots in use never share a
\* pid, except for the copy in process_fork.
UniquePids ==
  \A i, j \in Slots :
    /\ InUse(i) /\ InUse(j) /\ ~Copied(i) /\ ~Copied(j)
    /\ process_table[i].pid = process_table[j].pid
    => i = j

\* Every process has a page directory of its own: two slots in use share one
\* only while process_fork has not yet cloned the parent's.
OwnDirectory ==
  \A i, j \in Slots :
    /\ InUse(i) /\ InUse(j) /\ i # j
    /\ process_table[i].page_directory # NULL
    /\ process_table[i].page_directory = process_table[j].page_directory
    => call.at \in {"fork_copy", "fork_link", "fork_clone"} /\ call.proc \in {i, j}

\* The parent pointers and the lists of children say the same: a live process's
\* list ends, holds processes in use whose parent it is, and every process
\* with a parent is on that parent's list.
ChildrenTree ==
  \A i \in Slots :
    LET t == process_table
    IN  InUse(i) /\ ~Copied(i) =>
          /\ t[i].state # "ZOMBIE" =>
               /\ ~Endless(t, t[i].children)
               /\ \A c \in Listed(t, t[i].children) : InUse(c) /\ t[c].parent = i
          /\ t[i].parent # NULL =>
               InUse(t[i].parent) /\ i \in Listed(t, t[t[i].parent].children)

\* A process that has exited stays a zombie until process_wait frees its slot:
\* neither the scheduler nor fork brings it back.
ZombieStays ==
  [][\A i \in Slots : process_table[i].state = "ZOMBIE"
       => process_table[i].state' \in {"ZOMBIE", "UNUSED"}]_vars

\* Round robin: a READY process is switched to, given timer interrupts, unless a
\* panic stops the machine.
ReadyRuns ==
  \A i \in Slots :
    process_table[i].state = "READY" ~> process_table[i].state # "READY" \/ cpu # "up"

\* current_process is never an UNUSED slot, whoever exits, waits and is waited for:
\* process_schedule and the system calls read it without a test.
CurrentInUse == current_process # NULL => InUse(current_process)

-----------------------------------------------------------------------------
\* "Linked list of children" (process.h:59): it has an end, so process_wait
\* returns.
ChildrenListEnds == cpu # "hang"
=============================================================================
