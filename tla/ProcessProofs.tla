--------------------------- MODULE ProcessProofs ----------------------------
(***************************************************************************)
(* Proofs about module Process, for a table of any size, any number of     *)
(* processes and any set of allocations that may fail.                     *)
(***************************************************************************)
EXTENDS Process, Sequences, TLAPS

\* Where the thread is inside a call, it holds the slots that call works on.
CallOK ==
  /\ call.at \notin {"idle", "fork"} => call.proc \in Slots
  /\ call.at \in {"fork", "fork_copy", "fork_link", "fork_clone", "fork_stack"}
       => call.parent \in Slots
  /\ call.at = "set_current" => call.cmd = "boot"
  /\ call.cmd = "boot" => call.at \in {"create_directory", "create_kernel_stack",
                                      "create_user_stack", "set_current"}

\* The slot whose page_directory is still the parent's, or older.
Borrowing(i) ==
  call.at \in {"fork_copy", "fork_link", "fork_clone"} /\ i = call.proc

PidsIssued ==
  /\ next_pid > 0
  /\ \A i \in Slots : InUse(i) => process_table[i].pid < next_pid

DirectoryByPid ==
  \A i \in Slots :
    InUse(i) /\ ~Borrowing(i)
      => process_table[i].page_directory \in {NULL, process_table[i].pid}

\* While the shell's process is being made, it is the only one.
BootAlone ==
  /\ next_pid = 1 => /\ call.at = "idle" /\ current_process = NULL
                     /\ \A i \in Slots : ~InUse(i)
  /\ call.cmd = "boot" => /\ current_process \in {NULL, call.proc} /\ InUse(call.proc)
                          /\ \A i \in Slots \ {call.proc} : ~InUse(i)

ProcInv ==
  /\ TypeOK /\ CallOK /\ BootAlone
  /\ RunningIsCurrent /\ UniquePids /\ PidsIssued /\ DirectoryByPid

LEMMA TypesOfPCB ==
  ASSUME TypeOK, NEW i \in Slots
  PROVE  /\ process_table[i] \in PCB
         /\ process_table[i].pid \in Nat /\ process_table[i].state \in States
         /\ process_table[i].parent \in Pointer /\ process_table[i].children \in Pointer
         /\ process_table[i].next_sibling \in Pointer
         /\ process_table[i].page_directory \in Nat
BY DEF TypeOK, PCB

LEMMA ProcInvInit == Init => ProcInv
<1> SUFFICES ASSUME Init PROVE ProcInv
  OBVIOUS
<1>1. TypeOK
  BY DEF Init, TypeOK, PCB, Cleared, Pointer, NULL, States, Idle, Places, Commands
<1>2. \A i \in Slots : process_table[i].state = "UNUSED"
  BY DEF Init, Cleared
<1>3. QED
  BY <1>1, <1>2 DEF ProcInv, CallOK, RunningIsCurrent, UniquePids, PidsIssued,
     DirectoryByPid, BootAlone, InUse, Init, Idle

-----------------------------------------------------------------------------
LEMMA CreateStep ==
  ASSUME ProcInv, NEW cmd \in Commands, process_create(cmd)
  PROVE  ProcInv'
<1>1. PICK i \in Slots :
        /\ process_table[i].state = "UNUSED"
        /\ process_table' = [process_table EXCEPT
             ![i] = [Cleared EXCEPT !.pid = next_pid, !.state = "READY"]]
        /\ call' = [at |-> "create_directory", cmd |-> cmd, proc |-> i, parent |-> NULL]
  BY DEF process_create, process_alloc_slot
<1>2. /\ call.at = "idle" /\ next_pid' = next_pid + 1 /\ next_pid \in Nat
      /\ UNCHANGED <<current_process, current_directory, directories, cpu>>
  BY DEF process_create, At, ProcInv, TypeOK
<1>3. [Cleared EXCEPT !.pid = next_pid, !.state = "READY"] \in PCB
  BY <1>2 DEF Cleared, PCB, States, Pointer, NULL
<1>4. TypeOK'
  BY <1>1, <1>2, <1>3 DEF ProcInv, TypeOK, Places, Pointer
<1>5. /\ process_table'[i].pid = next_pid /\ process_table'[i].state = "READY"
      /\ process_table'[i].page_directory = NULL
      /\ \A j \in Slots \ {i} : process_table'[j] = process_table[j]
  BY <1>1 DEF ProcInv, TypeOK, Cleared
<1>6. CallOK'
  BY <1>1 DEF CallOK
<1>7. RunningIsCurrent'
  BY <1>1, <1>2, <1>5 DEF ProcInv, RunningIsCurrent, Copied
<1>8. PidsIssued'
  BY <1>2, <1>5, TypesOfPCB DEF ProcInv, PidsIssued, InUse
<1>9. UniquePids'
  BY <1>1, <1>2, <1>5, TypesOfPCB DEF ProcInv, UniquePids, PidsIssued, InUse, Copied
<1>10. DirectoryByPid'
  BY <1>1, <1>2, <1>5 DEF ProcInv, DirectoryByPid, InUse, Borrowing
<1>11. BootAlone'
  <2>1. next_pid = 1 => current_process = NULL /\ \A j \in Slots : ~InUse(j)
    BY DEF ProcInv, BootAlone
  <2>2. next_pid' # 1
    BY <1>2 DEF ProcInv, PidsIssued
  <2>3. call'.cmd = cmd /\ call'.proc = i /\ (cmd = "boot" => next_pid = 1)
    BY <1>1 DEF process_create
  <2>4. QED
    BY <1>2, <1>5, <2>1, <2>2, <2>3 DEF BootAlone, InUse
<1>12. QED
  BY <1>4, <1>6, <1>7, <1>8, <1>9, <1>10, <1>11 DEF ProcInv

\* A step that makes no process RUNNING, takes no slot into use, gives no pid and
\* ends no copy keeps the invariant if it keeps the types and every directory
\* is the process's own, none, or as it was.
LEMMA QuietStep ==
  ASSUME ProcInv, TypeOK', CallOK', UNCHANGED <<current_process, next_pid>>,
         call'.cmd = "boot" => /\ call.cmd = "boot" /\ call'.proc = call.proc
                              /\ process_table'[call.proc].state # "UNUSED",
         next_pid = 1 => call'.at = "idle",
         \A i \in Slots :
           /\ process_table'[i].state = "RUNNING" => process_table[i].state = "RUNNING"
           /\ InUse(i)' => InUse(i) /\ process_table'[i].pid = process_table[i].pid
           /\ InUse(i)' /\ Copied(i) => Copied(i)'
           /\ InUse(i)' /\ ~Borrowing(i)' =>
                \/ process_table'[i].page_directory \in {NULL, process_table'[i].pid}
                \/ /\ ~Borrowing(i)
                   /\ process_table'[i].page_directory = process_table[i].page_directory
  PROVE  ProcInv'
<1>1. RunningIsCurrent'
  BY DEF ProcInv, RunningIsCurrent, InUse
<1>2. PidsIssued'
  BY DEF ProcInv, PidsIssued
<1>3. UniquePids'
  BY DEF ProcInv, UniquePids
<1>4. DirectoryByPid'
  BY DEF ProcInv, DirectoryByPid
<1>5. BootAlone'
  BY DEF ProcInv, BootAlone, InUse
<1>6. QED
  BY <1>1, <1>2, <1>3, <1>4, <1>5 DEF ProcInv

\* Nothing but the place of the thread and the CPU changes, outside a copy.
LEMMA MoveStep ==
  ASSUME ProcInv, UNCHANGED <<process_table, current_process, next_pid>>,
         call.at \notin {"fork_copy", "fork_link", "fork_clone"},
         call'.cmd = "boot" => call.cmd = "boot" /\ call'.proc = call.proc,
         next_pid = 1 => call'.at = "idle",
         TypeOK', CallOK'
  PROVE  ProcInv'
BY QuietStep DEF InUse, Copied, Borrowing, ProcInv, BootAlone

\* The process being made is given up.
LEMMA GiveUpStep ==
  ASSUME ProcInv, GiveUp, UNCHANGED <<current_process, next_pid, current_directory>>,
         call.at \in {"create_directory", "create_kernel_stack", "create_user_stack",
                      "fork_stack"},
         directories' \subseteq Nat, cpu' \in {"up", "panic", "hang"}
  PROVE  ProcInv'
<1>1. /\ call.proc \in Slots /\ call' = Idle
      /\ process_table' = [process_table EXCEPT ![call.proc].state = "UNUSED"]
  BY DEF ProcInv, CallOK, GiveUp
<1>2. /\ process_table'[call.proc] = [process_table[call.proc] EXCEPT !.state = "UNUSED"]
      /\ process_table'[call.proc].state = "UNUSED"
      /\ \A j \in Slots \ {call.proc} : process_table'[j] = process_table[j]
  BY <1>1, TypesOfPCB DEF ProcInv, TypeOK, PCB
<1>3. TypeOK'
  BY <1>1 DEF ProcInv, TypeOK, PCB, States, Idle, Pointer, Places, Commands, NULL
<1>4. CallOK'
  BY <1>1 DEF CallOK, Idle
<1>5. QED
  BY <1>1, <1>2, <1>3, <1>4, QuietStep DEF InUse, Copied, Borrowing, Idle

\* paging_destroy_directory keeps the types.
LEMMA DestroyTypes ==
  ASSUME TypeOK, NEW d, paging_destroy_directory(d)
  PROVE  directories' \subseteq Nat /\ cpu' \in {"up", "panic", "hang"}
BY DEF TypeOK, paging_destroy_directory

\* A directory for the process being made, by its pid.
LEMMA OwnDirectoryStep ==
  ASSUME ProcInv, NEW place \in Places,
         call.at \in {"create_directory", "fork_clone"},
         place \in {"create_kernel_stack", "fork_stack"},
         call.at = "create_directory" => place = "create_kernel_stack",
         process_table' = [process_table EXCEPT
           ![call.proc].page_directory = process_table[call.proc].pid],
         directories' = directories \cup {process_table[call.proc].pid},
         GoTo(place),
         UNCHANGED <<current_process, next_pid, current_directory, cpu>>
  PROVE  ProcInv'
<1>1. call.proc \in Slots
  BY DEF ProcInv, CallOK
<1>2. /\ process_table'[call.proc].page_directory = process_table'[call.proc].pid
      /\ process_table'[call.proc].pid = process_table[call.proc].pid
      /\ process_table'[call.proc].state = process_table[call.proc].state
      /\ \A j \in Slots \ {call.proc} : process_table'[j] = process_table[j]
  BY <1>1, TypesOfPCB DEF ProcInv, TypeOK, PCB
<1>3. /\ call' = [call EXCEPT !.at = place]
      /\ call'.at = place /\ call'.proc = call.proc /\ call'.parent = call.parent
      /\ call'.cmd = call.cmd
  BY DEF GoTo, ProcInv, TypeOK
<1>4. TypeOK'
  <2>1. process_table' \in [Slots -> PCB]
    BY <1>1, TypesOfPCB DEF ProcInv, TypeOK, PCB
  <2>2. directories' \subseteq Nat
    BY <1>1, TypesOfPCB DEF ProcInv, TypeOK
  <2>3. QED
    BY <2>1, <2>2, <1>3 DEF ProcInv, TypeOK
<1>5. CallOK'
  BY <1>3 DEF ProcInv, CallOK
<1>6. QED
  BY <1>2, <1>3, <1>4, <1>5, QuietStep
  DEF InUse, Copied, Borrowing, ProcInv, BootAlone

\* A step that stops the CPU, or finds no reason to move, with the table as it was.
LEMMA StopStep ==
  ASSUME ProcInv, UNCHANGED <<process_table, current_process, next_pid,
                             current_directory, call>>,
         directories' \subseteq Nat, cpu' \in {"up", "panic", "hang"}
  PROVE  ProcInv'
<1>1. TypeOK' /\ CallOK'
  BY DEF ProcInv, TypeOK, CallOK
<1>2. QED
  BY <1>1, QuietStep DEF InUse, Copied, Borrowing, ProcInv, BootAlone

-----------------------------------------------------------------------------
\* The steps of process_create.
LEMMA CreatePartsStep ==
  ASSUME ProcInv, Create
  PROVE  ProcInv'
<1>1. CASE \E cmd \in Commands : process_create(cmd)
  BY <1>1, CreateStep
<1>2. CASE paging_create_directory
  <2>1. "create_kernel_stack" \in Places
    BY DEF Places
  <2>2. QED
    BY <1>2, <2>1, OwnDirectoryStep DEF paging_create_directory, At
<1>3. CASE create_directory_fails
  BY <1>3, GiveUpStep DEF create_directory_fails, At, ProcInv, TypeOK
<1>4. CASE create_kernel_stack
  <2>1. /\ call.at = "create_kernel_stack"
        /\ call' = [call EXCEPT !.at = "create_user_stack"]
        /\ UNCHANGED <<process_table, current_process, next_pid, current_directory,
                       directories, cpu>>
    BY <1>4 DEF create_kernel_stack, At, GoTo
  <2>2. TypeOK' /\ CallOK'
    BY <2>1 DEF ProcInv, TypeOK, CallOK, Places
  <2>3. call'.cmd = call.cmd /\ call'.proc = call.proc
    BY <2>1 DEF ProcInv, TypeOK
  <2>4. QED
    BY <2>1, <2>2, <2>3, MoveStep DEF ProcInv, BootAlone
<1>5. CASE create_stack_fails
  <2>1. directories' \subseteq Nat /\ cpu' \in {"up", "panic", "hang"}
    BY <1>5, DestroyTypes DEF create_stack_fails, ProcInv
  <2>2. CASE cpu' = "up"
    BY <1>5, <2>1, <2>2, GiveUpStep DEF create_stack_fails, At
  <2>3. CASE cpu' # "up"
    BY <1>5, <2>1, <2>3, StopStep DEF create_stack_fails
  <2>4. QED
    BY <2>2, <2>3
<1>6. CASE create_user_stack
  <2>1. /\ call.at = "create_user_stack" /\ call.proc \in Slots
        /\ UNCHANGED <<process_table, current_process, next_pid, current_directory,
                       directories, cpu>>
        /\ \/ call.cmd = "process" /\ call' = Idle
           \/ call.cmd = "boot" /\ call' = [call EXCEPT !.at = "set_current"]
           \/ /\ call.cmd # "boot"
              /\ call' = [call EXCEPT !.at = "fork", !.parent = call.proc, !.proc = NULL]
    BY <1>6 DEF create_user_stack, At, ProcInv, CallOK
  <2> DEFINE Calls == [at : Places, cmd : Commands, proc : Pointer, parent : Pointer]
  <2>2. call \in Calls
    BY DEF ProcInv, TypeOK
  <2>3. /\ call' \in Calls
        /\ call'.cmd = "boot" => call.cmd = "boot" /\ call'.proc = call.proc
        /\ \/ call'.at = "idle" /\ call'.cmd # "boot"
           \/ call'.at = "set_current" /\ call'.cmd = "boot" /\ call'.proc \in Slots
           \/ call'.at = "fork" /\ call'.cmd # "boot" /\ call'.parent \in Slots
    <3>1. CASE call.cmd = "process" /\ call' = Idle
      BY <3>1 DEF Idle, Places, Commands, Pointer, NULL
    <3>2. CASE call.cmd = "boot" /\ call' = [call EXCEPT !.at = "set_current"]
      BY <2>1, <2>2, <3>2 DEF Places
    <3>3. CASE /\ call.cmd # "boot"
               /\ call' = [call EXCEPT !.at = "fork", !.parent = call.proc, !.proc = NULL]
      BY <2>1, <2>2, <3>3 DEF Places, Pointer
    <3>4. QED
      BY <2>1, <3>1, <3>2, <3>3
  <2>4. TypeOK'
    BY <2>1, <2>3 DEF ProcInv, TypeOK
  <2>5. CallOK'
    BY <2>3 DEF CallOK
  <2>6. QED
    BY <2>1, <2>3, <2>4, <2>5, MoveStep DEF ProcInv, BootAlone
<1>7. CASE create_table_panics
  BY <1>7, StopStep DEF create_table_panics, ProcInv, TypeOK
<1>8. CASE process_set_current
  <2>1. /\ call.at = "set_current" /\ call.proc \in Slots
        /\ current_process \in {NULL, call.proc}
        /\ InUse(call.proc) /\ \A i \in Slots \ {call.proc} : ~InUse(i)
    BY <1>8 DEF process_set_current, At, ProcInv, CallOK, BootAlone
  <2>2. /\ process_table' = [process_table EXCEPT ![call.proc].state = "RUNNING"]
        /\ current_process' = call.proc /\ call' = Idle
        /\ current_directory' \in {process_table[call.proc].page_directory,
                                   current_directory}
        /\ UNCHANGED <<next_pid, directories, cpu>>
    BY <1>8, <2>1 DEF process_set_current
  <2>3. /\ process_table'[call.proc].state = "RUNNING"
        /\ process_table'[call.proc].pid = process_table[call.proc].pid
        /\ process_table'[call.proc].page_directory
             = process_table[call.proc].page_directory
        /\ \A j \in Slots \ {call.proc} : process_table'[j] = process_table[j]
    BY <2>1, <2>2, TypesOfPCB DEF ProcInv, TypeOK, PCB
  <2>4. TypeOK'
    BY <2>1, <2>2, TypesOfPCB
    DEF ProcInv, TypeOK, PCB, States, Idle, Pointer, Places, Commands, NULL
  <2>5. CallOK'
    BY <2>2 DEF CallOK, Idle
  <2>6. \A i \in Slots \ {call.proc} : process_table'[i].state = "UNUSED"
    BY <2>1, <2>3 DEF InUse
  <2>7. RunningIsCurrent' /\ UniquePids'
    BY <2>2, <2>6 DEF RunningIsCurrent, UniquePids, InUse
  <2>8. PidsIssued' /\ DirectoryByPid'
    <3>1. /\ process_table[call.proc].pid < next_pid /\ next_pid > 0
          /\ process_table[call.proc].page_directory
               \in {NULL, process_table[call.proc].pid}
      BY <2>1 DEF ProcInv, PidsIssued, DirectoryByPid, Borrowing
    <3>2. QED
      BY <3>1, <2>2, <2>3, <2>6 DEF PidsIssued, DirectoryByPid, InUse
  <2>9. BootAlone'
    <3>1. next_pid # 1
      BY <2>1 DEF ProcInv, BootAlone
    <3>2. QED
      BY <3>1, <2>2 DEF BootAlone, Idle
  <2>10. QED
    BY <2>4, <2>5, <2>7, <2>8, <2>9 DEF ProcInv
<1>9. QED
  BY <1>1, <1>2, <1>3, <1>4, <1>5, <1>6, <1>7, <1>8 DEF Create

-----------------------------------------------------------------------------
\* process_fork takes a slot and memcpy begins to copy the parent into it.
LEMMA ForkStep ==
  ASSUME ProcInv, process_fork
  PROVE  ProcInv'
<1>1. /\ call.at = "fork" /\ call.parent \in Slots /\ call.cmd # "boot"
      /\ UNCHANGED <<current_process, next_pid, current_directory, directories, cpu>>
  BY DEF process_fork, At, ProcInv, CallOK
<1>2. CASE call' = Idle /\ UNCHANGED process_table
  <2>1. TypeOK' /\ CallOK'
    BY <1>1, <1>2 DEF ProcInv, TypeOK, CallOK, Idle, Places, Commands, Pointer
  <2>2. QED
    BY <1>1, <1>2, <2>1, MoveStep DEF Idle
<1>3. ASSUME NEW child \in Slots, process_table[child].state = "UNUSED",
             process_table' = [process_table EXCEPT
               ![child].pid = process_table[call.parent].pid,
               ![child].state = process_table[call.parent].state],
             call' = [call EXCEPT !.at = "fork_copy", !.proc = child]
      PROVE  ProcInv'
  <2>1. /\ call'.at = "fork_copy" /\ call'.proc = child /\ call'.cmd = call.cmd
        /\ call'.parent = call.parent
    BY <1>3 DEF ProcInv, TypeOK
  <2>2. /\ process_table'[child].pid = process_table[call.parent].pid
        /\ process_table'[child].state = process_table[call.parent].state
        /\ \A j \in Slots \ {child} : process_table'[j] = process_table[j]
    BY <1>3, TypesOfPCB DEF ProcInv, TypeOK, PCB
  <2>3. TypeOK'
    <3>1. process_table' \in [Slots -> PCB]
      BY <1>1, <1>3, TypesOfPCB DEF ProcInv, TypeOK, PCB
    <3>2. call' \in [at : Places, cmd : Commands, proc : Pointer, parent : Pointer]
      BY <1>3 DEF ProcInv, TypeOK, Places, Pointer
    <3>3. QED
      BY <1>1, <3>1, <3>2 DEF ProcInv, TypeOK
  <2>4. CallOK'
    BY <1>1, <2>1 DEF ProcInv, CallOK
  <2>5. RunningIsCurrent'
    BY <1>1, <2>1, <2>2 DEF ProcInv, RunningIsCurrent, Copied
  <2>6. PidsIssued'
    BY <1>1, <2>2 DEF ProcInv, PidsIssued, InUse
  <2>7. UniquePids'
    BY <1>1, <2>1, <2>2 DEF ProcInv, UniquePids, InUse, Copied
  <2>8. DirectoryByPid'
    BY <1>1, <2>1, <2>2 DEF ProcInv, DirectoryByPid, InUse, Borrowing
  <2>9. BootAlone'
    BY <1>1, <2>1, <2>2 DEF ProcInv, BootAlone, InUse
  <2>10. QED
    BY <2>3, <2>4, <2>5, <2>6, <2>7, <2>8, <2>9 DEF ProcInv
<1>4. QED
  BY <1>2, <1>3 DEF process_fork, process_alloc_slot

\* What LinkChild does to the fields the invariant speaks of.
LEMMA LinkChildFields ==
  ASSUME NEW t \in [Slots -> PCB], NEW parent \in Slots, NEW child \in Slots,
         NEW pid \in Nat
  PROVE  LET u == LinkChild(t, parent, child, pid)
         IN  /\ u \in [Slots -> PCB]
             /\ u[child].pid = pid /\ u[child].state = "READY"
             /\ u[child].page_directory = t[child].page_directory
             /\ \A j \in Slots \ {child} :
                  /\ u[j].pid = t[j].pid /\ u[j].state = t[j].state
                  /\ u[j].page_directory = t[j].page_directory
<1> DEFINE t1 == [t EXCEPT ![child].pid = pid, ![child].state = "READY",
                           ![child].parent = parent, ![child].children = NULL]
           t2 == [t1 EXCEPT ![child].next_sibling = t1[parent].children]
           u  == [t2 EXCEPT ![parent].children = child]
<1>0. LinkChild(t, parent, child, pid) = u
  BY Zenon DEF LinkChild
<1>1. /\ t1 \in [Slots -> PCB] /\ t1[child].pid = pid /\ t1[child].state = "READY"
      /\ t1[child].page_directory = t[child].page_directory
      /\ \A j \in Slots \ {child} : t1[j] = t[j]
  <2> DEFINE r == [t[child] EXCEPT !.pid = pid, !.state = "READY", !.parent = parent,
                                   !.children = NULL]
  <2>1. /\ r \in PCB /\ r.pid = pid /\ r.state = "READY"
        /\ r.page_directory = t[child].page_directory
    BY DEF PCB, States, Pointer, NULL
  <2>2. t1 = [t EXCEPT ![child] = r]
    BY DEF PCB
  <2> HIDE DEF r, t1
  <2>3. QED
    BY <2>1, <2>2
<1> HIDE DEF t1
<1>2. /\ t2 \in [Slots -> PCB] /\ t2[child].pid = pid /\ t2[child].state = "READY"
      /\ t2[child].page_directory = t[child].page_directory
      /\ \A j \in Slots \ {child} : t2[j] = t[j]
  BY <1>1 DEF PCB
<1> HIDE DEF t2
<1>3. /\ u \in [Slots -> PCB] /\ u[child].pid = pid /\ u[child].state = "READY"
      /\ u[child].page_directory = t[child].page_directory
      /\ \A j \in Slots \ {child} :
           /\ u[j].pid = t[j].pid /\ u[j].state = t[j].state
           /\ u[j].page_directory = t[j].page_directory
  BY <1>2 DEF PCB, Pointer
<1> HIDE DEF u
<1>4. QED
  BY <1>0, <1>3

\* A slot becomes a linked child with the pid next_pid, or is in use no longer;
\* the others keep the fields the invariant speaks of.
LEMMA NewChildStep ==
  ASSUME ProcInv, TypeOK', CallOK', NEW child \in Slots, call.cmd # "boot",
         call'.cmd # "boot", next_pid # 1,
         call.at \notin {"fork_copy", "fork_link", "fork_clone"} \/ call.proc = child,
         call'.at \notin {"fork_copy", "fork_link"},
         next_pid' = next_pid + 1, UNCHANGED current_process,
         \A j \in Slots \ {child} :
           /\ process_table'[j].pid = process_table[j].pid
           /\ process_table'[j].state = process_table[j].state
           /\ process_table'[j].page_directory = process_table[j].page_directory,
         \/ process_table'[child].state = "UNUSED"
         \/ /\ process_table'[child].state = "READY"
            /\ process_table'[child].pid = next_pid
            /\ Borrowing(child)' \/ process_table'[child].page_directory = next_pid
  PROVE  ProcInv'
<1>1. RunningIsCurrent'
  BY DEF ProcInv, RunningIsCurrent, Copied
<1>2. next_pid \in Nat /\ \A i \in Slots : process_table[i].pid \in Nat
  BY TypesOfPCB DEF ProcInv, TypeOK
<1>3. PidsIssued'
  BY <1>2 DEF ProcInv, PidsIssued, InUse
<1>4. UniquePids'
  BY <1>2 DEF ProcInv, UniquePids, PidsIssued, InUse, Copied
<1>5. DirectoryByPid'
  BY <1>2 DEF ProcInv, DirectoryByPid, InUse, Borrowing
<1>6. BootAlone'
  BY <1>2 DEF ProcInv, BootAlone, PidsIssued
<1>7. QED
  BY <1>1, <1>3, <1>4, <1>5, <1>6 DEF ProcInv

\* The steps of process_fork.
LEMMA ForkPartsStep ==
  ASSUME ProcInv, Fork
  PROVE  ProcInv'
<1>1. CASE process_fork
  BY <1>1, ForkStep
<1>2. CASE fork_copy
  <2> DEFINE r == [process_table[call.parent] EXCEPT
                     !.pid = process_table[call.proc].pid,
                     !.state = process_table[call.proc].state]
  <2>1. /\ call.at = "fork_copy" /\ call.proc \in Slots /\ call.parent \in Slots
        /\ process_table' = [process_table EXCEPT ![call.proc] = r]
        /\ call' = [call EXCEPT !.at = "fork_link"]
        /\ UNCHANGED <<current_process, next_pid, current_directory, directories, cpu>>
    BY <1>2 DEF fork_copy, At, GoTo, ProcInv, CallOK
  <2>2. /\ r \in PCB /\ r.pid = process_table[call.proc].pid
        /\ r.state = process_table[call.proc].state
    BY <2>1, TypesOfPCB DEF ProcInv, PCB
  <2> HIDE DEF r
  <2>3. /\ call' \in [at : Places, cmd : Commands, proc : Pointer, parent : Pointer]
        /\ call'.at = "fork_link" /\ call'.proc = call.proc /\ call'.cmd = call.cmd
        /\ call'.parent = call.parent
    BY <2>1 DEF ProcInv, TypeOK, Places
  <2>4. TypeOK'
    BY <2>1, <2>2, <2>3 DEF ProcInv, TypeOK
  <2>5. CallOK'
    BY <2>1, <2>3 DEF ProcInv, CallOK
  <2>6. /\ process_table'[call.proc] = r
        /\ \A j \in Slots \ {call.proc} : process_table'[j] = process_table[j]
    BY <2>1 DEF ProcInv, TypeOK
  <2>7. call.cmd # "boot"
    BY <2>1 DEF ProcInv, CallOK
  <2>8. QED
    BY <2>1, <2>2, <2>3, <2>4, <2>5, <2>6, <2>7, QuietStep
    DEF InUse, Copied, Borrowing, ProcInv, BootAlone
<1>3. CASE fork_link
  <2> DEFINE u == LinkChild(process_table, call.parent, call.proc, next_pid)
  <2>1. /\ call.at = "fork_link" /\ call.proc \in Slots /\ call.parent \in Slots
        /\ call.cmd # "boot"
        /\ process_table' = u /\ next_pid' = next_pid + 1
        /\ call' = [call EXCEPT !.at = "fork_clone"]
        /\ UNCHANGED <<current_process, current_directory, directories, cpu>>
    BY <1>3 DEF fork_link, At, GoTo, ProcInv, CallOK
  <2>2. /\ u \in [Slots -> PCB]
        /\ u[call.proc].pid = next_pid /\ u[call.proc].state = "READY"
        /\ \A j \in Slots \ {call.proc} :
             /\ u[j].pid = process_table[j].pid /\ u[j].state = process_table[j].state
             /\ u[j].page_directory = process_table[j].page_directory
    BY <2>1, LinkChildFields DEF ProcInv, TypeOK
  <2> HIDE DEF u
  <2>3. /\ call' \in [at : Places, cmd : Commands, proc : Pointer, parent : Pointer]
        /\ call'.at = "fork_clone" /\ call'.proc = call.proc /\ call'.cmd = call.cmd
        /\ call'.parent = call.parent
    BY <2>1 DEF ProcInv, TypeOK, Places
  <2>4. TypeOK'
    BY <2>1, <2>2, <2>3 DEF ProcInv, TypeOK
  <2>5. CallOK'
    BY <2>1, <2>3 DEF ProcInv, CallOK
  <2>6. next_pid # 1
    BY <2>1 DEF ProcInv, BootAlone, InUse
  <2>7. QED
    BY <2>1, <2>2, <2>3, <2>4, <2>5, <2>6, NewChildStep DEF Borrowing
<1>4. CASE paging_clone_directory
  <2>1. "fork_stack" \in Places
    BY DEF Places
  <2>2. QED
    BY <1>4, <2>1, OwnDirectoryStep DEF paging_clone_directory, At
<1>5. CASE clone_directory_fails
  <2>1. /\ call.at = "fork_clone" /\ call.proc \in Slots
        /\ UNCHANGED <<current_process, next_pid, current_directory, directories>>
    BY <1>5 DEF clone_directory_fails, At, ProcInv, CallOK
  <2>2. CASE cpu' = "panic" /\ UNCHANGED <<process_table, call>>
    BY <2>1, <2>2, StopStep DEF ProcInv, TypeOK
  <2>3. CASE /\ process_table' = [process_table EXCEPT ![call.proc].page_directory = NULL,
                                                      ![call.proc].state = "UNUSED"]
             /\ call' = Idle /\ UNCHANGED cpu
    <3>1. /\ process_table'[call.proc].state = "UNUSED"
          /\ \A j \in Slots \ {call.proc} : process_table'[j] = process_table[j]
      BY <2>1, <2>3, TypesOfPCB DEF ProcInv, TypeOK, PCB
    <3>2. process_table' \in [Slots -> PCB]
      BY <2>1, <2>3, TypesOfPCB DEF ProcInv, TypeOK, PCB, States, NULL
    <3>3. TypeOK' /\ CallOK'
      BY <2>1, <2>3, <3>2
      DEF ProcInv, TypeOK, CallOK, Idle, Places, Commands, Pointer
    <3>4. QED
      BY <2>1, <2>3, <3>1, <3>3, QuietStep DEF InUse, Copied, Borrowing, Idle
  <2>4. QED
    BY <1>5, <2>2, <2>3 DEF clone_directory_fails
<1>6. CASE fork_stack
  <2>1. /\ call.at = "fork_stack" /\ call' = Idle
        /\ UNCHANGED <<process_table, current_process, next_pid, current_directory,
                       directories, cpu>>
    BY <1>6 DEF fork_stack, At
  <2>2. TypeOK' /\ CallOK'
    BY <2>1 DEF ProcInv, TypeOK, CallOK, Idle, Places, Commands, Pointer
  <2>3. QED
    BY <2>1, <2>2, MoveStep DEF Idle
<1>7. CASE fork_stack_fails
  <2>1. directories' \subseteq Nat /\ cpu' \in {"up", "panic", "hang"}
    BY <1>7, DestroyTypes DEF fork_stack_fails, ProcInv
  <2>2. CASE cpu' = "up"
    BY <1>7, <2>1, <2>2, GiveUpStep DEF fork_stack_fails, At
  <2>3. CASE cpu' # "up"
    BY <1>7, <2>1, <2>3, StopStep DEF fork_stack_fails
  <2>4. QED
    BY <2>2, <2>3
<1>8. QED
  BY <1>1, <1>2, <1>3, <1>4, <1>5, <1>6, <1>7 DEF Fork

\* The fork system call.
LEMMA SysForkStep ==
  ASSUME ProcInv, sys_fork
  PROVE  ProcInv'
<1>1. /\ call.at = "idle" /\ call.cmd # "boot" /\ current_process \in Slots
      /\ next_pid # 1 /\ next_pid \in Nat /\ next_pid' = next_pid + 1
      /\ UNCHANGED <<current_process, current_directory, call>>
  BY DEF sys_fork, At, ProcInv, CallOK, TypeOK, Pointer
<1>2. PICK child \in Slots :
        LET linked == LinkChild([process_table EXCEPT
                                   ![child] = process_table[current_process]],
                                current_process, child, next_pid)
        IN  /\ process_table[child].state = "UNUSED"
            /\ \/ /\ process_table' = [linked EXCEPT ![child].page_directory = next_pid]
                  /\ directories' = directories \cup {next_pid}
                  /\ UNCHANGED cpu
               \/ /\ \E d \in {NULL, next_pid} :
                       process_table' = [linked EXCEPT ![child].page_directory = d,
                                                       ![child].state = "UNUSED"]
                  /\ directories' \in {directories, directories \cup {next_pid}}
                  /\ UNCHANGED cpu
               \/ /\ cpu' = "panic"
                  /\ UNCHANGED <<process_table, directories>>
  BY DEF sys_fork, process_alloc_slot
<1> DEFINE from   == [process_table EXCEPT ![child] = process_table[current_process]]
           linked == LinkChild(from, current_process, child, next_pid)
<1>3. /\ from \in [Slots -> PCB]
      /\ \A j \in Slots \ {child} : from[j] = process_table[j]
  BY <1>1, TypesOfPCB DEF ProcInv, TypeOK
<1> HIDE DEF from
<1>4. /\ linked \in [Slots -> PCB]
      /\ linked[child].pid = next_pid /\ linked[child].state = "READY"
      /\ \A j \in Slots \ {child} :
           /\ linked[j].pid = process_table[j].pid
           /\ linked[j].state = process_table[j].state
           /\ linked[j].page_directory = process_table[j].page_directory
  BY <1>1, <1>3, LinkChildFields
<1>5. \/ /\ process_table' = [linked EXCEPT ![child].page_directory = next_pid]
         /\ directories' \in {directories, directories \cup {next_pid}}
         /\ UNCHANGED cpu
      \/ /\ \E d \in {NULL, next_pid} :
              process_table' = [linked EXCEPT ![child].page_directory = d,
                                              ![child].state = "UNUSED"]
         /\ directories' \in {directories, directories \cup {next_pid}}
         /\ UNCHANGED cpu
      \/ /\ cpu' = "panic"
         /\ UNCHANGED <<process_table, directories>>
  BY <1>2, Zenon DEF from
<1> HIDE DEF linked
<1>6. /\ process_table' \in [Slots -> PCB]
      /\ \A j \in Slots \ {child} :
           /\ process_table'[j].pid = process_table[j].pid
           /\ process_table'[j].state = process_table[j].state
           /\ process_table'[j].page_directory = process_table[j].page_directory
      /\ \/ process_table'[child].state = "UNUSED"
         \/ /\ process_table'[child].state = "READY"
            /\ process_table'[child].pid = next_pid
            /\ process_table'[child].page_directory = next_pid
  <2>1. CASE process_table' = [linked EXCEPT ![child].page_directory = next_pid]
    BY <1>1, <1>4, <2>1 DEF PCB
  <2>2. ASSUME NEW d \in {NULL, next_pid},
               process_table' = [linked EXCEPT ![child].page_directory = d,
                                               ![child].state = "UNUSED"]
        PROVE  <1>6!:
    <3>1. d \in Nat
      BY <1>1 DEF NULL
    <3>2. QED
      BY <1>4, <2>2, <3>1 DEF PCB, States
  <2>3. CASE UNCHANGED process_table
    BY <1>2, <2>3 DEF ProcInv, TypeOK
  <2>4. QED
    BY <1>5, <2>1, <2>2, <2>3
<1>7. TypeOK'
  <2>1. directories' \subseteq Nat /\ cpu' \in {"up", "panic", "hang"} /\ next_pid' \in Nat
    BY <1>1, <1>5 DEF ProcInv, TypeOK
  <2>2. QED
    BY <1>1, <1>6, <2>1 DEF ProcInv, TypeOK
<1>8. CallOK'
  BY <1>1 DEF ProcInv, CallOK
<1>9. QED
  BY <1>1, <1>6, <1>7, <1>8, NewChildStep

\* Slots keep what the invariant speaks of or leave use, while the thread is not
\* inside fork.
LEMMA ReleaseStep ==
  ASSUME ProcInv, call.at \in {"idle", "exit"}, next_pid # 1 \/ call' = call,
         process_table' \in [Slots -> PCB],
         call' \in [at : Places, cmd : Commands, proc : Pointer, parent : Pointer],
         call'.at \in {"exit", "stuck"} => call'.proc \in Slots,
         call'.at \in {"idle", "exit", "stuck"}, call'.cmd # "boot",
         directories' \subseteq Nat, cpu' \in {"up", "panic", "hang"},
         UNCHANGED <<current_process, next_pid, current_directory>>,
         \A j \in Slots :
           /\ process_table'[j].pid = process_table[j].pid
           /\ process_table'[j].state \in {process_table[j].state, "UNUSED", "ZOMBIE"}
           /\ process_table[j].state = "UNUSED" => process_table'[j].state = "UNUSED"
           /\ process_table'[j].page_directory \in {process_table[j].page_directory, NULL}
  PROVE  ProcInv'
<1>1. TypeOK' /\ CallOK'
  BY DEF ProcInv, TypeOK, CallOK
<1>2. next_pid = 1 => call'.at = "idle"
  BY DEF ProcInv, BootAlone
<1>3. QED
  BY <1>1, <1>2, QuietStep DEF InUse, Copied, Borrowing

LEMMA WaitStep ==
  ASSUME ProcInv, sys_wait
  PROVE  ProcInv'
<1>1. /\ call.at = "idle" /\ call.cmd # "boot" /\ current_process \in Slots
      /\ UNCHANGED <<current_process, next_pid, current_directory, directories, call>>
  BY DEF sys_wait, At, ProcInv, CallOK, TypeOK, Pointer
<1>2. CASE cpu' = "hang" /\ UNCHANGED process_table
  BY <1>1, <1>2, StopStep DEF ProcInv, TypeOK
<1>3. ASSUME NEW c \in Slots, process_table[c].state = "ZOMBIE",
             NEW before,
             LET next == process_table[c].next_sibling
             IN  \/ process_table' = [[process_table EXCEPT
                         ![current_process].children = next] EXCEPT ![c].state = "UNUSED"]
                 \/ process_table' = [[process_table EXCEPT
                         ![before].next_sibling = next] EXCEPT ![c].state = "UNUSED"],
             UNCHANGED cpu
      PROVE  ProcInv'
  <2> DEFINE next == process_table[c].next_sibling
  <2>1. next \in Pointer /\ process_table \in [Slots -> PCB]
    BY TypesOfPCB DEF ProcInv, TypeOK
  <2> HIDE DEF next
  <2>2. PICK u : /\ \/ u = [process_table EXCEPT ![current_process].children = next]
                    \/ u = [process_table EXCEPT ![before].next_sibling = next]
                 /\ process_table' = [u EXCEPT ![c].state = "UNUSED"]
    BY <1>3 DEF next
  <2>3. /\ u \in [Slots -> PCB]
        /\ \A j \in Slots :
             /\ u[j].pid = process_table[j].pid /\ u[j].state = process_table[j].state
             /\ u[j].page_directory = process_table[j].page_directory
    BY <2>1, <2>2 DEF PCB
  <2>4. /\ process_table' \in [Slots -> PCB]
        /\ \A j \in Slots :
             /\ process_table'[j].pid = process_table[j].pid
             /\ process_table'[j].state \in {process_table[j].state, "UNUSED"}
             /\ process_table'[j].page_directory = process_table[j].page_directory
    BY <2>2, <2>3 DEF PCB, States
  <2>5. QED
    BY <1>1, <1>3, <2>4, ReleaseStep DEF ProcInv, TypeOK
<1>4. QED
  <2> DEFINE at == ListAt(process_table, process_table[current_process].children)
  <2>1. \/ cpu' = "hang" /\ UNCHANGED process_table
        \/ \E k \in 0..MAX_PROCESSES :
             LET next == process_table[at[k]].next_sibling
                 u == IF k = 0
                      THEN [process_table EXCEPT ![current_process].children = next]
                      ELSE [process_table EXCEPT ![at[k - 1]].next_sibling = next]
             IN  /\ at[k] \in Slots /\ process_table[at[k]].state = "ZOMBIE"
                 /\ process_table' = [u EXCEPT ![at[k]].state = "UNUSED"]
                 /\ UNCHANGED cpu
    BY DEF sys_wait
  <2> HIDE DEF at
  <2>2. CASE cpu' = "hang" /\ UNCHANGED process_table
    BY <1>2, <2>2
  <2>3. ASSUME NEW k \in 0..MAX_PROCESSES,
               LET next == process_table[at[k]].next_sibling
                   u == IF k = 0
                        THEN [process_table EXCEPT ![current_process].children = next]
                        ELSE [process_table EXCEPT ![at[k - 1]].next_sibling = next]
               IN  /\ at[k] \in Slots /\ process_table[at[k]].state = "ZOMBIE"
                   /\ process_table' = [u EXCEPT ![at[k]].state = "UNUSED"]
                   /\ UNCHANGED cpu
        PROVE  ProcInv'
    <3> DEFINE c == at[k]
               before == at[k - 1]
    <3>1. /\ c \in Slots /\ process_table[c].state = "ZOMBIE" /\ UNCHANGED cpu
          /\ LET next == process_table[c].next_sibling
             IN  \/ process_table' = [[process_table EXCEPT
                         ![current_process].children = next] EXCEPT ![c].state = "UNUSED"]
                 \/ process_table' = [[process_table EXCEPT
                         ![before].next_sibling = next] EXCEPT ![c].state = "UNUSED"]
      BY <2>3
    <3> HIDE DEF c, before
    <3>2. QED
      BY <1>3, <3>1
  <2>4. QED
    BY <2>1, <2>2, <2>3

LEMMA ExitStep ==
  ASSUME ProcInv, process_exit \/ exit_release
  PROVE  ProcInv'
<1>1. CASE process_exit
  <2>1. /\ call.at = "idle" /\ current_process \in Slots /\ next_pid # 1
        /\ process_table[current_process].state # "UNUSED"
        /\ process_table' = [process_table EXCEPT ![current_process].state = "ZOMBIE"]
        /\ call' = [at |-> "exit", cmd |-> "none", proc |-> current_process,
                    parent |-> NULL]
        /\ UNCHANGED <<current_process, next_pid, current_directory, directories, cpu>>
    BY <1>1 DEF process_exit, At, ProcInv, TypeOK, BootAlone, Pointer, Idle
  <2>2. /\ process_table' \in [Slots -> PCB]
        /\ process_table'[current_process].pid = process_table[current_process].pid
        /\ process_table'[current_process].state = "ZOMBIE"
        /\ process_table'[current_process].page_directory
             = process_table[current_process].page_directory
        /\ \A j \in Slots \ {current_process} : process_table'[j] = process_table[j]
    BY <2>1, TypesOfPCB DEF ProcInv, TypeOK, PCB, States
  <2>3. QED
    BY <2>1, <2>2, ReleaseStep DEF ProcInv, TypeOK, Places, Commands, Pointer
<1>2. CASE exit_release
  <2>1. /\ call.at = "exit" /\ call.proc \in Slots /\ next_pid # 1
        /\ directories' \subseteq Nat /\ cpu' \in {"up", "panic", "hang"}
        /\ UNCHANGED <<current_process, next_pid, current_directory>>
    BY <1>2, DestroyTypes DEF exit_release, At, ProcInv, CallOK, BootAlone
  <2>2. CASE cpu' # "up"
    BY <1>2, <2>1, <2>2, StopStep DEF exit_release
  <2>3. CASE cpu' = "up"
    <3> DEFINE kids == Listed(process_table, process_table[call.proc].children)
               New(i) == [process_table[i] EXCEPT
                            !.page_directory = IF i = call.proc THEN NULL ELSE @,
                            !.parent = IF i \in kids THEN NULL ELSE @]
    <3>1. /\ process_table' = [i \in Slots |-> New(i)]
          /\ call' \in {Idle, [call EXCEPT !.at = "stuck"]}
      BY <1>2, <2>3 DEF exit_release
    <3> HIDE DEF kids
    <3>2. \A i \in Slots :
            /\ New(i) \in PCB /\ New(i).pid = process_table[i].pid
            /\ New(i).state = process_table[i].state
            /\ New(i).page_directory \in {process_table[i].page_directory, NULL}
      BY TypesOfPCB DEF ProcInv, PCB, NULL, Pointer
    <3> HIDE DEF New
    <3>3. /\ process_table' \in [Slots -> PCB]
          /\ \A i \in Slots : process_table'[i] = New(i)
      BY <3>1, <3>2
    <3>4. /\ call' \in [at : Places, cmd : Commands, proc : Pointer, parent : Pointer]
          /\ call'.at \in {"idle", "stuck"} /\ call'.cmd # "boot"
          /\ call'.at = "stuck" => call'.proc \in Slots
      BY <2>1, <3>1
      DEF ProcInv, TypeOK, CallOK, Idle, Places, Commands, Pointer
    <3>5. QED
      BY <2>1, <3>2, <3>3, <3>4, ReleaseStep
  <2>4. QED
    BY <2>2, <2>3
<1>3. QED
  BY <1>1, <1>2

-----------------------------------------------------------------------------
\* The timer may cut in anywhere.
LEMMA TimerStep ==
  ASSUME ProcInv, timer_irq_handler
  PROVE  ProcInv'
<1>1. PICK next \in Slots :
        /\ next # current_process /\ process_table[next].state = "READY"
        /\ process_switch(next)
  BY DEF timer_irq_handler, RoundRobin
<1>2. UNCHANGED <<next_pid, directories, call, cpu>>
  BY DEF timer_irq_handler
<1> DEFINE t == IF /\ current_process # NULL
                   /\ process_table[current_process].state = "RUNNING"
                THEN [process_table EXCEPT ![current_process].state = "READY"]
                ELSE process_table
<1>3. /\ process_table' = [t EXCEPT ![next].state = "RUNNING"]
      /\ current_process' = next
      /\ current_directory' \in {t[next].page_directory, current_directory}
  BY <1>1 DEF process_switch
<1>4. /\ t \in [Slots -> PCB]
      /\ \A j \in Slots :
           /\ t[j].pid = process_table[j].pid
           /\ t[j].page_directory = process_table[j].page_directory
           /\ j # current_process => t[j] = process_table[j]
           /\ t[j].state = "UNUSED" <=> process_table[j].state = "UNUSED"
           /\ j = current_process => t[j].state # "RUNNING"
  <2>1. current_process \in Pointer /\ 0 \notin Slots
    BY DEF ProcInv, TypeOK, Slots
  <2>2. QED
    BY <2>1, TypesOfPCB DEF ProcInv, TypeOK, PCB, States, Pointer, NULL
<1> HIDE DEF t
<1>5. /\ process_table' \in [Slots -> PCB]
      /\ process_table'[next].state = "RUNNING"
      /\ process_table'[next].pid = process_table[next].pid
      /\ process_table'[next].page_directory = process_table[next].page_directory
      /\ \A j \in Slots \ {next} : process_table'[j] = t[j]
  BY <1>3, <1>4 DEF PCB, States
<1>6. TypeOK'
  BY <1>2, <1>3, <1>4, <1>5, TypesOfPCB DEF ProcInv, TypeOK, Pointer
<1>7. \A j \in Slots :
        /\ process_table'[j].pid = process_table[j].pid
        /\ process_table'[j].page_directory = process_table[j].page_directory
        /\ InUse(j)' <=> InUse(j)
        /\ process_table'[j].state = "RUNNING" =>
             j = next \/ (j # current_process /\ process_table[j].state = "RUNNING")
        /\ Copied(j)' <=> Copied(j)
        /\ Borrowing(j)' <=> Borrowing(j)
  BY <1>1, <1>2, <1>4, <1>5 DEF InUse, Copied, Borrowing
<1>8. CallOK'
  BY <1>2 DEF ProcInv, CallOK
<1>9. RunningIsCurrent'
  BY <1>3, <1>7 DEF ProcInv, RunningIsCurrent
<1>10. UniquePids' /\ PidsIssued' /\ DirectoryByPid'
  BY <1>2, <1>7 DEF ProcInv, UniquePids, PidsIssued, DirectoryByPid
<1>11. BootAlone'
  <2>1. InUse(next)
    BY <1>1 DEF InUse
  <2>2. next_pid # 1 /\ (call.cmd = "boot" => next = call.proc)
    BY <2>1 DEF ProcInv, BootAlone
  <2>3. call.cmd = "boot" => call.proc \in Slots
    BY DEF ProcInv, CallOK
  <2>4. QED
    BY <1>2, <1>3, <1>7, <2>2, <2>3 DEF ProcInv, BootAlone
<1>12. QED
  BY <1>6, <1>8, <1>9, <1>10, <1>11 DEF ProcInv

\* ProcInv is inductive.
LEMMA ProcInvStep == ProcInv /\ [NextExit]_vars => ProcInv'
<1> SUFFICES ASSUME ProcInv, [NextExit]_vars PROVE ProcInv'
  OBVIOUS
<1>1. CASE UNCHANGED vars
  BY <1>1, StopStep DEF vars, ProcInv, TypeOK
<1>2. QED
  BY <1>1, CreatePartsStep, ForkPartsStep, SysForkStep, WaitStep, TimerStep, ExitStep
  DEF NextExit, Next

\* The invariant implies what the scheduler and process_fork promise.
LEMMA ProcInvOwnDirectory == ProcInv => OwnDirectory
BY DEF ProcInv, UniquePids, DirectoryByPid, OwnDirectory, Borrowing, Copied, NULL

LEMMA ProcInvAlways == ExitSpec => []ProcInv
BY ProcInvInit, ProcInvStep, PTL DEF ExitSpec

\* Every state the table, CR3 and the kernel thread reach is well typed: no
\* action of process.c, cut by the timer or not, writes a wild pointer.
THEOREM ProcessTypeCorrect == ExitSpec => []TypeOK
BY ProcInvAlways, PTL DEF ProcInv

\* At most one process is RUNNING and it is current_process, but for the copy
\* process_fork makes, for a table of any size and any failed allocation.
THEOREM ProcessRunningIsCurrent == ExitSpec => []RunningIsCurrent
BY ProcInvAlways, PTL DEF ProcInv

\* process_get_by_pid means one process: pids in use are distinct.
THEOREM ProcessUniquePids == ExitSpec => []UniquePids
BY ProcInvAlways, PTL DEF ProcInv

\* No two processes in use share a page directory once process_fork has cloned
\* the parent's.
THEOREM ProcessOwnDirectory == ExitSpec => []OwnDirectory
BY ProcInvAlways, ProcInvOwnDirectory, PTL

-----------------------------------------------------------------------------
\* Inside process_create and process_fork the thread holds no process that has
\* exited: process_exit begins only outside them.
CallLive ==
  call.at \notin {"idle", "exit", "stuck"} =>
    \A i \in {call.proc, call.parent} \cap Slots : process_table[i].state # "ZOMBIE"

\* What a step may do to a process that has exited: nothing, or free its slot.
Unrevived ==
  \A i \in Slots : process_table[i].state = "ZOMBIE"
    => process_table[i].state' \in {"ZOMBIE", "UNUSED"}

\* A step that leaves the states alone, frees slots, or gives slot c another state
\* than ZOMBIE, and holds no other process than before or c.
LEMMA LiveStep ==
  ASSUME CallLive, NEW c \in Slots,
         \A i \in Slots \ {c} : process_table'[i].state
                                 \in {process_table[i].state, "UNUSED"},
         process_table[c].state # "ZOMBIE" /\ process_table'[c].state # "ZOMBIE",
         call'.at \notin {"idle", "exit", "stuck"} =>
           \A i \in {call'.proc, call'.parent} \cap Slots :
             \/ i = c
             \/ call.at \notin {"idle", "exit", "stuck"} /\ i \in {call.proc, call.parent}
  PROVE  Unrevived /\ CallLive'
BY DEF CallLive, Unrevived

\* The same for a step that gives no slot another state.
LEMMA LiveSame ==
  ASSUME CallLive,
         \A i \in Slots : process_table'[i].state \in {process_table[i].state, "UNUSED"},
         call'.at \notin {"idle", "exit", "stuck"} =>
           \A i \in {call'.proc, call'.parent} \cap Slots :
             call.at \notin {"idle", "exit", "stuck"} /\ i \in {call.proc, call.parent}
  PROVE  Unrevived /\ CallLive'
BY DEF CallLive, Unrevived

\* process_create and process_fork, part by part.
LEMMA CreateForkUnrevived ==
  ASSUME ProcInv, CallLive, Create \/ Fork
  PROVE  Unrevived /\ CallLive'
<1> DEFINE Same == \A i \in Slots : process_table'[i].state = process_table[i].state
<1>0. /\ process_table \in [Slots -> PCB]
      /\ call \in [at : Places, cmd : Commands, proc : Pointer, parent : Pointer]
      /\ 0 \notin Slots
  BY DEF ProcInv, TypeOK, Slots
<1>1. ASSUME NEW cmd \in Commands, process_create(cmd)
      PROVE  Unrevived /\ CallLive'
  <2>1. PICK i \in Slots :
          /\ process_table[i].state = "UNUSED"
          /\ process_table' = [process_table EXCEPT
               ![i] = [Cleared EXCEPT !.pid = next_pid, !.state = "READY"]]
          /\ call' = [at |-> "create_directory", cmd |-> cmd, proc |-> i, parent |-> NULL]
    BY <1>1 DEF process_create, process_alloc_slot
  <2>2. QED
    BY <1>0, <2>1, LiveStep DEF Cleared, NULL
<1>2. CASE paging_create_directory \/ paging_clone_directory
  <2>1. /\ call.at \in {"create_directory", "fork_clone"} /\ call.proc \in Slots
        /\ \E pid : process_table' = [process_table EXCEPT ![call.proc].page_directory = pid]
        /\ \E place \in {"create_kernel_stack", "fork_stack"} :
             call' = [call EXCEPT !.at = place]
    BY <1>2 DEF paging_create_directory, paging_clone_directory, At, GoTo, ProcInv, CallOK
  <2>2. Same /\ call'.proc = call.proc /\ call'.parent = call.parent
    BY <1>0, <2>1 DEF PCB
  <2>3. QED
    BY <2>1, <2>2, LiveSame
<1>3. ASSUME GiveUp, call.at \in {"create_directory", "create_kernel_stack",
                                  "create_user_stack", "fork_stack"}
      PROVE  Unrevived /\ CallLive'
  <2>1. \A i \in Slots : process_table'[i].state \in {process_table[i].state, "UNUSED"}
    BY <1>0, <1>3 DEF GiveUp, PCB
  <2>2. QED
    BY <1>3, <2>1, LiveSame DEF GiveUp, Idle
<1>4. CASE create_directory_fails
  BY <1>3, <1>4 DEF create_directory_fails, At
<1>5. CASE create_kernel_stack
  <2>1. call' = [call EXCEPT !.at = "create_user_stack"] /\ Same
        /\ call.at = "create_kernel_stack"
    BY <1>5 DEF create_kernel_stack, GoTo, At
  <2>2. QED
    BY <1>0, <2>1, LiveSame
<1>6. CASE create_stack_fails \/ fork_stack_fails
  <2>1. CASE cpu' = "up"
    BY <1>3, <1>6, <2>1 DEF create_stack_fails, fork_stack_fails, At
  <2>2. CASE cpu' # "up"
    BY <1>6, <2>2, LiveSame DEF create_stack_fails, fork_stack_fails
  <2>3. QED
    BY <2>1, <2>2
<1>7. CASE create_user_stack
  <2>1. /\ Same /\ call.at = "create_user_stack"
        /\ \/ call' = Idle
           \/ call'.proc \in {call.proc, NULL} /\ call'.parent \in {call.parent, call.proc}
    BY <1>0, <1>7 DEF create_user_stack, At
  <2>2. QED
    BY <1>0, <2>1, LiveSame DEF Idle, NULL
<1>8. CASE create_table_panics
  BY <1>8, LiveSame DEF create_table_panics
<1>9. CASE process_set_current
  <2>1. /\ call.at = "set_current" /\ call.proc \in Slots
        /\ current_process \in {NULL, call.proc}
    BY <1>9 DEF process_set_current, At, ProcInv, CallOK, BootAlone
  <2>2. /\ process_table' = [process_table EXCEPT ![call.proc].state = "RUNNING"]
        /\ call' = Idle
    BY <1>9, <2>1 DEF process_set_current
  <2>3. QED
    <3>1. process_table[call.proc].state # "ZOMBIE"
      BY <2>1 DEF CallLive
    <3>2. \A i \in Slots : process_table'[i].state =
            IF i = call.proc THEN "RUNNING" ELSE process_table[i].state
      BY <1>0, <2>1, <2>2 DEF PCB
    <3>3. QED
      BY <2>1, <2>2, <3>1, <3>2, LiveStep DEF Idle
<1>10. CASE process_fork
  <2>1. call.at = "fork" /\ call.parent \in Slots
    BY <1>10 DEF process_fork, At, ProcInv, CallOK
  <2>2. CASE call' = Idle /\ UNCHANGED process_table
    BY <2>2, LiveSame DEF Idle
  <2>3. ASSUME NEW child \in Slots, process_table[child].state = "UNUSED",
               process_table' = [process_table EXCEPT
                 ![child].pid = process_table[call.parent].pid,
                 ![child].state = process_table[call.parent].state],
               call' = [call EXCEPT !.at = "fork_copy", !.proc = child]
        PROVE  Unrevived /\ CallLive'
    <3>1. \A i \in Slots : process_table'[i].state =
            IF i = child THEN process_table[call.parent].state ELSE process_table[i].state
      BY <1>0, <2>3 DEF PCB
    <3>2. process_table[call.parent].state # "ZOMBIE"
      BY <2>1 DEF CallLive
    <3>3. call'.proc = child /\ call'.parent = call.parent
      BY <1>0, <2>3
    <3>4. QED
      BY <2>1, <2>3, <3>1, <3>2, <3>3, LiveStep
  <2>4. QED
    BY <1>10, <2>2, <2>3 DEF process_fork, process_alloc_slot
<1>11. CASE fork_copy
  <2>1. /\ call.at = "fork_copy" /\ call.proc \in Slots /\ call.parent \in Slots
        /\ process_table' = [process_table EXCEPT
             ![call.proc] = [process_table[call.parent] EXCEPT
                               !.pid = process_table[call.proc].pid,
                               !.state = process_table[call.proc].state]]
        /\ call' = [call EXCEPT !.at = "fork_link"]
    BY <1>11 DEF fork_copy, At, GoTo, ProcInv, CallOK
  <2>2. Same /\ call'.proc = call.proc /\ call'.parent = call.parent
    BY <1>0, <2>1 DEF PCB
  <2>3. QED
    BY <2>1, <2>2, LiveSame
<1>12. CASE fork_link
  <2>1. /\ call.at = "fork_link" /\ call.proc \in Slots /\ call.parent \in Slots
        /\ process_table' = LinkChild(process_table, call.parent, call.proc, next_pid)
        /\ call' = [call EXCEPT !.at = "fork_clone"] /\ next_pid \in Nat
    BY <1>12 DEF fork_link, At, GoTo, ProcInv, CallOK, TypeOK
  <2>2. \A i \in Slots : process_table'[i].state =
          IF i = call.proc THEN "READY" ELSE process_table[i].state
    BY <1>0, <2>1, LinkChildFields
  <2>3. process_table[call.proc].state # "ZOMBIE"
    BY <2>1 DEF CallLive
  <2>4. call'.proc = call.proc /\ call'.parent = call.parent
    BY <1>0, <2>1
  <2>5. QED
    BY <2>1, <2>2, <2>3, <2>4, LiveStep
<1>13. CASE clone_directory_fails
  <2>1. /\ \A i \in Slots : process_table'[i].state \in {process_table[i].state, "UNUSED"}
        /\ call' \in {call, Idle}
    BY <1>0, <1>13 DEF clone_directory_fails, PCB
  <2>2. QED
    BY <2>1, LiveSame DEF Idle
<1>14. CASE fork_stack
  BY <1>14, LiveSame DEF fork_stack, Idle
<1>15. QED
  BY <1>1, <1>2, <1>4, <1>5, <1>6, <1>7, <1>8, <1>9, <1>10, <1>11, <1>12, <1>13, <1>14
  DEF Create, Fork

\* The system calls, the exits and the timer.
LEMMA OthersUnrevived ==
  ASSUME ProcInv, CallLive, sys_fork \/ sys_wait \/ process_exit \/ exit_release
                            \/ timer_irq_handler
  PROVE  Unrevived /\ CallLive'
<1>0. /\ process_table \in [Slots -> PCB] /\ 0 \notin Slots /\ current_process \in Pointer
  BY DEF ProcInv, TypeOK, Slots
<1>1. CASE sys_fork
  <2>1. /\ call.at = "idle" /\ call' = call /\ next_pid \in Nat
        /\ current_process \in Slots
    BY <1>1 DEF sys_fork, At, ProcInv, TypeOK, Pointer
  <2>2. PICK child \in Slots :
          LET linked == LinkChild([process_table EXCEPT
                                     ![child] = process_table[current_process]],
                                  current_process, child, next_pid)
          IN  /\ process_table[child].state = "UNUSED"
              /\ \/ \E d : process_table' = [linked EXCEPT ![child].page_directory = d]
                 \/ \E d : process_table' = [linked EXCEPT ![child].page_directory = d,
                                                           ![child].state = "UNUSED"]
                 \/ UNCHANGED process_table
    BY <1>1 DEF sys_fork, process_alloc_slot
  <2> DEFINE from   == [process_table EXCEPT ![child] = process_table[current_process]]
             linked == LinkChild(from, current_process, child, next_pid)
  <2>3. from \in [Slots -> PCB] /\ \A j \in Slots \ {child} : from[j] = process_table[j]
    BY <1>0, <2>1
  <2> HIDE DEF from
  <2>4. /\ linked \in [Slots -> PCB] /\ linked[child].state = "READY"
        /\ \A j \in Slots \ {child} : linked[j].state = process_table[j].state
    BY <2>1, <2>3, LinkChildFields
  <2>5. \/ \E d : process_table' = [linked EXCEPT ![child].page_directory = d]
        \/ \E d : process_table' = [linked EXCEPT ![child].page_directory = d,
                                                  ![child].state = "UNUSED"]
        \/ UNCHANGED process_table
    BY <2>2, Zenon DEF from
  <2> HIDE DEF linked
  <2>6. /\ \A j \in Slots \ {child} : process_table'[j].state = process_table[j].state
        /\ process_table'[child].state \in {"READY", "UNUSED"}
    <3>1. ASSUME NEW d, process_table' = [linked EXCEPT ![child].page_directory = d]
          PROVE  <2>6!:
      BY <2>4, <3>1 DEF PCB
    <3>2. ASSUME NEW d, process_table' = [linked EXCEPT ![child].page_directory = d,
                                                        ![child].state = "UNUSED"]
          PROVE  <2>6!:
      BY <2>4, <3>2 DEF PCB
    <3>3. QED
      BY <2>2, <2>5, <3>1, <3>2
  <2>7. QED
    BY <2>1, <2>2, <2>6, LiveStep
<1>2. CASE sys_wait
  <2>1. call.at = "idle" /\ call' = call
    BY <1>2 DEF sys_wait, At
  <2>2. \/ UNCHANGED process_table
        \/ \E c \in Slots : \E b, u :
             /\ \/ u = [process_table EXCEPT
                          ![current_process].children = process_table[c].next_sibling]
                \/ u = [process_table EXCEPT ![b].next_sibling = process_table[c].next_sibling]
             /\ process_table' = [u EXCEPT ![c].state = "UNUSED"]
    BY <1>2 DEF sys_wait
  <2>3. ASSUME NEW c \in Slots, NEW b, NEW u,
               \/ u = [process_table EXCEPT
                         ![current_process].children = process_table[c].next_sibling]
               \/ u = [process_table EXCEPT ![b].next_sibling = process_table[c].next_sibling],
               process_table' = [u EXCEPT ![c].state = "UNUSED"]
        PROVE  \A i \in Slots : process_table'[i].state \in {process_table[i].state, "UNUSED"}
    <3>1. process_table[c].next_sibling \in Pointer
      BY <1>0 DEF PCB
    <3>2. u \in [Slots -> PCB] /\ \A i \in Slots : u[i].state = process_table[i].state
      BY <1>0, <2>3, <3>1 DEF PCB
    <3>3. QED
      BY <2>3, <3>2 DEF PCB
  <2>4. QED
    BY <2>1, <2>2, <2>3, LiveSame
<1>3. CASE process_exit
  <2>1. /\ call'.at = "exit" /\ current_process \in Slots
        /\ process_table' = [process_table EXCEPT ![current_process].state = "ZOMBIE"]
    BY <1>0, <1>3 DEF process_exit, Idle, Pointer
  <2>2. \A i \in Slots : process_table'[i].state \in {process_table[i].state, "ZOMBIE"}
    BY <1>0, <2>1 DEF PCB
  <2>3. QED
    BY <2>1, <2>2 DEF CallLive, Unrevived
<1>4. CASE exit_release
  <2>1. CASE cpu' # "up"
    BY <1>4, <2>1, LiveSame DEF exit_release
  <2>2. CASE cpu' = "up"
    <3> DEFINE kids == Listed(process_table, process_table[call.proc].children)
               New(i) == [process_table[i] EXCEPT
                            !.page_directory = IF i = call.proc THEN NULL ELSE @,
                            !.parent = IF i \in kids THEN NULL ELSE @]
    <3>1. /\ call.at = "exit" /\ call' \in {Idle, [call EXCEPT !.at = "stuck"]}
          /\ call \in [at : Places, cmd : Commands, proc : Pointer, parent : Pointer]
          /\ process_table' = [i \in Slots |-> New(i)]
      BY <1>4, <2>2 DEF exit_release, At, ProcInv, TypeOK
    <3> HIDE DEF kids
    <3>2. \A i \in Slots : New(i).state = process_table[i].state
      BY <1>0 DEF PCB
    <3> HIDE DEF New
    <3>3. \A i \in Slots : process_table'[i].state = process_table[i].state
      BY <3>1, <3>2
    <3>4. call'.at \in {"idle", "stuck"}
      BY <3>1 DEF Idle
    <3>5. QED
      BY <3>3, <3>4, LiveSame
  <2>3. QED
    BY <2>1, <2>2
<1>5. CASE timer_irq_handler
  <2>1. PICK next \in Slots :
          /\ process_table[next].state = "READY" /\ process_switch(next) /\ call' = call
    BY <1>5 DEF timer_irq_handler, RoundRobin
  <2> DEFINE t == IF /\ current_process # NULL
                     /\ process_table[current_process].state = "RUNNING"
                  THEN [process_table EXCEPT ![current_process].state = "READY"]
                  ELSE process_table
  <2>2. process_table' = [t EXCEPT ![next].state = "RUNNING"]
    BY <2>1 DEF process_switch
  <2>3. t \in [Slots -> PCB]
    BY <1>0 DEF PCB, States
  <2>4. \A j \in Slots : \/ t[j].state = process_table[j].state
                         \/ t[j].state = "READY" /\ process_table[j].state = "RUNNING"
    BY <1>0 DEF PCB
  <2> HIDE DEF t
  <2>5. \A j \in Slots : \/ process_table'[j].state = process_table[j].state
                         \/ /\ process_table[j].state # "ZOMBIE"
                            /\ process_table'[j].state # "ZOMBIE"
    BY <2>1, <2>2, <2>3, <2>4 DEF PCB
  <2>6. QED
    BY <2>1, <2>5 DEF CallLive, Unrevived
<1>6. QED
  BY <1>1, <1>2, <1>3, <1>4, <1>5

\* A process that has exited stays a zombie until process_wait frees its slot: the
\* scheduler, fork and every failed allocation leave it one, in any table.
THEOREM ProcessZombieStays == ExitSpec => ZombieStays
<1>1. Init => CallLive
  BY DEF Init, CallLive, Idle
<1>2. ProcInv /\ CallLive /\ [NextExit]_vars => Unrevived /\ CallLive'
  <2> SUFFICES ASSUME ProcInv, CallLive, [NextExit]_vars PROVE Unrevived /\ CallLive'
    OBVIOUS
  <2>1. CASE UNCHANGED vars
    BY <2>1 DEF vars, Unrevived, CallLive
  <2>2. QED
    BY <2>1, CreateForkUnrevived, OthersUnrevived DEF NextExit, Next
<1>3. Unrevived => [\A i \in Slots : process_table[i].state = "ZOMBIE"
                      => process_table[i].state' \in {"ZOMBIE", "UNUSED"}]_vars
  BY DEF Unrevived
<1>4. QED
  BY <1>1, <1>2, <1>3, ProcInvAlways, PTL DEF ExitSpec, ZombieStays

-----------------------------------------------------------------------------
\* The slots s, from head on, are the list that next_sibling links in table t.
Chain(t, head, s) ==
  /\ head = IF Len(s) = 0 THEN NULL ELSE s[1]
  /\ \A k \in 1..Len(s) : t[s[k]].next_sibling = IF k = Len(s) THEN NULL ELSE s[k + 1]
  /\ \A j, k \in 1..Len(s) : s[j] = s[k] => j = k

\* c is one of the slots of list s.
InList(s, c) == \E k \in 1..Len(s) : s[k] = c

\* s is the list of children of i, among the processes M.
Kids(t, M, i, s) ==
  /\ s \in Seq(Slots)
  /\ Chain(t, t[i].children, s)
  /\ \A c \in Slots : InList(s, c) <=> c \in M /\ t[c].parent = i

\* The slots of the list are children of i.
LEMMA KidsAre ==
  ASSUME NEW t, NEW M, NEW i, NEW s, Kids(t, M, i, s)
  PROVE  \A k \in 1..Len(s) : s[k] \in Slots /\ s[k] \in M /\ t[s[k]].parent = i
<1>1. \A k \in 1..Len(s) : s[k] \in Slots /\ InList(s, s[k])
  BY DEF Kids, InList
<1>2. QED
  BY <1>1 DEF Kids

\* The processes M form a tree in table t: the members of A have a list of the
\* processes whose parent they are, and every other process has none below it.
Tree(t, M, A) ==
  /\ M \subseteq Slots /\ A \subseteq M
  /\ \A i \in A : \E s : Kids(t, M, i, s)
  /\ \A c \in M : t[c].parent # NULL => t[c].parent \in A /\ t[c].parent # c

\* The links stay, but processes without a parent may go, and their links change.
Kept(t, t2, M, M2, A) ==
  /\ M2 \subseteq M /\ A \subseteq M2
  /\ \A c \in M \ M2 : t[c].parent = NULL
  /\ \A c \in M2 : t2[c].parent = t[c].parent
  /\ \A c \in M2 : t[c].parent # NULL => t2[c].next_sibling = t[c].next_sibling
  /\ \A i \in A : t2[i].children = t[i].children

\* That keeps the tree.
LEMMA TreeKept ==
  ASSUME NEW t, NEW t2, NEW M, NEW M2, NEW A, Tree(t, M, A), Kept(t, t2, M, M2, A)
  PROVE  Tree(t2, M2, A)
<1>1. ASSUME NEW i \in A PROVE \E s : Kids(t2, M2, i, s)
  <2>1. PICK s : Kids(t, M, i, s)
    BY DEF Tree
  <2>2. i # NULL
    BY DEF Tree, Slots, NULL
  <2>3. \A c : (c \in M2 /\ t2[c].parent = i) <=> (c \in M /\ t[c].parent = i)
    BY <2>2 DEF Kept
  <2>4. \A k \in 1..Len(s) : t2[s[k]].next_sibling = t[s[k]].next_sibling
    BY <2>1, <2>2, <2>3, KidsAre DEF Kept
  <2>5. Chain(t2, t2[i].children, s)
    BY <2>1, <2>4 DEF Kids, Chain, Kept
  <2>6. QED
    BY <2>1, <2>3, <2>5 DEF Kids
<1>2. \A c \in M2 : t2[c].parent # NULL => t2[c].parent \in A /\ t2[c].parent # c
  BY DEF Tree, Kept
<1>3. QED
  BY <1>1, <1>2 DEF Tree, Kept

\* A new process c without links.
Rooted(t, t2, M, c) ==
  /\ c \in Slots \ M
  /\ t2[c].parent = NULL /\ t2[c].children = NULL
  /\ \A i \in M : /\ t2[i].parent = t[i].parent /\ t2[i].children = t[i].children
                  /\ t2[i].next_sibling = t[i].next_sibling

\* process_create adds a tree of its own.
LEMMA TreeRooted ==
  ASSUME NEW t, NEW t2, NEW M, NEW A, NEW c, Tree(t, M, A), Rooted(t, t2, M, c)
  PROVE  Tree(t2, M \cup {c}, A \cup {c})
<1>1. c # NULL /\ c \notin A
  BY DEF Rooted, Slots, NULL, Tree
<1>2. ASSUME NEW i \in A PROVE \E s : Kids(t2, M \cup {c}, i, s)
  <2>1. PICK s : Kids(t, M, i, s)
    BY DEF Tree
  <2>2. i \in M /\ i # NULL
    BY DEF Tree, Slots, NULL
  <2>3. \A d : (d \in M \cup {c} /\ t2[d].parent = i) <=> (d \in M /\ t[d].parent = i)
    BY <2>2 DEF Rooted
  <2>4. \A k \in 1..Len(s) : t2[s[k]].next_sibling = t[s[k]].next_sibling
    BY <2>1, KidsAre DEF Rooted
  <2>5. Chain(t2, t2[i].children, s)
    BY <2>1, <2>2, <2>4 DEF Kids, Chain, Rooted
  <2>6. QED
    BY <2>1, <2>3, <2>5 DEF Kids
<1>3. Kids(t2, M \cup {c}, c, <<>>)
  <2>1. \A d \in M \cup {c} : t2[d].parent # c
    BY <1>1 DEF Rooted, Tree
  <2>2. Chain(t2, t2[c].children, <<>>) /\ ~ \E d : InList(<<>>, d)
    BY DEF Rooted, Chain, InList
  <2>3. QED
    BY <2>1, <2>2 DEF Kids
<1>4. ASSUME NEW d \in M \cup {c}, t2[d].parent # NULL
      PROVE  t2[d].parent \in A \cup {c} /\ t2[d].parent # d
  BY <1>4 DEF Tree, Rooted
<1>5. QED
  BY <1>2, <1>3, <1>4 DEF Tree, Rooted

\* A new process c at the head of the list of p.
Adopted(t, t2, M, A, p, c) ==
  /\ c \in Slots \ M /\ p \in A
  /\ t2[c].parent = p /\ t2[c].children = NULL /\ t2[c].next_sibling = t[p].children
  /\ t2[p].children = c
  /\ \A i \in M : t2[i].parent = t[i].parent /\ t2[i].next_sibling = t[i].next_sibling
  /\ \A i \in M \ {p} : t2[i].children = t[i].children

\* The links of list s are those of table t, and c is not on it.
Beside(t, t2, s, c) ==
  \A k \in 1..Len(s) : s[k] # c /\ t2[s[k]].next_sibling = t[s[k]].next_sibling

\* The list r is s and c.
OneMore(r, s, c) == \A d : InList(r, d) <=> InList(s, d) \/ d = c

\* A list with one more slot at its head.
LEMMA ChainPush ==
  ASSUME NEW t, NEW t2, NEW head, NEW s \in Seq(Slots), Chain(t, head, s), NEW c \in Slots,
         t2[c].next_sibling = head, Beside(t, t2, s, c)
  PROVE  \E r \in Seq(Slots) : Chain(t2, c, r) /\ OneMore(r, s, c)
<1> DEFINE r == [k \in 1..(Len(s) + 1) |-> IF k = 1 THEN c ELSE s[k - 1]]
<1>0. Len(s) \in Nat /\ \A k \in 1..Len(s) : s[k] \in Slots
  OBVIOUS
<1>1. r \in Seq(Slots) /\ Len(r) = Len(s) + 1
  <2>1. \A k \in 1..(Len(s) + 1) : r[k] \in Slots
    BY <1>0
  <2>2. QED
    BY <1>0, <2>1
<1>2. r[1] = c /\ \A k \in 1..Len(s) : k + 1 \in 1..Len(r) /\ r[k + 1] = s[k]
  BY <1>0, <1>1
<1>3. \A k \in 1..Len(r) : k = 1 \/ (k - 1 \in 1..Len(s) /\ r[k] = s[k - 1])
  BY <1>0, <1>1
<1> HIDE DEF r
<1>4. ASSUME NEW k \in 1..Len(r)
      PROVE  t2[r[k]].next_sibling = IF k = Len(r) THEN NULL ELSE r[k + 1]
  <2>1. CASE k = 1
    <3>1. t2[r[k]].next_sibling = IF Len(s) = 0 THEN NULL ELSE s[1]
      BY <1>2, <2>1 DEF Chain
    <3>2. Len(s) # 0 => r[2] = s[1]
      BY <1>0, <1>2
    <3>3. QED
      BY <1>0, <1>1, <2>1, <3>1, <3>2
  <2>2. CASE k # 1
    <3>1. k - 1 \in 1..Len(s) /\ r[k] = s[k - 1]
      BY <1>3, <2>2
    <3>2. t2[r[k]].next_sibling = IF k - 1 = Len(s) THEN NULL ELSE s[(k - 1) + 1]
      BY <3>1 DEF Chain, Beside
    <3>3. (k - 1) + 1 = k /\ (k - 1 = Len(s) <=> k = Len(r))
      BY <1>0, <1>1
    <3>4. k # Len(r) => k \in 1..Len(s) /\ r[k + 1] = s[k]
      BY <1>0, <1>1, <1>2
    <3>5. QED
      BY <3>2, <3>3, <3>4
  <2>3. QED
    BY <2>1, <2>2
<1>5. ASSUME NEW j \in 1..Len(r), NEW k \in 1..Len(r), r[j] = r[k]
      PROVE  j = k
  <2>1. CASE j = 1 \/ k = 1
    <3>1. \A i \in 1..Len(r) : i # 1 => r[i] # r[1]
      BY <1>2, <1>3 DEF Beside
    <3>2. QED
      BY <1>5, <2>1, <3>1
  <2>2. CASE j # 1 /\ k # 1
    <3>1. j - 1 \in 1..Len(s) /\ k - 1 \in 1..Len(s) /\ s[j - 1] = s[k - 1]
      BY <1>3, <1>5, <2>2
    <3>2. j - 1 = k - 1
      BY <3>1 DEF Chain
    <3>3. QED
      BY <1>0, <1>1, <3>2
  <2>3. QED
    BY <2>1, <2>2
<1>6. Chain(t2, c, r)
  <2>1. Len(r) # 0
    BY <1>0, <1>1
  <2>2. QED
    BY <1>2, <1>4, <1>5, <2>1 DEF Chain
<1>7. OneMore(r, s, c)
  <2>1. \A k \in 1..Len(r) : r[k] = c \/ \E j \in 1..Len(s) : r[k] = s[j]
    BY <1>2, <1>3
  <2>2. 1 \in 1..Len(r)
    BY <1>0, <1>1
  <2>3. \A j \in 1..Len(s) : \E k \in 1..Len(r) : r[k] = s[j]
    BY <1>2
  <2>4. \E k \in 1..Len(r) : r[k] = c
    BY <1>2, <2>2
  <2>5. ASSUME NEW d, InList(r, d) PROVE InList(s, d) \/ d = c
    BY <2>1, <2>5 DEF InList
  <2>6. ASSUME NEW d, InList(s, d) PROVE InList(r, d)
    BY <2>3, <2>6 DEF InList
  <2>7. InList(r, c)
    BY <2>4 DEF InList
  <2>8. QED
    BY <2>5, <2>6, <2>7 DEF OneMore
<1>8. QED
  BY <1>1, <1>6, <1>7

\* fork_link and sys_fork put the child at the head of its parent's list.
LEMMA TreeAdopted ==
  ASSUME NEW t, NEW t2, NEW M, NEW A, NEW p, NEW c, Tree(t, M, A),
         Adopted(t, t2, M, A, p, c)
  PROVE  Tree(t2, M \cup {c}, A \cup {c})
<1>1. c # NULL /\ c \notin A /\ c \notin M /\ p \in M /\ p # c /\ c \in Slots
  BY DEF Adopted, Slots, NULL, Tree
<1>2. ASSUME NEW i \in A PROVE \E s : Kids(t2, M \cup {c}, i, s)
  <2>1. PICK s : Kids(t, M, i, s)
    BY DEF Tree
  <2>2. i \in M
    BY DEF Tree
  <2>3. \A k \in 1..Len(s) : s[k] \in M
    BY <2>1, KidsAre
  <2>4. Beside(t, t2, s, c)
    BY <1>1, <2>3 DEF Adopted, Beside
  <2>5. CASE i = p
    <3>1. s \in Seq(Slots) /\ Chain(t, t[p].children, s)
      BY <2>1, <2>5 DEF Kids
    <3>2. t2[c].next_sibling = t[p].children /\ t2[i].children = c
      BY <2>5 DEF Adopted
    <3>3. PICK r \in Seq(Slots) : Chain(t2, c, r) /\ OneMore(r, s, c)
      BY <1>1, <2>4, <3>1, <3>2, ChainPush
    <3>4. \A d : (d \in M \cup {c} /\ t2[d].parent = i) <=> (d \in M /\ t[d].parent = i) \/ d = c
      BY <2>5 DEF Adopted
    <3>5. \A d \in Slots : InList(r, d) <=> d \in M \cup {c} /\ t2[d].parent = i
      BY <2>1, <3>3, <3>4 DEF Kids, OneMore
    <3>6. QED
      BY <3>2, <3>3, <3>5 DEF Kids
  <2>6. CASE i # p
    <3>1. \A d : (d \in M \cup {c} /\ t2[d].parent = i) <=> (d \in M /\ t[d].parent = i)
      BY <2>6 DEF Adopted
    <3>2. Chain(t2, t2[i].children, s)
      BY <2>1, <2>2, <2>4, <2>6 DEF Kids, Chain, Adopted, Beside
    <3>3. QED
      BY <2>1, <3>1, <3>2 DEF Kids
  <2>7. QED
    BY <2>5, <2>6
<1>3. Kids(t2, M \cup {c}, c, <<>>)
  <2>1. \A d \in M \cup {c} : t2[d].parent # c
    BY <1>1 DEF Adopted, Tree
  <2>2. Chain(t2, t2[c].children, <<>>) /\ ~ \E d : InList(<<>>, d)
    BY DEF Adopted, Chain, InList
  <2>3. QED
    BY <2>1, <2>2 DEF Kids
<1>4. ASSUME NEW d \in M \cup {c}, t2[d].parent # NULL
      PROVE  t2[d].parent \in A \cup {c} /\ t2[d].parent # d
  BY <1>1, <1>4 DEF Tree, Adopted
<1>5. M \cup {c} \subseteq Slots /\ A \cup {c} \subseteq M \cup {c}
  BY <1>1 DEF Tree
<1>6. \A i \in A \cup {c} : \E s : Kids(t2, M \cup {c}, i, s)
  BY <1>2, <1>3
<1>7. QED
  BY <1>4, <1>5, <1>6 DEF Tree

\* The children of p lose their parent.
Orphaned(t, t2, M, A, p) ==
  /\ p \in A
  /\ \A c \in M : /\ t2[c].parent = IF t[c].parent = p THEN NULL ELSE t[c].parent
                  /\ t2[c].next_sibling = t[c].next_sibling
  /\ \A i \in M \ {p} : t2[i].children = t[i].children

\* process_exit lets go of the children of the process that ends.
LEMMA TreeOrphaned ==
  ASSUME NEW t, NEW t2, NEW M, NEW A, NEW p, Tree(t, M, A), Orphaned(t, t2, M, A, p)
  PROVE  Tree(t2, M, A \ {p})
<1>1. ASSUME NEW i \in A \ {p} PROVE \E s : Kids(t2, M, i, s)
  <2>1. PICK s : Kids(t, M, i, s)
    BY DEF Tree
  <2>2. i \in M /\ i # NULL /\ i # p
    BY DEF Tree, Slots, NULL
  <2>3. \A c \in M : t2[c].parent = i <=> t[c].parent = i
    BY <2>2 DEF Orphaned
  <2>4. \A k \in 1..Len(s) : t2[s[k]].next_sibling = t[s[k]].next_sibling
    BY <2>1, KidsAre DEF Orphaned
  <2>5. Chain(t2, t2[i].children, s)
    BY <2>1, <2>2, <2>4 DEF Kids, Chain, Orphaned
  <2>6. QED
    BY <2>1, <2>3, <2>5 DEF Kids
<1>2. ASSUME NEW c \in M, t2[c].parent # NULL
      PROVE  t2[c].parent \in A \ {p} /\ t2[c].parent # c
  BY <1>2 DEF Tree, Orphaned
<1>3. QED
  BY <1>1, <1>2 DEF Tree, Orphaned

\* The links of list s skip its n-th slot.
Skips(t, t2, s, n) ==
  \A j \in 1..Len(s) : j # n =>
    t2[s[j]].next_sibling = IF j = n - 1 THEN t[s[n]].next_sibling
                                         ELSE t[s[j]].next_sibling

\* The list r is s without c.
OneLess(r, s, c) == \A d : InList(r, d) <=> InList(s, d) /\ d # c

\* A list without its n-th slot, whose predecessor (or the head) skips it.
LEMMA ChainCut ==
  ASSUME NEW t, NEW t2, NEW head, NEW head2, NEW s \in Seq(Slots), Chain(t, head, s),
         NEW n \in 1..Len(s),
         head2 = IF n = 1 THEN t[s[n]].next_sibling ELSE head,
         Skips(t, t2, s, n)
  PROVE  \E r \in Seq(Slots) : Chain(t2, head2, r) /\ OneLess(r, s, s[n])
<1> DEFINE old(k) == IF k < n THEN k ELSE k + 1
           r == [k \in 1..(Len(s) - 1) |-> s[old(k)]]
<1>0. Len(s) \in Nat \ {0} /\ n \in Nat /\ n >= 1 /\ n <= Len(s) /\ \A k \in 1..Len(s) : s[k] \in Slots
  OBVIOUS
<1>a. \A k \in 1..(Len(s) - 1) : old(k) \in 1..Len(s) /\ old(k) # n /\ old(k) \in Nat
  BY <1>0
<1>b. \A j, k \in 1..(Len(s) - 1) : old(j) = old(k) => j = k
  BY <1>0
<1>c. \A j \in 1..Len(s) : j # n => \E k \in 1..(Len(s) - 1) : old(k) = j
  <2>1. SUFFICES ASSUME NEW j \in 1..Len(s), j # n
                 PROVE  \E k \in 1..(Len(s) - 1) : old(k) = j
    OBVIOUS
  <2>2. CASE j < n
    <3>1. j \in 1..(Len(s) - 1) /\ old(j) = j
      BY <1>0, <2>2
    <3>2. QED
      BY <3>1
  <2>3. CASE j > n
    <3>1. j - 1 \in 1..(Len(s) - 1) /\ old(j - 1) = j
      BY <1>0, <2>3
    <3>2. QED
      BY <3>1
  <2>4. QED
    BY <1>0, <2>1, <2>2, <2>3
<1>1. r \in Seq(Slots) /\ Len(r) = Len(s) - 1
  <2>1. Len(s) - 1 \in Nat
    BY <1>0
  <2>2. \A k \in 1..(Len(s) - 1) : s[old(k)] \in Slots
    BY <1>0, <1>a
  <2>3. QED
    BY <2>1, <2>2
<1>2. \A k \in 1..Len(r) : r[k] = s[old(k)]
  BY <1>1
<1> HIDE DEF r
<1>3. \A j, k \in 1..Len(r) : r[j] = r[k] => j = k
  <2>1. SUFFICES ASSUME NEW j \in 1..Len(r), NEW k \in 1..Len(r), r[j] = r[k] PROVE j = k
    OBVIOUS
  <2>2. s[old(j)] = s[old(k)] /\ old(j) \in 1..Len(s) /\ old(k) \in 1..Len(s)
    BY <1>1, <1>2, <1>a, <2>1
  <2>3. old(j) = old(k)
    BY <2>2 DEF Chain
  <2>4. QED
    BY <1>1, <1>b, <2>3
<1>4. ASSUME NEW k \in 1..Len(r)
      PROVE  t2[r[k]].next_sibling = IF k = Len(r) THEN NULL ELSE r[k + 1]
  <2>1. CASE k = n - 1
    <3>1. old(k) = k /\ k \in 1..Len(s) /\ k # n /\ r[k] = s[k]
      BY <1>0, <1>1, <1>2, <2>1
    <3>2. t2[r[k]].next_sibling = t[s[n]].next_sibling
      BY <2>1, <3>1 DEF Skips
    <3>3. t[s[n]].next_sibling = IF n = Len(s) THEN NULL ELSE s[n + 1]
      BY DEF Chain
    <3>4. n = Len(s) <=> k = Len(r)
      BY <1>0, <1>1, <2>1
    <3>5. k # Len(r) => k + 1 \in 1..Len(r) /\ old(k + 1) = n + 1
      BY <1>0, <1>1, <2>1
    <3>6. k # Len(r) => r[k + 1] = s[n + 1]
      BY <1>2, <3>5
    <3>7. QED
      BY <3>2, <3>3, <3>4, <3>6
  <2>2. CASE k # n - 1
    <3>1. old(k) \in 1..Len(s) /\ old(k) # n /\ r[k] = s[old(k)] /\ old(k) # n - 1
      BY <1>0, <1>1, <1>2, <1>a, <2>2
    <3>2. t2[r[k]].next_sibling = t[s[old(k)]].next_sibling
      BY <3>1 DEF Skips
    <3>3. t[s[old(k)]].next_sibling = IF old(k) = Len(s) THEN NULL ELSE s[old(k) + 1]
      BY <3>1 DEF Chain
    <3>4. old(k) = Len(s) <=> k = Len(r)
      BY <1>0, <1>1, <2>2
    <3>5. k # Len(r) => k + 1 \in 1..Len(r) /\ old(k + 1) = old(k) + 1
      BY <1>0, <1>1, <2>2
    <3>6. k # Len(r) => r[k + 1] = s[old(k) + 1]
      BY <1>2, <3>5
    <3>7. QED
      BY <3>2, <3>3, <3>4, <3>6
  <2>3. QED
    BY <2>1, <2>2
<1>5. head2 = IF Len(r) = 0 THEN NULL ELSE r[1]
  <2>1. CASE n = 1
    <3>0. t[s[n]].next_sibling = IF n = Len(s) THEN NULL ELSE s[n + 1]
      BY DEF Chain
    <3>1. head2 = IF 1 = Len(s) THEN NULL ELSE s[2]
      BY <2>1, <3>0
    <3>2. Len(r) # 0 => r[1] = s[2]
      <4>1. Len(r) # 0 => 1 \in 1..Len(r) /\ old(1) = 2
        BY <1>0, <1>1, <2>1
      <4>2. QED
        BY <1>2, <4>1
    <3>3. QED
      BY <1>0, <1>1, <3>1, <3>2
  <2>2. CASE n # 1
    <3>1. head2 = s[1] /\ Len(r) # 0 /\ 1 \in 1..Len(r) /\ old(1) = 1
      BY <1>0, <1>1, <2>2 DEF Chain
    <3>2. QED
      BY <1>2, <3>1
  <2>3. QED
    BY <2>1, <2>2
<1>6. Chain(t2, head2, r)
  BY <1>3, <1>4, <1>5 DEF Chain
<1>7. OneLess(r, s, s[n])
  <2>1. ASSUME NEW k \in 1..Len(r)
        PROVE  (\E j \in 1..Len(s) : r[k] = s[j]) /\ r[k] # s[n]
    <3>1. old(k) \in 1..Len(s) /\ old(k) # n /\ r[k] = s[old(k)]
      BY <1>1, <1>2, <1>a
    <3>2. s[old(k)] # s[n]
      BY <3>1 DEF Chain
    <3>3. QED
      BY <3>1, <3>2
  <2>2. ASSUME NEW j \in 1..Len(s), s[j] # s[n] PROVE \E k \in 1..Len(r) : r[k] = s[j]
    BY <1>1, <1>2, <1>c, <2>2
  <2>3. QED
    BY <2>1, <2>2 DEF InList, OneLess
<1>8. QED
  BY <1>1, <1>6, <1>7

\* The n-th child of p, on whose list s it is, is taken off.
Reaped(t, t2, M, A, p, s, n) ==
  /\ p \in A /\ Kids(t, M, p, s) /\ n \in 1..Len(s) /\ s[n] \notin A
  /\ Skips(t, t2, s, n)
  /\ \A c \in M \ {s[n]} : t2[c].parent = t[c].parent
  /\ \A c \in M : ~InList(s, c) => t2[c].next_sibling = t[c].next_sibling
  /\ t2[p].children = IF n = 1 THEN t[s[n]].next_sibling ELSE t[p].children
  /\ \A i \in A \ {p} : t2[i].children = t[i].children

\* process_wait takes a child that has ended off the list.
LEMMA TreeReaped ==
  ASSUME NEW t, NEW t2, NEW M, NEW A, NEW p, NEW s, NEW n, Tree(t, M, A),
         Reaped(t, t2, M, A, p, s, n)
  PROVE  Tree(t2, M \ {s[n]}, A)
<1>1. /\ p \in A /\ Kids(t, M, p, s) /\ n \in 1..Len(s) /\ s[n] \notin A
      /\ Skips(t, t2, s, n)
  BY DEF Reaped
<1>2. s[n] \in Slots /\ s[n] \in M /\ t[s[n]].parent = p
  BY <1>1, KidsAre
<1>3. ASSUME NEW i \in A PROVE \E r : Kids(t2, M \ {s[n]}, i, r)
  <2>1. CASE i = p
    <3> DEFINE head == t[p].children
               head2 == t2[p].children
    <3>1. /\ s \in Seq(Slots) /\ Chain(t, head, s)
          /\ head2 = IF n = 1 THEN t[s[n]].next_sibling ELSE head
      BY DEF Reaped, Kids
    <3>2. PICK r \in Seq(Slots) : Chain(t2, head2, r) /\ OneLess(r, s, s[n])
      <4> HIDE DEF head, head2
      <4>1. QED
        BY <1>1, <3>1, ChainCut
    <3>3. \A d \in Slots : InList(r, d) <=> d \in M \ {s[n]} /\ t2[d].parent = p
      <4>1. \A d \in Slots : InList(s, d) <=> d \in M /\ t[d].parent = p
        BY <1>1 DEF Kids
      <4>2. \A d \in M \ {s[n]} : t2[d].parent = t[d].parent
        BY DEF Reaped
      <4>3. QED
        BY <3>2, <4>1, <4>2 DEF OneLess
    <3>4. QED
      BY <2>1, <3>2, <3>3 DEF Kids
  <2>2. CASE i # p
    <3>1. PICK r : Kids(t, M, i, r)
      BY DEF Tree
    <3>2. \A k \in 1..Len(r) : r[k] \in Slots /\ r[k] \in M /\ t[r[k]].parent = i
      BY <3>1, KidsAre
    <3>3. \A k \in 1..Len(r) : ~InList(s, r[k])
      BY <1>1, <2>2, <3>2 DEF Kids
    <3>4. \A k \in 1..Len(r) : t2[r[k]].next_sibling = t[r[k]].next_sibling
      BY <3>2, <3>3 DEF Reaped
    <3>5. t2[i].children = t[i].children
      BY <2>2 DEF Reaped
    <3>6. Chain(t2, t2[i].children, r)
      BY <3>1, <3>4, <3>5 DEF Kids, Chain
    <3>7. \A d : (d \in M \ {s[n]} /\ t2[d].parent = i) <=> (d \in M /\ t[d].parent = i)
      BY <1>2, <2>2 DEF Reaped
    <3>8. QED
      BY <3>1, <3>6, <3>7 DEF Kids
  <2>3. QED
    BY <2>1, <2>2
<1>4. \A c \in M \ {s[n]} : t2[c].parent # NULL => t2[c].parent \in A /\ t2[c].parent # c
  BY DEF Tree, Reaped
<1>5. QED
  BY <1>1, <1>3, <1>4 DEF Tree
=============================================================================
