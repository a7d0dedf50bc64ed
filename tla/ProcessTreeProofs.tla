------------------------- MODULE ProcessTreeProofs --------------------------
(***************************************************************************)
(* Proofs about the tree of processes of module Process: the lists of      *)
(* children and the parent pointers, for a table of any size, when no      *)
(* allocation fails.                                                       *)
(***************************************************************************)
EXTENDS ProcessProofs

\* The processes: the slots in use but for the copy process_fork has not yet linked.
Members == {i \in Slots : InUse(i) /\ ~Copied(i)}

Zombie(i) == process_table[i].state = "ZOMBIE"

\* The process inside process_exit still has its children.
Exiting(i) == call.at = "exit" /\ call.proc = i

Living == {i \in Members : ~Zombie(i) \/ Exiting(i)}

\* A process the kernel thread has just created: it has no links.
Fresh(i) ==
  /\ InUse(i) /\ ~Zombie(i)
  /\ process_table[i].parent = NULL /\ process_table[i].children = NULL
  /\ process_table[i].next_sibling = NULL

Making ==
  /\ call.at \in {"create_directory", "create_kernel_stack", "create_user_stack", "set_current"}
       => Fresh(call.proc)
  /\ call.at \in {"fork", "fork_copy", "fork_link"}
       => Fresh(call.parent) /\ call.proc # call.parent
  /\ call.at \in {"fork_copy", "fork_link", "fork_clone"}
       => InUse(call.proc) /\ ~Zombie(call.proc)
  /\ call.at = "exit" => Zombie(call.proc)
  /\ call.at # "stuck"

\* A process that is not ended has a directory once it is made.
HasDirectory ==
  \A i \in Slots : InUse(i) =>
    /\ process_table[i].pid # 0
    /\ \/ process_table[i].page_directory # NULL
       \/ Zombie(i)
       \/ call.at \in {"create_directory", "fork_copy"} /\ call.proc = i

\* The stale list of children of cur, a process that has ended, stays inside S,
\* where the processes with a parent end the walk and are not zombies.
Ghosts(t, M, cur, S) ==
  /\ t[cur].children \in S \cup {NULL}
  /\ cur \notin S
  /\ \A c \in S : t[c].next_sibling \in S \cup {NULL}
  /\ \A c \in S \cap M :
       t[c].parent # NULL => t[c].next_sibling = NULL /\ t[c].state # "ZOMBIE"

\* The current process may have ended: it can still call fork and wait until the
\* timer takes it off the processor.
Ended == current_process # NULL /\ Zombie(current_process) /\ ~Exiting(current_process)

Ghostly ==
  Ended => /\ process_table[current_process].page_directory = NULL
           /\ \E S \in SUBSET Slots : Ghosts(process_table, Members, current_process, S)

TreeInv ==
  /\ Tree(process_table, Members, Living)
  /\ Making /\ HasDirectory /\ Ghostly /\ CurrentInUse

LEMMA TreeInvInit == Init => TreeInv
<1> SUFFICES ASSUME Init PROVE TreeInv
  OBVIOUS
<1>1. \A i \in Slots : ~InUse(i)
  BY DEF Init, Cleared, InUse
<1>2. Members = {} /\ Living = {}
  BY <1>1 DEF Members, Living
<1>3. Tree(process_table, Members, Living)
  BY <1>2 DEF Tree
<1>4. QED
  BY <1>1, <1>3 DEF Init, Idle, TreeInv, Making, HasDirectory, Ghostly, Ended, CurrentInUse

\* A step that changes no links of the processes and no process's life keeps the tree.
LEMMA QuietTree ==
  ASSUME Tree(process_table, Members, Living),
         \A i \in Slots : (i \in Members' <=> i \in Members) /\ (i \in Living' <=> i \in Living),
         \A i \in Members : /\ process_table'[i].parent = process_table[i].parent
                            /\ process_table'[i].children = process_table[i].children
                            /\ process_table'[i].next_sibling = process_table[i].next_sibling
  PROVE  Tree(process_table, Members, Living)'
<1>1. Members' = Members /\ Living' = Living
  BY DEF Members, Living
<1>2. Kept(process_table, process_table', Members, Members, Living)
  BY DEF Kept, Living
<1>3. Tree(process_table', Members, Living)
  BY <1>2, TreeKept
<1>4. QED
  BY <1>1, <1>3

\* The stale list stays harmless when no link but to NULL is made, and a process
\* that gets a parent has no sibling after it.
LEMMA QuietGhosts ==
  ASSUME Ghostly, current_process' = current_process, current_process \in Pointer,
         Ended' => /\ Ended
                   /\ process_table'[current_process].page_directory
                        = process_table[current_process].page_directory
                   /\ process_table'[current_process].children
                        = process_table[current_process].children,
         \A c \in Slots : process_table'[c].next_sibling
                            \in {NULL, process_table[c].next_sibling},
         \A c \in Slots : c \in Members' =>
           \/ process_table'[c].parent = NULL
           \/ process_table'[c].next_sibling = NULL /\ ~Zombie(c)'
           \/ /\ c \in Members /\ (Zombie(c)' => Zombie(c))
              /\ process_table'[c].parent = process_table[c].parent
              /\ process_table'[c].next_sibling = process_table[c].next_sibling
  PROVE  Ghostly'
<1>1. SUFFICES ASSUME Ended'
               PROVE  /\ process_table'[current_process].page_directory = NULL
                      /\ \E S \in SUBSET Slots :
                           Ghosts(process_table', Members', current_process, S)
  BY DEF Ghostly
<1>2. PICK S \in SUBSET Slots : Ghosts(process_table, Members, current_process, S)
  BY <1>1 DEF Ghostly
<1>3. Ghosts(process_table', Members', current_process, S)
  <2>1. /\ process_table'[current_process].children \in S \cup {NULL}
        /\ current_process \notin S
    BY <1>1, <1>2 DEF Ghosts
  <2>2. \A c \in S : process_table'[c].next_sibling \in S \cup {NULL}
    BY <1>2 DEF Ghosts
  <2>3. \A c \in S : c \in Members' /\ process_table'[c].parent # NULL
          => process_table'[c].next_sibling = NULL /\ process_table'[c].state # "ZOMBIE"
    BY <1>2 DEF Ghosts, Zombie
  <2>4. QED
    BY <2>1, <2>2, <2>3 DEF Ghosts
<1>4. QED
  BY <1>1, <1>3 DEF Ghostly

\* A step that changes no links, takes no slot into or out of use and ends no
\* process; the current process stays or a running one follows it.
LEMMA StillStep ==
  ASSUME TypeOK, TreeInv,
         \A i \in Slots :
           /\ process_table'[i].parent = process_table[i].parent
           /\ process_table'[i].children = process_table[i].children
           /\ process_table'[i].next_sibling = process_table[i].next_sibling
           /\ InUse(i)' <=> InUse(i)
           /\ Zombie(i)' <=> Zombie(i)
           /\ Copied(i)' <=> Copied(i)
           /\ Exiting(i)' <=> Exiting(i)
           /\ Zombie(i) => process_table'[i].page_directory = process_table[i].page_directory,
         \/ current_process' = current_process
         \/ current_process' \in Slots /\ process_table'[current_process'].state = "RUNNING"
  PROVE  Tree(process_table, Members, Living)' /\ Ghostly' /\ CurrentInUse'
<1>1. \A i \in Slots : (i \in Members' <=> i \in Members) /\ (i \in Living' <=> i \in Living)
  BY DEF Members, Living
<1>2. Tree(process_table, Members, Living) /\ Ghostly /\ CurrentInUse
  BY DEF TreeInv
<1>3. Members \subseteq Slots
  BY DEF Members
<1>4. Tree(process_table, Members, Living)'
  BY <1>1, <1>2, <1>3, QuietTree
<1>5. current_process \in Slots \/ current_process = NULL
  BY DEF TypeOK, Pointer
<1>6. CASE current_process' = current_process
  <2>1. CurrentInUse'
    BY <1>2, <1>5, <1>6 DEF CurrentInUse
  <2>2. Ended' => /\ Ended
                  /\ process_table'[current_process].page_directory
                       = process_table[current_process].page_directory
                  /\ process_table'[current_process].children
                       = process_table[current_process].children
    BY <1>5, <1>6 DEF Ended
  <2>3. current_process \in Pointer
    BY DEF TypeOK
  <2>4. Ghostly'
    BY <1>1, <1>2, <1>6, <2>2, <2>3, QuietGhosts
  <2>5. QED
    BY <1>4, <2>1, <2>4
<1>7. CASE current_process' \in Slots /\ process_table'[current_process'].state = "RUNNING"
  BY <1>4, <1>7 DEF Ghostly, Ended, Zombie, CurrentInUse, InUse
<1>8. QED
  BY <1>6, <1>7

\* process_create's first part: a process without links.
LEMMA CreateTree ==
  ASSUME ProcInv, TreeInv, NEW cmd \in Commands, process_create(cmd)
  PROVE  TreeInv'
<1>1. PICK i \in Slots :
        /\ process_table[i].state = "UNUSED"
        /\ process_table' = [process_table EXCEPT
             ![i] = [Cleared EXCEPT !.pid = next_pid, !.state = "READY"]]
        /\ call' = [at |-> "create_directory", cmd |-> cmd, proc |-> i, parent |-> NULL]
  BY DEF process_create, process_alloc_slot
<1>2. /\ call.at = "idle" /\ next_pid \in Nat /\ next_pid # 0 /\ TypeOK
      /\ UNCHANGED <<current_process, current_directory, directories, cpu>>
  BY DEF process_create, At, ProcInv, TypeOK, PidsIssued
<1>3. /\ process_table'[i].pid = next_pid /\ process_table'[i].state = "READY"
      /\ process_table'[i].parent = NULL /\ process_table'[i].children = NULL
      /\ process_table'[i].next_sibling = NULL
      /\ \A j \in Slots \ {i} : process_table'[j] = process_table[j]
  BY <1>1, <1>2 DEF TypeOK, Cleared
<1>4. call'.at = "create_directory" /\ call'.proc = i
  BY <1>1
<1>5. \A j \in Slots : ~Copied(j) /\ ~Copied(j)' /\ ~Exiting(j) /\ ~Exiting(j)'
  BY <1>2, <1>4 DEF Copied, Exiting
<1>6. Members' = Members \cup {i} /\ i \notin Members
  BY <1>1, <1>3, <1>5 DEF Members, InUse
<1>7. Living' = Living \cup {i}
  BY <1>1, <1>3, <1>5, <1>6 DEF Living, Members, InUse, Zombie
<1>8. Rooted(process_table, process_table', Members, i)
  BY <1>3, <1>6 DEF Rooted, Members
<1>9. Tree(process_table', Members \cup {i}, Living \cup {i})
  BY <1>8, TreeRooted DEF TreeInv
<1>10. Tree(process_table, Members, Living)'
  BY <1>6, <1>7, <1>9
<1>11. Making'
  BY <1>3, <1>4 DEF Making, Fresh, InUse, Zombie
<1>12. HasDirectory'
  BY <1>2, <1>3, <1>4 DEF TreeInv, HasDirectory, InUse, Zombie
<1>13. current_process \in Pointer /\ (current_process # NULL => current_process \in Slots \ {i})
  BY <1>1, <1>2 DEF TreeInv, CurrentInUse, TypeOK, Pointer, InUse
<1>14. CurrentInUse'
  BY <1>2, <1>3, <1>13 DEF TreeInv, CurrentInUse, InUse
<1>15. Ghostly'
  <2>1. Ended' => /\ Ended /\ process_table'[current_process] = process_table[current_process]
    BY <1>2, <1>3, <1>5, <1>13 DEF Ended, Zombie
  <2>2. \A c \in Slots : process_table'[c].next_sibling \in {NULL, process_table[c].next_sibling}
    BY <1>3
  <2>3. \A c \in Slots \ {i} : c \in Members' =>
          c \in Members /\ process_table'[c] = process_table[c] /\ (Zombie(c)' => Zombie(c))
    BY <1>3, <1>6 DEF Zombie
  <2>4. QED
    BY <1>2, <1>3, <1>13, <2>1, <2>2, <2>3, QuietGhosts DEF TreeInv
<1>16. QED
  BY <1>10, <1>11, <1>12, <1>14, <1>15 DEF TreeInv

\* The rest of process_create and shell_create_process, when no allocation fails.
LEMMA CreatePartsTree ==
  ASSUME FailSites = {}, ProcInv, TreeInv,
         \/ paging_create_directory \/ create_directory_fails
         \/ create_kernel_stack \/ create_stack_fails
         \/ create_user_stack \/ create_table_panics
         \/ process_set_current
  PROVE  TreeInv'
<1>1. /\ TypeOK /\ CallOK /\ BootAlone /\ Making /\ HasDirectory /\ CurrentInUse
  BY DEF ProcInv, TreeInv
<1>2. CASE paging_create_directory
  <2>1. /\ call.at = "create_directory" /\ call'.at = "create_kernel_stack"
        /\ call'.proc = call.proc /\ call.proc \in Slots
        /\ current_process' = current_process
    BY <1>1, <1>2 DEF paging_create_directory, At, GoTo, TypeOK, CallOK
  <2>2. \A i \in Slots :
          /\ process_table'[i].parent = process_table[i].parent
          /\ process_table'[i].children = process_table[i].children
          /\ process_table'[i].next_sibling = process_table[i].next_sibling
          /\ process_table'[i].state = process_table[i].state
          /\ process_table'[i].pid = process_table[i].pid
          /\ i # call.proc => process_table'[i] = process_table[i]
    BY <1>1, <1>2, <2>1 DEF paging_create_directory, TypeOK, PCB
  <2>3. process_table'[call.proc].page_directory = process_table[call.proc].pid
    BY <1>1, <1>2, <2>1 DEF paging_create_directory, TypeOK, PCB
  <2>4. Fresh(call.proc) /\ process_table[call.proc].pid # 0
    BY <1>1, <2>1 DEF Making, HasDirectory, Fresh
  <2>5. Making'
    BY <2>1, <2>2, <2>4 DEF Making, Fresh, InUse, Zombie
  <2>6. HasDirectory'
    BY <1>1, <2>1, <2>2, <2>3, <2>4 DEF HasDirectory, InUse, Zombie, NULL
  <2>7. \A i \in Slots :
          /\ InUse(i)' <=> InUse(i)
          /\ Zombie(i)' <=> Zombie(i)
          /\ Copied(i)' <=> Copied(i)
          /\ Exiting(i)' <=> Exiting(i)
          /\ Zombie(i) => process_table'[i].page_directory = process_table[i].page_directory
    BY <2>1, <2>2, <2>4 DEF InUse, Zombie, Copied, Exiting, Fresh
  <2>8. Tree(process_table, Members, Living)' /\ Ghostly' /\ CurrentInUse'
    BY <1>1, <2>1, <2>2, <2>7, StillStep
  <2>9. QED
    BY <2>5, <2>6, <2>8 DEF TreeInv
<1>3. CASE create_kernel_stack
  <2>1. /\ call.at = "create_kernel_stack" /\ call'.at = "create_user_stack"
        /\ call'.proc = call.proc /\ UNCHANGED <<process_table, current_process>>
    BY <1>1, <1>3 DEF create_kernel_stack, At, GoTo, TypeOK
  <2>2. Making' /\ HasDirectory'
    BY <1>1, <2>1 DEF Making, HasDirectory, Fresh, InUse, Zombie
  <2>3. \A i \in Slots : /\ InUse(i)' <=> InUse(i)
                         /\ Zombie(i)' <=> Zombie(i)
                         /\ Copied(i)' <=> Copied(i)
                         /\ Exiting(i)' <=> Exiting(i)
    BY <2>1 DEF InUse, Zombie, Copied, Exiting
  <2>4. Tree(process_table, Members, Living)' /\ Ghostly' /\ CurrentInUse'
    BY <1>1, <2>1, <2>3, StillStep
  <2>5. QED
    BY <2>2, <2>4 DEF TreeInv
<1>4. CASE create_user_stack
  <2>1. /\ call.at = "create_user_stack" /\ call.proc \in Slots
        /\ UNCHANGED <<process_table, current_process>>
        /\ \/ call'.at = "idle"
           \/ call'.at = "set_current" /\ call'.proc = call.proc
           \/ call'.at = "fork" /\ call'.parent = call.proc /\ call'.proc = NULL
    BY <1>1, <1>4 DEF create_user_stack, At, TypeOK, CallOK, Idle
  <2>2. call.proc # NULL
    BY <2>1 DEF Slots, NULL
  <2>3. Making' /\ HasDirectory'
    BY <1>1, <2>1, <2>2 DEF Making, HasDirectory, Fresh, InUse, Zombie
  <2>4. \A i \in Slots : /\ InUse(i)' <=> InUse(i)
                         /\ Zombie(i)' <=> Zombie(i)
                         /\ Copied(i)' <=> Copied(i)
                         /\ Exiting(i)' <=> Exiting(i)
    BY <2>1 DEF InUse, Zombie, Copied, Exiting
  <2>5. Tree(process_table, Members, Living)' /\ Ghostly' /\ CurrentInUse'
    BY <1>1, <2>1, <2>4, StillStep
  <2>6. QED
    BY <2>3, <2>5 DEF TreeInv
<1>5. CASE process_set_current
  <2>1. /\ call.at = "set_current" /\ call'.at = "idle" /\ call.proc \in Slots
        /\ current_process' = call.proc /\ current_process \in {NULL, call.proc}
    BY <1>1, <1>5 DEF process_set_current, At, TypeOK, CallOK, BootAlone, Idle
  <2>2. process_table' = [process_table EXCEPT ![call.proc].state = "RUNNING"]
    BY <1>5, <2>1 DEF process_set_current
  <2>3. /\ \A i \in Slots :
             /\ process_table'[i].parent = process_table[i].parent
             /\ process_table'[i].children = process_table[i].children
             /\ process_table'[i].next_sibling = process_table[i].next_sibling
             /\ process_table'[i].page_directory = process_table[i].page_directory
             /\ process_table'[i].pid = process_table[i].pid
             /\ i # call.proc => process_table'[i] = process_table[i]
        /\ process_table'[call.proc].state = "RUNNING"
    BY <1>1, <2>1, <2>2 DEF TypeOK, PCB
  <2>4. Fresh(call.proc)
    BY <1>1, <2>1 DEF Making
  <2>5. \A i \in Slots : /\ InUse(i)' <=> InUse(i)
                         /\ Zombie(i)' <=> Zombie(i)
                         /\ Copied(i)' <=> Copied(i)
                         /\ Exiting(i)' <=> Exiting(i)
    BY <2>1, <2>3, <2>4 DEF InUse, Zombie, Copied, Exiting, Fresh
  <2>6. Making' /\ HasDirectory'
    BY <1>1, <2>1, <2>3, <2>5 DEF Making, HasDirectory
  <2>7. Tree(process_table, Members, Living)' /\ Ghostly' /\ CurrentInUse'
    BY <1>1, <2>1, <2>3, <2>5, StillStep
  <2>8. QED
    BY <2>6, <2>7 DEF TreeInv
<1>6. ~create_directory_fails /\ ~create_stack_fails /\ ~create_table_panics
  BY DEF create_directory_fails, create_stack_fails, create_table_panics
<1>7. QED
  BY <1>2, <1>3, <1>4, <1>5, <1>6

-----------------------------------------------------------------------------
\* What LinkChild does to the links.
LEMMA LinkChildLinks ==
  ASSUME NEW t \in [Slots -> PCB], NEW parent \in Slots, NEW child \in Slots,
         child # parent, NEW pid \in Nat
  PROVE  LET u == LinkChild(t, parent, child, pid)
         IN  /\ u[child].parent = parent /\ u[child].children = NULL
             /\ u[child].next_sibling = t[parent].children
             /\ u[parent].children = child
             /\ \A j \in Slots \ {child} : /\ u[j].parent = t[j].parent
                                           /\ u[j].next_sibling = t[j].next_sibling
             /\ \A j \in Slots \ {child, parent} : u[j] = t[j]
<1> DEFINE t1 == [t EXCEPT ![child].pid = pid, ![child].state = "READY",
                           ![child].parent = parent, ![child].children = NULL]
           t2 == [t1 EXCEPT ![child].next_sibling = t1[parent].children]
           u  == [t2 EXCEPT ![parent].children = child]
<1>0. LinkChild(t, parent, child, pid) = u
  BY Zenon DEF LinkChild
<1>1. /\ t1 \in [Slots -> PCB] /\ t1[child].parent = parent /\ t1[child].children = NULL
      /\ \A j \in Slots \ {child} : t1[j] = t[j]
  <2> DEFINE r == [t[child] EXCEPT !.pid = pid, !.state = "READY", !.parent = parent,
                                   !.children = NULL]
  <2>1. r \in PCB /\ r.parent = parent /\ r.children = NULL
    BY DEF PCB, States, Pointer, NULL
  <2>2. t1 = [t EXCEPT ![child] = r]
    BY DEF PCB
  <2> HIDE DEF r, t1
  <2>3. QED
    BY <2>1, <2>2
<1> HIDE DEF t1
<1>2. /\ t2 \in [Slots -> PCB] /\ t2[child].parent = parent /\ t2[child].children = NULL
      /\ t2[child].next_sibling = t[parent].children
      /\ \A j \in Slots \ {child} : t2[j] = t[j]
  BY <1>1 DEF PCB
<1> HIDE DEF t2
<1>3. /\ u[child] = t2[child] /\ u[parent].children = child
      /\ u[parent].parent = t2[parent].parent
      /\ u[parent].next_sibling = t2[parent].next_sibling
      /\ \A j \in Slots \ {parent} : u[j] = t2[j]
  BY <1>2 DEF PCB
<1> HIDE DEF u
<1>4. QED
  BY <1>0, <1>2, <1>3

\* process_fork takes a slot, which is no process yet.
LEMMA ForkTree ==
  ASSUME ProcInv, TreeInv, process_fork
  PROVE  TreeInv'
<1>1. TypeOK /\ CallOK /\ Making /\ HasDirectory /\ CurrentInUse
  BY DEF ProcInv, TreeInv
<1>2. /\ call.at = "fork" /\ call.parent \in Slots /\ Fresh(call.parent)
      /\ current_process' = current_process
  BY <1>1 DEF process_fork, At, CallOK, Making
<1>3. CASE call' = Idle /\ UNCHANGED process_table
  <2>1. call'.at = "idle"
    BY <1>3 DEF Idle
  <2>2. Making' /\ HasDirectory'
    BY <1>1, <1>2, <1>3, <2>1 DEF Making, HasDirectory, InUse, Zombie
  <2>3. \A i \in Slots : /\ InUse(i)' <=> InUse(i)
                         /\ Zombie(i)' <=> Zombie(i)
                         /\ Copied(i)' <=> Copied(i)
                         /\ Exiting(i)' <=> Exiting(i)
    BY <1>2, <1>3, <2>1 DEF InUse, Zombie, Copied, Exiting
  <2>4. Tree(process_table, Members, Living)' /\ Ghostly' /\ CurrentInUse'
    BY <1>1, <1>2, <1>3, <2>3, StillStep
  <2>5. QED
    BY <2>2, <2>4 DEF TreeInv
<1>4. ASSUME NEW child \in Slots, process_table[child].state = "UNUSED",
             process_table' = [process_table EXCEPT
               ![child].pid = process_table[call.parent].pid,
               ![child].state = process_table[call.parent].state],
             call' = [call EXCEPT !.at = "fork_copy", !.proc = child]
      PROVE  TreeInv'
  <2>1. /\ call'.at = "fork_copy" /\ call'.proc = child /\ call'.parent = call.parent
    BY <1>1, <1>4 DEF TypeOK
  <2>2. /\ process_table'[child].pid = process_table[call.parent].pid
        /\ process_table'[child].state = process_table[call.parent].state
        /\ process_table'[child].next_sibling = process_table[child].next_sibling
        /\ \A j \in Slots \ {child} : process_table'[j] = process_table[j]
    BY <1>1, <1>4, TypesOfPCB DEF TypeOK, PCB
  <2>3. child # call.parent /\ child # current_process /\ current_process \in Pointer
    BY <1>1, <1>2, <1>4 DEF Fresh, InUse, CurrentInUse, NULL, Slots, TypeOK
  <2>4. InUse(child)' /\ ~Zombie(child)' /\ ~InUse(child) /\ process_table'[child].pid # 0
    BY <1>1, <1>2, <1>4, <2>2 DEF Fresh, InUse, Zombie, HasDirectory
  <2>5. \A i \in Slots \ {child} : /\ InUse(i)' <=> InUse(i)
                                   /\ Zombie(i)' <=> Zombie(i)
    BY <2>2 DEF InUse, Zombie
  <2>6. /\ \A i \in Slots : ~Copied(i) /\ ~Exiting(i) /\ ~Exiting(i)'
        /\ \A i \in Slots : Copied(i)' <=> i = child
    BY <1>2, <2>1 DEF Copied, Exiting
  <2>7. \A i \in Slots : (i \in Members' <=> i \in Members) /\ (i \in Living' <=> i \in Living)
    BY <2>4, <2>5, <2>6 DEF Members, Living
  <2>8. \A i \in Members : i \in Slots \ {child}
    BY <2>4 DEF Members
  <2>9. Tree(process_table, Members, Living)'
    BY <2>2, <2>7, <2>8, QuietTree DEF TreeInv
  <2>10. Making'
    BY <1>2, <2>1, <2>2, <2>3, <2>4 DEF Making, Fresh, InUse, Zombie
  <2>11. HasDirectory'
    BY <1>1, <1>2, <2>1, <2>2, <2>4, <2>5 DEF HasDirectory
  <2>12. CurrentInUse'
    BY <1>1, <1>2, <2>3, <2>5 DEF CurrentInUse, Pointer
  <2>13. Ghostly'
    <3>1. Ended' => Ended /\ process_table'[current_process] = process_table[current_process]
      BY <1>2, <2>2, <2>3, <2>5, <2>6 DEF Ended, Pointer
    <3>2. \A c \in Slots : process_table'[c].next_sibling \in {NULL, process_table[c].next_sibling}
      BY <2>2
    <3>3. \A c \in Slots : c \in Members' =>
            c \in Members /\ process_table'[c] = process_table[c] /\ (Zombie(c)' => Zombie(c))
      BY <2>2, <2>5, <2>7, <2>8
    <3>4. QED
      BY <1>2, <2>3, <3>1, <3>2, <3>3, QuietGhosts DEF TreeInv
  <2>14. QED
    BY <2>9, <2>10, <2>11, <2>12, <2>13 DEF TreeInv
<1>5. QED
  BY <1>3, <1>4 DEF process_fork, process_alloc_slot

\* The copy of the parent has no links, for the parent has none.
LEMMA ForkCopyTree ==
  ASSUME ProcInv, TreeInv, fork_copy
  PROVE  TreeInv'
<1>1. TypeOK /\ CallOK /\ Making /\ HasDirectory /\ CurrentInUse
  BY DEF ProcInv, TreeInv
<1> DEFINE child == call.proc
           parent == call.parent
<1>2. /\ call.at = "fork_copy" /\ parent \in Slots /\ Fresh(parent) /\ child \in Slots
      /\ child # parent /\ InUse(child) /\ ~Zombie(child)
      /\ current_process' = current_process
      /\ call'.at = "fork_link" /\ call'.proc = child /\ call'.parent = parent
  BY <1>1 DEF fork_copy, At, CallOK, Making, GoTo, TypeOK
<1>3. /\ process_table'[child].pid = process_table[child].pid
      /\ process_table'[child].state = process_table[child].state
      /\ process_table'[child].next_sibling = NULL
      /\ process_table'[child].page_directory = process_table[parent].page_directory
      /\ \A j \in Slots \ {child} : process_table'[j] = process_table[j]
  BY <1>1, <1>2, TypesOfPCB DEF fork_copy, TypeOK, PCB, Fresh
<1> HIDE DEF child, parent
<1>4. \A i \in Slots : /\ InUse(i)' <=> InUse(i)
                       /\ Zombie(i)' <=> Zombie(i)
                       /\ ~Exiting(i) /\ ~Exiting(i)'
                       /\ Copied(i) <=> i = child
                       /\ Copied(i)' <=> i = child
  BY <1>2, <1>3 DEF InUse, Zombie, Exiting, Copied, child
<1>5. \A i \in Slots : /\ (i \in Members' <=> i \in Members) /\ (i \in Living' <=> i \in Living)
                       /\ i \in Members => i # child
  BY <1>4 DEF Members, Living
<1>6. Tree(process_table, Members, Living)'
  <2>1. Members \subseteq Slots
    BY DEF Members
  <2>2. QED
    BY <1>3, <1>5, <2>1, QuietTree DEF TreeInv
<1>7. Making'
  BY <1>2, <1>3, <1>4 DEF Making, Fresh
<1>8. HasDirectory'
  <2>1. process_table[parent].page_directory # NULL
    BY <1>1, <1>2 DEF HasDirectory, Fresh, child
  <2>2. QED
    BY <1>1, <1>2, <1>3, <1>4, <2>1 DEF HasDirectory, child
<1>9. current_process \in Slots \/ current_process = NULL
  BY <1>1 DEF TypeOK, Pointer
<1>10. CurrentInUse'
  BY <1>1, <1>2, <1>4, <1>9 DEF CurrentInUse
<1>11. Ghostly'
  <2>1. Ended' => Ended /\ process_table'[current_process] = process_table[current_process]
    BY <1>2, <1>3, <1>4, <1>9 DEF Ended
  <2>2. \A c \in Slots : process_table'[c].next_sibling \in {NULL, process_table[c].next_sibling}
    BY <1>3
  <2>3. \A c \in Slots : c \in Members' =>
          c \in Members /\ process_table'[c] = process_table[c] /\ (Zombie(c)' => Zombie(c))
    BY <1>3, <1>4, <1>5
  <2>4. current_process \in Pointer
    BY <1>1 DEF TypeOK
  <2>5. QED
    BY <1>2, <2>1, <2>2, <2>3, <2>4, QuietGhosts DEF TreeInv
<1>12. QED
  BY <1>6, <1>7, <1>8, <1>10, <1>11 DEF TreeInv

\* process_fork makes the copy a process, the head of its parent's list.
LEMMA ForkLinkTree ==
  ASSUME ProcInv, TreeInv, fork_link
  PROVE  TreeInv'
<1>1. TypeOK /\ CallOK /\ Making /\ HasDirectory /\ CurrentInUse
  BY DEF ProcInv, TreeInv
<1> DEFINE child == call.proc
           parent == call.parent
<1>2. /\ call.at = "fork_link" /\ parent \in Slots /\ Fresh(parent) /\ child \in Slots
      /\ child # parent /\ InUse(child) /\ ~Zombie(child)
      /\ current_process' = current_process
      /\ call'.at = "fork_clone" /\ call'.proc = child
      /\ process_table' = LinkChild(process_table, parent, child, next_pid)
      /\ next_pid \in Nat /\ next_pid # 0 /\ process_table \in [Slots -> PCB]
  BY <1>1 DEF fork_link, At, CallOK, Making, GoTo, TypeOK, ProcInv, PidsIssued
<1> HIDE DEF child, parent
<1>3. /\ process_table'[child].pid = next_pid /\ process_table'[child].state = "READY"
      /\ process_table'[child].page_directory = process_table[child].page_directory
      /\ \A j \in Slots \ {child} :
           /\ process_table'[j].pid = process_table[j].pid
           /\ process_table'[j].state = process_table[j].state
           /\ process_table'[j].page_directory = process_table[j].page_directory
  BY <1>2, LinkChildFields
<1>4. /\ process_table'[child].parent = parent /\ process_table'[child].children = NULL
      /\ process_table'[child].next_sibling = process_table[parent].children
      /\ process_table'[parent].children = child
      /\ \A j \in Slots \ {child} :
           /\ process_table'[j].parent = process_table[j].parent
           /\ process_table'[j].next_sibling = process_table[j].next_sibling
      /\ \A j \in Slots \ {child, parent} : process_table'[j] = process_table[j]
  BY <1>2, LinkChildLinks
<1>5. /\ process_table[parent].children = NULL /\ InUse(parent) /\ ~Zombie(parent)
      /\ process_table'[child].next_sibling = NULL
  BY <1>2, <1>4 DEF Fresh
<1>6. \A i \in Slots : /\ InUse(i)' <=> InUse(i)
                       /\ Zombie(i)' <=> Zombie(i)
                       /\ ~Exiting(i) /\ ~Exiting(i)'
                       /\ Copied(i) <=> i = child
                       /\ ~Copied(i)'
  BY <1>2, <1>3 DEF InUse, Zombie, Exiting, Copied, child
<1>7. /\ Members' = Members \cup {child} /\ Living' = Living \cup {child}
      /\ child \notin Members /\ parent \in Living
  <2>1. Members' = Members \cup {child} /\ child \notin Members /\ parent \in Members
    BY <1>2, <1>5, <1>6 DEF Members
  <2>2. QED
    BY <1>2, <1>5, <1>6, <2>1 DEF Living, Members
<1>8. Adopted(process_table, process_table', Members, Living, parent, child)
  BY <1>2, <1>4, <1>7 DEF Adopted, Members
<1>9. Tree(process_table', Members \cup {child}, Living \cup {child})
  BY <1>8, TreeAdopted DEF TreeInv
<1>10. Tree(process_table, Members, Living)'
  BY <1>7, <1>9
<1>11. Making'
  BY <1>2, <1>6 DEF Making
<1>12. HasDirectory'
  <2>1. process_table[child].page_directory # NULL
    BY <1>1, <1>2 DEF HasDirectory
  <2>2. \A i \in Slots : InUse(i) =>
          /\ process_table[i].pid # 0
          /\ process_table[i].page_directory # NULL \/ Zombie(i)
    BY <1>1, <1>2 DEF HasDirectory
  <2>3. \A i \in Slots :
          /\ process_table'[i].pid \in {next_pid, process_table[i].pid}
          /\ process_table'[i].page_directory = process_table[i].page_directory
    BY <1>3
  <2>4. \A i \in Slots : InUse(i)' =>
          /\ process_table'[i].pid # 0
          /\ process_table'[i].page_directory # NULL \/ Zombie(i)'
    BY <1>2, <1>6, <2>2, <2>3
  <2>5. QED
    BY <2>4 DEF HasDirectory
<1>13. current_process \in Slots \/ current_process = NULL
  BY <1>1 DEF TypeOK, Pointer
<1>14. CurrentInUse'
  BY <1>1, <1>2, <1>6, <1>13 DEF CurrentInUse
<1>15. Ghostly'
  <2>1. Ended' => Ended /\ process_table'[current_process] = process_table[current_process]
    BY <1>2, <1>4, <1>5, <1>6, <1>13 DEF Ended
  <2>2. \A c \in Slots : process_table'[c].next_sibling \in {NULL, process_table[c].next_sibling}
    BY <1>4, <1>5
  <2>3. ASSUME NEW c \in Slots, c \in Members'
        PROVE  \/ process_table'[c].next_sibling = NULL /\ ~Zombie(c)'
               \/ /\ c \in Members /\ (Zombie(c)' => Zombie(c))
                  /\ process_table'[c].parent = process_table[c].parent
                  /\ process_table'[c].next_sibling = process_table[c].next_sibling
    BY <1>2, <1>4, <1>5, <1>6, <1>7, <2>3
  <2>4. current_process \in Pointer
    BY <1>1 DEF TypeOK
  <2>5. QED
    BY <1>2, <2>1, <2>2, <2>3, <2>4, QuietGhosts DEF TreeInv
<1>16. QED
  BY <1>10, <1>11, <1>12, <1>14, <1>15 DEF TreeInv

\* The rest of process_fork changes no links.
LEMMA ForkRestTree ==
  ASSUME FailSites = {}, ProcInv, TreeInv,
         \/ paging_clone_directory \/ clone_directory_fails
         \/ fork_stack \/ fork_stack_fails
  PROVE  TreeInv'
<1>1. TypeOK /\ CallOK /\ Making /\ HasDirectory
  BY DEF ProcInv, TreeInv
<1>2. CASE paging_clone_directory
  <2>1. /\ call.at = "fork_clone" /\ call'.at = "fork_stack" /\ call.proc \in Slots
        /\ current_process' = current_process
        /\ InUse(call.proc) /\ ~Zombie(call.proc) /\ process_table[call.proc].pid # 0
    BY <1>1, <1>2 DEF paging_clone_directory, At, GoTo, TypeOK, CallOK, Making, HasDirectory
  <2>2. /\ \A i \in Slots :
             /\ process_table'[i].parent = process_table[i].parent
             /\ process_table'[i].children = process_table[i].children
             /\ process_table'[i].next_sibling = process_table[i].next_sibling
             /\ process_table'[i].state = process_table[i].state
             /\ process_table'[i].pid = process_table[i].pid
             /\ i # call.proc => process_table'[i] = process_table[i]
        /\ process_table'[call.proc].page_directory = process_table[call.proc].pid
    BY <1>1, <1>2, <2>1 DEF paging_clone_directory, TypeOK, PCB
  <2>3. \A i \in Slots :
          /\ InUse(i)' <=> InUse(i)
          /\ Zombie(i)' <=> Zombie(i)
          /\ Copied(i)' <=> Copied(i)
          /\ Exiting(i)' <=> Exiting(i)
          /\ Zombie(i) => process_table'[i].page_directory = process_table[i].page_directory
    BY <2>1, <2>2 DEF InUse, Zombie, Copied, Exiting
  <2>4. Making' /\ HasDirectory'
    <3>1. Making'
      BY <2>1 DEF Making
    <3>2. process_table'[call.proc].page_directory # NULL
      BY <2>1, <2>2 DEF NULL
    <3>3. HasDirectory'
      BY <1>1, <2>1, <2>2, <2>3, <3>2 DEF HasDirectory
    <3>4. QED
      BY <3>1, <3>3
  <2>5. Tree(process_table, Members, Living)' /\ Ghostly' /\ CurrentInUse'
    BY <1>1, <2>1, <2>2, <2>3, StillStep
  <2>6. QED
    BY <2>4, <2>5 DEF TreeInv
<1>3. CASE fork_stack
  <2>1. /\ call.at = "fork_stack" /\ call'.at = "idle"
        /\ UNCHANGED <<process_table, current_process>>
    BY <1>3 DEF fork_stack, At, Idle
  <2>2. \A i \in Slots : /\ InUse(i)' <=> InUse(i)
                         /\ Zombie(i)' <=> Zombie(i)
                         /\ Copied(i)' <=> Copied(i)
                         /\ Exiting(i)' <=> Exiting(i)
    BY <2>1 DEF InUse, Zombie, Copied, Exiting
  <2>3. Making' /\ HasDirectory'
    BY <1>1, <2>1, <2>2 DEF Making, HasDirectory
  <2>4. Tree(process_table, Members, Living)' /\ Ghostly' /\ CurrentInUse'
    BY <1>1, <2>1, <2>2, StillStep
  <2>5. QED
    BY <2>3, <2>4 DEF TreeInv
<1>4. ~clone_directory_fails /\ ~fork_stack_fails
  BY DEF clone_directory_fails, fork_stack_fails
<1>5. QED
  BY <1>2, <1>3, <1>4

\* The timer changes states only, of processes that are READY or RUNNING.
LEMMA TimerTree ==
  ASSUME ProcInv, TreeInv, timer_irq_handler
  PROVE  TreeInv'
<1>1. TypeOK /\ CallOK /\ Making /\ HasDirectory
  BY DEF ProcInv, TreeInv
<1>2. PICK next \in Slots :
        /\ next # current_process /\ process_table[next].state = "READY"
        /\ process_switch(next)
  BY DEF timer_irq_handler, RoundRobin
<1>3. call' = call
  BY DEF timer_irq_handler
<1> DEFINE t == IF current_process # NULL /\ process_table[current_process].state = "RUNNING"
                THEN [process_table EXCEPT ![current_process].state = "READY"]
                ELSE process_table
<1>4. /\ process_table' = [t EXCEPT ![next].state = "RUNNING"]
      /\ current_process' = next
  BY <1>2 DEF process_switch
<1>5. /\ t \in [Slots -> PCB]
      /\ \A i \in Slots :
           /\ t[i].parent = process_table[i].parent
           /\ t[i].children = process_table[i].children
           /\ t[i].next_sibling = process_table[i].next_sibling
           /\ t[i].pid = process_table[i].pid
           /\ t[i].page_directory = process_table[i].page_directory
           /\ \/ t[i].state = process_table[i].state
              \/ process_table[i].state = "RUNNING" /\ t[i].state = "READY"
  BY <1>1 DEF TypeOK, PCB, States, Pointer
<1>6. t[next].state = "READY"
  BY <1>2, <1>5
<1> HIDE DEF t
<1>7. /\ process_table'[next].state = "RUNNING"
      /\ \A i \in Slots :
           /\ process_table'[i].parent = t[i].parent
           /\ process_table'[i].children = t[i].children
           /\ process_table'[i].next_sibling = t[i].next_sibling
           /\ process_table'[i].pid = t[i].pid
           /\ process_table'[i].page_directory = t[i].page_directory
           /\ i # next => process_table'[i] = t[i]
  BY <1>4, <1>5 DEF PCB
<1>8. \A i \in Slots : /\ InUse(i)' <=> InUse(i)
                       /\ Zombie(i)' <=> Zombie(i)
                       /\ Copied(i)' <=> Copied(i)
                       /\ Exiting(i)' <=> Exiting(i)
  BY <1>2, <1>3, <1>5, <1>7 DEF InUse, Zombie, Copied, Exiting
<1>9. \A i \in Slots :
        /\ process_table'[i].parent = process_table[i].parent
        /\ process_table'[i].children = process_table[i].children
        /\ process_table'[i].next_sibling = process_table[i].next_sibling
        /\ process_table'[i].pid = process_table[i].pid
        /\ process_table'[i].page_directory = process_table[i].page_directory
  BY <1>5, <1>7
<1>10. /\ call.at \in {"create_directory", "create_kernel_stack", "create_user_stack",
                      "set_current", "fork_copy", "fork_link", "fork_clone", "exit"}
            => call.proc \in Slots
       /\ call.at \in {"fork", "fork_copy", "fork_link"} => call.parent \in Slots
  BY <1>1 DEF CallOK
<1>11. Making'
  BY <1>1, <1>3, <1>8, <1>9, <1>10 DEF Making, Fresh
<1>12. HasDirectory'
  BY <1>1, <1>3, <1>8, <1>9 DEF HasDirectory
<1>13. Tree(process_table, Members, Living)' /\ Ghostly' /\ CurrentInUse'
  BY <1>1, <1>4, <1>7, <1>8, <1>9, StillStep
<1>14. QED
  BY <1>11, <1>12, <1>13 DEF TreeInv

-----------------------------------------------------------------------------
\* A step that leaves the table, the thread and the current process alone.
LEMMA TreeInvSame ==
  ASSUME TreeInv, UNCHANGED <<process_table, current_process, call>>
  PROVE  TreeInv'
<1>1. Members' = Members /\ Living' = Living
  BY DEF Members, Living, InUse, Copied, Zombie, Exiting
<1>2. Tree(process_table, Members, Living)'
  BY <1>1 DEF TreeInv
<1>3. Making' /\ HasDirectory' /\ CurrentInUse'
  BY DEF TreeInv, Making, HasDirectory, CurrentInUse, Fresh, InUse, Zombie
<1>4. Ghostly'
  <2>1. Ended' <=> Ended
    BY DEF Ended, Zombie, Exiting
  <2>2. QED
    BY <1>1, <2>1 DEF TreeInv, Ghostly
<1>5. QED
  BY <1>2, <1>3, <1>4 DEF TreeInv

\* process_exit marks the process; its children are still on its list.
LEMMA ExitTree ==
  ASSUME ProcInv, TreeInv, process_exit
  PROVE  TreeInv'
<1>1. TypeOK /\ Making /\ HasDirectory
  BY DEF ProcInv, TreeInv
<1>0. PICK cur : cur = current_process
  OBVIOUS
<1>2. /\ call.at = "idle" /\ cur \in Slots /\ cur # NULL
      /\ process_table[cur].state \in {"RUNNING", "READY"}
      /\ call'.at = "exit" /\ call'.proc = cur /\ current_process' = cur
  BY <1>0, <1>1 DEF process_exit, At, TypeOK, Pointer, Idle
<1>3. /\ process_table'[cur].state = "ZOMBIE"
      /\ \A i \in Slots :
           /\ process_table'[i].parent = process_table[i].parent
           /\ process_table'[i].children = process_table[i].children
           /\ process_table'[i].next_sibling = process_table[i].next_sibling
           /\ process_table'[i].pid = process_table[i].pid
           /\ process_table'[i].page_directory = process_table[i].page_directory
           /\ i # cur => process_table'[i] = process_table[i]
  BY <1>0, <1>1, <1>2 DEF process_exit, TypeOK, PCB
<1>4. /\ Zombie(cur)' /\ InUse(cur)' /\ InUse(cur) /\ ~Zombie(cur)
      /\ \A i \in Slots : i # cur => /\ InUse(i)' <=> InUse(i)
                                     /\ Zombie(i)' <=> Zombie(i)
      /\ \A i \in Slots : /\ ~Copied(i) /\ ~Copied(i)' /\ ~Exiting(i)
                          /\ Exiting(i)' <=> i = cur
  BY <1>2, <1>3 DEF InUse, Zombie, Copied, Exiting
<1>5. \A i \in Slots : (i \in Members' <=> i \in Members) /\ (i \in Living' <=> i \in Living)
  BY <1>4 DEF Members, Living
<1>6. Tree(process_table, Members, Living)'
  <2>1. Members \subseteq Slots
    BY DEF Members
  <2>2. QED
    BY <1>3, <1>5, <2>1, QuietTree DEF TreeInv
<1>7. Making'
  BY <1>2, <1>4 DEF Making
<1>8. HasDirectory'
  BY <1>1, <1>2, <1>3, <1>4 DEF HasDirectory
<1>9. Ghostly' /\ CurrentInUse'
  BY <1>2, <1>4 DEF Ghostly, Ended, CurrentInUse
<1>10. QED
  BY <1>6, <1>7, <1>8, <1>9 DEF TreeInv

\* sys_fork: a child of a process that lives; one that has ended has no directory
\* to clone, and the slot it took is free again but linked.
LEMMA SysForkTree ==
  ASSUME FailSites = {}, ProcInv, TreeInv, sys_fork
  PROVE  TreeInv'
<1>1. TypeOK /\ Making /\ HasDirectory /\ CurrentInUse /\ Ghostly
  BY DEF ProcInv, TreeInv
<1>0. PICK cur : cur = current_process
  OBVIOUS
<1>2. /\ call.at = "idle" /\ cur \in Slots /\ cur # NULL /\ InUse(cur)
      /\ next_pid \in Nat /\ next_pid # 0
      /\ current_process' = cur /\ call' = call
  BY <1>0, <1>1 DEF sys_fork, At, TypeOK, Pointer, CurrentInUse, ProcInv, PidsIssued
<1>3. PICK child \in Slots :
        LET linked == LinkChild([process_table EXCEPT ![child] = process_table[cur]],
                                cur, child, next_pid)
            noclone == linked[cur].page_directory = NULL
        IN  /\ process_table[child].state = "UNUSED"
            /\ \/ /\ ~noclone
                  /\ process_table' = [linked EXCEPT ![child].page_directory = next_pid]
               \/ /\ noclone
                  /\ process_table' = [linked EXCEPT ![child].page_directory = NULL,
                                                     ![child].state = "UNUSED"]
  BY <1>0 DEF sys_fork, process_alloc_slot
<1> DEFINE from   == [process_table EXCEPT ![child] = process_table[cur]]
           linked == LinkChild(from, cur, child, next_pid)
<1>4. child # cur /\ ~InUse(child)
  BY <1>2, <1>3 DEF InUse
<1>5. /\ from \in [Slots -> PCB] /\ from[cur] = process_table[cur]
      /\ \A j \in Slots \ {child} : from[j] = process_table[j]
  BY <1>1, <1>2, <1>4, TypesOfPCB DEF TypeOK
<1> HIDE DEF from
<1>6. /\ linked \in [Slots -> PCB]
      /\ linked[child].pid = next_pid /\ linked[child].state = "READY"
      /\ \A j \in Slots \ {child} :
           /\ linked[j].pid = process_table[j].pid /\ linked[j].state = process_table[j].state
           /\ linked[j].page_directory = process_table[j].page_directory
  BY <1>2, <1>5, LinkChildFields
<1>7. /\ linked[child].parent = cur /\ linked[child].children = NULL
      /\ linked[child].next_sibling = process_table[cur].children
      /\ linked[cur].children = child
      /\ \A j \in Slots \ {child} : /\ linked[j].parent = process_table[j].parent
                                    /\ linked[j].next_sibling = process_table[j].next_sibling
      /\ \A j \in Slots \ {child, cur} : linked[j].children = process_table[j].children
  <2>1. /\ linked[child].parent = cur /\ linked[child].children = NULL
        /\ linked[child].next_sibling = from[cur].children
        /\ linked[cur].children = child
        /\ \A j \in Slots \ {child} : /\ linked[j].parent = from[j].parent
                                      /\ linked[j].next_sibling = from[j].next_sibling
        /\ \A j \in Slots \ {child, cur} : linked[j] = from[j]
    BY <1>2, <1>4, <1>5, LinkChildLinks
  <2>2. QED
    BY <1>5, <2>1
<1>8. \/ /\ process_table[cur].page_directory # NULL
         /\ process_table' = [linked EXCEPT ![child].page_directory = next_pid]
      \/ /\ process_table[cur].page_directory = NULL
         /\ process_table' = [linked EXCEPT ![child].page_directory = NULL,
                                            ![child].state = "UNUSED"]
  BY <1>2, <1>3, <1>4, <1>6 DEF from
<1> HIDE DEF linked
<1>9. /\ process_table'[child].pid = next_pid
      /\ process_table'[child].parent = cur /\ process_table'[child].children = NULL
      /\ process_table'[child].next_sibling = process_table[cur].children
      /\ process_table'[cur].children = child
      /\ \A j \in Slots \ {child} :
           /\ process_table'[j].pid = process_table[j].pid
           /\ process_table'[j].state = process_table[j].state
           /\ process_table'[j].page_directory = process_table[j].page_directory
           /\ process_table'[j].parent = process_table[j].parent
           /\ process_table'[j].next_sibling = process_table[j].next_sibling
      /\ \A j \in Slots \ {child, cur} : process_table'[j].children = process_table[j].children
  <2>1. \A j \in Slots \ {child} : process_table'[j] = linked[j]
    BY <1>6, <1>8
  <2>2. /\ process_table'[child].pid = linked[child].pid
        /\ process_table'[child].parent = linked[child].parent
        /\ process_table'[child].children = linked[child].children
        /\ process_table'[child].next_sibling = linked[child].next_sibling
    BY <1>6, <1>8 DEF PCB
  <2>3. QED
    BY <1>2, <1>4, <1>6, <1>7, <2>1, <2>2
<1>10. /\ \A i \in Slots : ~Copied(i) /\ ~Copied(i)' /\ ~Exiting(i) /\ ~Exiting(i)'
       /\ \A i \in Slots \ {child} : /\ InUse(i)' <=> InUse(i)
                                     /\ Zombie(i)' <=> Zombie(i)
  BY <1>2, <1>9 DEF Copied, Exiting, InUse, Zombie
<1>11. Making'
  BY <1>2 DEF Making
<1>12. CurrentInUse'
  BY <1>2, <1>4, <1>10 DEF CurrentInUse
<1>13. child \notin Members /\ Members \subseteq Slots /\ cur \in Members /\ cur # child
  BY <1>2, <1>4, <1>10 DEF Members
<1>14. CASE ~Zombie(cur)
  <2>1. process_table[cur].page_directory # NULL
    BY <1>1, <1>2, <1>14 DEF HasDirectory
  <2>2. process_table'[child].state = "READY" /\ process_table'[child].page_directory = next_pid
    BY <1>6, <1>8, <2>1 DEF PCB
  <2>3. Members' = Members \cup {child}
    BY <1>10, <2>2 DEF Members, InUse
  <2>4. Living' = Living \cup {child} /\ cur \in Living
    BY <1>10, <1>13, <1>14, <2>2, <2>3 DEF Living, Zombie
  <2>5. Adopted(process_table, process_table', Members, Living, cur, child)
    BY <1>9, <1>13, <2>4 DEF Adopted
  <2>6. Tree(process_table', Members \cup {child}, Living \cup {child})
    BY <2>5, TreeAdopted DEF TreeInv
  <2>7. Tree(process_table, Members, Living)'
    BY <2>3, <2>4, <2>6
  <2>8. HasDirectory'
    BY <1>1, <1>2, <1>9, <1>10, <2>2 DEF HasDirectory, NULL
  <2>9. Ghostly'
    BY <1>2, <1>10, <1>13, <1>14 DEF Ghostly, Ended
  <2>10. QED
    BY <1>11, <1>12, <2>7, <2>8, <2>9 DEF TreeInv
<1>15. CASE Zombie(cur)
  <2>1. /\ process_table[cur].page_directory = NULL
        /\ \E S \in SUBSET Slots : Ghosts(process_table, Members, cur, S)
    BY <1>0, <1>1, <1>2, <1>10, <1>15 DEF Ghostly, Ended
  <2>2. process_table'[child].state = "UNUSED"
    BY <1>6, <1>8, <2>1 DEF PCB
  <2>3. Members' = Members /\ Living' = Living /\ cur \notin Living
    <3>1. Members' = Members
      BY <1>10, <1>13, <2>2 DEF Members, InUse
    <3>2. QED
      BY <1>10, <1>13, <1>15, <3>1 DEF Living
  <2>4. Kept(process_table, process_table', Members, Members, Living)
    BY <1>9, <1>13, <2>3 DEF Kept, Living
  <2>5. Tree(process_table', Members, Living)
    BY <2>4, TreeKept DEF TreeInv
  <2>6. Tree(process_table, Members, Living)'
    BY <2>3, <2>5
  <2>7. HasDirectory'
    BY <1>1, <1>2, <1>9, <1>10, <2>2 DEF HasDirectory, InUse
  <2>8. PICK S \in SUBSET Slots : Ghosts(process_table, Members, cur, S)
    BY <2>1
  <2>9. Ghosts(process_table', Members, cur, S \cup {child})
    <3>1. process_table[cur].children \in S \cup {NULL} /\ cur \notin S
      BY <2>8 DEF Ghosts
    <3>2. \A c \in S \cup {child} : process_table'[c].next_sibling \in S \cup {child, NULL}
      BY <1>9, <2>8, <3>1 DEF Ghosts
    <3>3. ASSUME NEW c \in (S \cup {child}) \cap Members, process_table'[c].parent # NULL
          PROVE  process_table'[c].next_sibling = NULL /\ process_table'[c].state # "ZOMBIE"
      BY <1>9, <1>13, <2>8, <3>3 DEF Ghosts
    <3>4. QED
      BY <1>9, <1>13, <3>1, <3>2, <3>3 DEF Ghosts
  <2>10. process_table'[cur].page_directory = NULL
    BY <1>9, <1>13, <2>1
  <2>11. Ghostly'
    BY <1>2, <2>3, <2>9, <2>10 DEF Ghostly
  <2>12. QED
    BY <1>11, <1>12, <2>6, <2>7, <2>11 DEF TreeInv
<1>16. QED
  BY <1>14, <1>15

-----------------------------------------------------------------------------
\* The walks along next_sibling, which the code makes node by node.
INSTANCE SetInduction

\* A list of slots that are all different is no longer than the table.
LEMMA ChainLength ==
  ASSUME NEW s \in Seq(Slots), \A j, k \in 1..Len(s) : s[j] = s[k] => j = k
  PROVE  Len(s) <= MAX_PROCESSES
<1>1. MAX_PROCESSES \in Nat /\ Len(s) \in Nat
  BY ProcessAssumption
<1>2. \A k \in 1..Len(s) : s[k] \in Slots
  OBVIOUS
<1>3. QED
  BY <1>1, <1>2, Pigeonhole DEF Slots

\* One step of the walk along next_sibling.
WalkNext(t, f, head, k) ==
  IF k = 0 THEN head ELSE IF f[k - 1] = NULL THEN NULL ELSE t[f[k - 1]].next_sibling

\* The walk is well defined from any head, whatever the links are.
LEMMA ListAtIs ==
  ASSUME NEW t, NEW head \in Pointer, \A i \in Slots : t[i].next_sibling \in Pointer
  PROVE  \A k \in 0..MAX_PROCESSES : ListAt(t, head)[k] = WalkNext(t, ListAt(t, head), head, k)
<1> DEFINE Walk(f, n) == f \in [0..n -> Pointer] /\ \A k \in 0..n : f[k] = WalkNext(t, f, head, k)
           Good == {n \in Nat : \E f : Walk(f, n)}
           step(f) == [k \in 0..MAX_PROCESSES |->
                         IF k = 0 THEN head
                         ELSE IF f[k - 1] = NULL THEN NULL ELSE t[f[k - 1]].next_sibling]
<1>1. 0 \in Good
  <2>1. Walk([k \in 0..0 |-> head], 0)
    BY DEF WalkNext
  <2>2. QED
    BY <2>1
<1>2. ASSUME NEW n \in Nat, n \in Good
      PROVE  n + 1 \in Good
  <2>1. PICK f : Walk(f, n)
    BY <1>2
  <2> DEFINE last == IF f[n] = NULL THEN NULL ELSE t[f[n]].next_sibling
             g == [k \in 0..(n + 1) |-> IF k = n + 1 THEN last ELSE f[k]]
  <2>2. f \in [0..n -> Pointer] /\ \A k \in 0..n : f[k] = WalkNext(t, f, head, k)
    BY <2>1
  <2>3. last \in Pointer
    BY <2>2 DEF Pointer
  <2>4. g \in [0..(n + 1) -> Pointer] /\ g[n + 1] = last /\ \A k \in 0..n : g[k] = f[k]
    <3>1. \A k \in 0..(n + 1) : k = n + 1 \/ k \in 0..n
      OBVIOUS
    <3>2. \A k \in 0..n : k \in 0..(n + 1) /\ k # n + 1
      OBVIOUS
    <3> HIDE DEF last
    <3>3. QED
      BY <2>2, <2>3, <3>1, <3>2
  <2>5. ASSUME NEW k \in 0..(n + 1) PROVE g[k] = WalkNext(t, g, head, k)
    <3>1. CASE k = n + 1
      <4>1. k # 0 /\ k - 1 = n /\ n \in 0..n
        BY <3>1
      <4> HIDE DEF g
      <4>2. QED
        BY <2>4, <3>1, <4>1 DEF WalkNext
    <3>2. CASE k \in 0..n
      <4>1. k # 0 => k - 1 \in 0..n
        BY <3>2
      <4> HIDE DEF g
      <4>2. QED
        BY <2>2, <2>4, <3>2, <4>1 DEF WalkNext
    <3>3. QED
      BY <3>1, <3>2
  <2>6. Walk(g, n + 1)
    <3> HIDE DEF g
    <3> QED
      BY <2>4, <2>5
  <2> HIDE DEF g, Walk
  <2>7. QED
    BY <2>6
<1>3. \A n \in Nat : n \in Good
  <2> HIDE DEF Good
  <2> QED
    BY <1>1, <1>2, NatSetInduction
<1>4. PICK f : Walk(f, MAX_PROCESSES)
  BY <1>3, ProcessAssumption
<1>5. f = step(f)
  BY <1>4 DEF WalkNext
<1>6. ListAt(t, head) = CHOOSE g : g = step(g)
  BY DEF ListAt
<1>7. ListAt(t, head) = step(ListAt(t, head))
  <2> HIDE DEF step
  <2> QED
    BY <1>5, <1>6
<1>8. QED
  BY <1>7 DEF WalkNext

\* Along a list that ends, the walk meets its slots in order, then NULL: it is what
\* Listed collects, and it is not endless.
LEMMA ChainIs ==
  ASSUME NEW t, NEW head, NEW s \in Seq(Slots), Chain(t, head, s),
         \A i \in Slots : t[i].next_sibling \in Pointer
  PROVE  /\ \A k \in 0..MAX_PROCESSES :
              ListAt(t, head)[k] = IF k < Len(s) THEN s[k + 1] ELSE NULL
         /\ Listed(t, head) = {s[k] : k \in 1..Len(s)}
         /\ ~ Endless(t, head)
<1> DEFINE at == ListAt(t, head)
<1>1. /\ MAX_PROCESSES \in Nat /\ Len(s) \in Nat /\ Len(s) <= MAX_PROCESSES
      /\ \A k \in 1..Len(s) : s[k] \in Slots /\ s[k] # NULL
  BY ProcessAssumption, ChainLength DEF Chain, Slots, NULL
<1>2. head = IF Len(s) = 0 THEN NULL ELSE s[1]
  BY DEF Chain
<1>3. head \in Pointer
  BY <1>1, <1>2 DEF Pointer
<1>4. \A k \in 0..MAX_PROCESSES : at[k] = WalkNext(t, at, head, k)
  BY <1>3, ListAtIs
<1> HIDE DEF at
<1> DEFINE Good == {k \in Nat : k \in 0..MAX_PROCESSES =>
                      at[k] = IF k < Len(s) THEN s[k + 1] ELSE NULL}
<1>5. 0 \in Good
  <2>1. at[0] = head
    BY <1>1, <1>4 DEF WalkNext
  <2>2. QED
    BY <1>1, <1>2, <2>1
<1>6. ASSUME NEW k \in Nat, k \in Good
      PROVE  k + 1 \in Good
  <2>1. SUFFICES ASSUME k + 1 \in 0..MAX_PROCESSES
                 PROVE  at[k + 1] = IF k + 1 < Len(s) THEN s[(k + 1) + 1] ELSE NULL
    OBVIOUS
  <2>2. k + 1 # 0 /\ (k + 1) - 1 = k /\ k \in 0..MAX_PROCESSES
    BY <1>1, <2>1
  <2>3. at[k + 1] = IF at[k] = NULL THEN NULL ELSE t[at[k]].next_sibling
    BY <1>4, <2>1, <2>2 DEF WalkNext
  <2>4. at[k] = IF k < Len(s) THEN s[k + 1] ELSE NULL
    BY <1>6, <2>2
  <2>5. CASE k < Len(s)
    <3>1. k + 1 \in 1..Len(s)
      BY <1>1, <2>5
    <3>2. at[k + 1] = t[s[k + 1]].next_sibling
      BY <1>1, <2>3, <2>4, <2>5, <3>1
    <3>3. t[s[k + 1]].next_sibling = IF k + 1 = Len(s) THEN NULL ELSE s[(k + 1) + 1]
      BY <3>1 DEF Chain
    <3>4. k + 1 = Len(s) <=> ~ (k + 1 < Len(s))
      BY <1>1, <3>1
    <3>5. QED
      BY <3>2, <3>3, <3>4
  <2>6. CASE ~ (k < Len(s))
    <3>1. ~ (k + 1 < Len(s))
      BY <1>1, <2>6
    <3>2. QED
      BY <2>3, <2>4, <2>6, <3>1
  <2>7. QED
    BY <2>5, <2>6
<1>7. \A k \in Nat : k \in Good
  <2> HIDE DEF Good
  <2> QED
    BY <1>5, <1>6, NatSetInduction
<1>8. \A k \in 0..MAX_PROCESSES : at[k] = IF k < Len(s) THEN s[k + 1] ELSE NULL
  BY <1>1, <1>7
<1> HIDE DEF Good
<1>9. Listed(t, head) = {s[k] : k \in 1..Len(s)}
  <2>1. Listed(t, head) = {at[k] : k \in 0..MAX_PROCESSES} \ {NULL}
    BY DEF Listed, at
  <2>2. ASSUME NEW k \in 1..Len(s)
        PROVE  k - 1 \in 0..MAX_PROCESSES /\ at[k - 1] = s[k] /\ s[k] # NULL
    BY <1>1, <1>8
  <2>3. ASSUME NEW k \in 0..MAX_PROCESSES, at[k] # NULL
        PROVE  k + 1 \in 1..Len(s) /\ at[k] = s[k + 1]
    BY <1>1, <1>8, <2>3
  <2>4. QED
    BY <2>1, <2>2, <2>3
<1>10. ~ Endless(t, head)
  <2>1. MAX_PROCESSES \in 0..MAX_PROCESSES /\ ~ (MAX_PROCESSES < Len(s))
    BY <1>1
  <2>2. QED
    BY <1>8, <2>1 DEF Endless, at
<1>11. QED
  BY <1>8, <1>9, <1>10 DEF at

\* A walk that starts in a set that next_sibling does not leave stays in it.
LEMMA WalkWithin ==
  ASSUME NEW t, NEW S \in SUBSET Slots, NEW head \in S \cup {NULL},
         \A i \in Slots : t[i].next_sibling \in Pointer,
         \A c \in S : t[c].next_sibling \in S \cup {NULL}
  PROVE  \A k \in 0..MAX_PROCESSES : ListAt(t, head)[k] \in S \cup {NULL}
<1> DEFINE at == ListAt(t, head)
           Good == {k \in Nat : k \in 0..MAX_PROCESSES => at[k] \in S \cup {NULL}}
<1>1. head \in Pointer /\ MAX_PROCESSES \in Nat
  BY ProcessAssumption DEF Pointer
<1>2. \A k \in 0..MAX_PROCESSES : at[k] = WalkNext(t, at, head, k)
  BY <1>1, ListAtIs
<1> HIDE DEF at
<1>3. 0 \in Good
  BY <1>1, <1>2 DEF WalkNext
<1>4. ASSUME NEW k \in Nat, k \in Good
      PROVE  k + 1 \in Good
  <2>1. SUFFICES ASSUME k + 1 \in 0..MAX_PROCESSES PROVE at[k + 1] \in S \cup {NULL}
    OBVIOUS
  <2>2. k + 1 # 0 /\ (k + 1) - 1 = k /\ k \in 0..MAX_PROCESSES
    BY <1>1, <2>1
  <2>3. at[k + 1] = IF at[k] = NULL THEN NULL ELSE t[at[k]].next_sibling
    BY <1>2, <2>1, <2>2 DEF WalkNext
  <2>4. QED
    BY <1>4, <2>2, <2>3
<1>5. \A k \in Nat : k \in Good
  <2> HIDE DEF Good
  <2> QED
    BY <1>3, <1>4, NatSetInduction
<1>6. QED
  BY <1>1, <1>5 DEF at

-----------------------------------------------------------------------------
\* A living process's list, as the walk along it finds it.
LEMMA LivingList ==
  ASSUME TypeOK, TreeInv, NEW p \in Living
  PROVE  \E s \in Seq(Slots) :
           /\ Kids(process_table, Members, p, s)
           /\ ~Endless(process_table, process_table[p].children)
           /\ \A c : c \in Listed(process_table, process_table[p].children) <=> InList(s, c)
           /\ \A k \in 0..MAX_PROCESSES :
                ListAt(process_table, process_table[p].children)[k]
                  = IF k < Len(s) THEN s[k + 1] ELSE NULL
<1>1. PICK s : Kids(process_table, Members, p, s)
  BY DEF TreeInv, Tree
<1> DEFINE t == process_table
           head == process_table[p].children
<1>2. s \in Seq(Slots) /\ Chain(t, head, s)
  BY <1>1 DEF Kids
<1>3. \A i \in Slots : t[i].next_sibling \in Pointer
  BY TypesOfPCB
<1> HIDE DEF t, head
<1>4. /\ \A k \in 0..MAX_PROCESSES :
           ListAt(t, head)[k] = IF k < Len(s) THEN s[k + 1] ELSE NULL
      /\ Listed(t, head) = {s[k] : k \in 1..Len(s)}
      /\ ~ Endless(t, head)
  BY <1>2, <1>3, ChainIs
<1>5. \A c : c \in Listed(t, head) <=> InList(s, c)
  BY <1>4 DEF InList
<1>6. QED
  BY <1>1, <1>2, <1>4, <1>5 DEF t, head

\* process_exit's second part: the children lose their parent.
LEMMA ReleaseTree ==
  ASSUME ProcInv, TreeInv, exit_release
  PROVE  TreeInv'
<1>1. TypeOK /\ CallOK /\ Making /\ HasDirectory /\ CurrentInUse
  BY DEF ProcInv, TreeInv
<1> DEFINE proc == call.proc
           kids == Listed(process_table, process_table[proc].children)
<1>2. /\ call.at = "exit" /\ proc \in Slots /\ Zombie(proc)
      /\ current_process' = current_process
  BY <1>1 DEF exit_release, At, CallOK, Making
<1>3. CASE cpu' # "up"
  BY <1>2, <1>3, TreeInvSame DEF exit_release
<1>4. CASE cpu' = "up"
  <2>1. \A i \in Slots : /\ ~Copied(i)
                         /\ Exiting(i) <=> i = proc
    BY <1>2 DEF Copied, Exiting
  <2>2. proc \in Living
    BY <1>2, <2>1 DEF Living, Members, InUse, Zombie
  <2>3. PICK s \in Seq(Slots) :
          /\ Kids(process_table, Members, proc, s)
          /\ ~Endless(process_table, process_table[proc].children)
          /\ \A c : c \in kids <=> InList(s, c)
    BY <1>1, <2>2, LivingList
  <2>4. /\ call' = Idle
        /\ process_table' = [i \in Slots |->
                         [process_table[i] EXCEPT
                            !.page_directory = IF i = proc THEN NULL ELSE @,
                            !.parent = IF i \in kids THEN NULL ELSE @]]
    BY <1>4, <2>3 DEF exit_release
  <2> HIDE DEF kids
  <2>5. \A i \in Slots :
          /\ process_table'[i].parent = IF i \in kids THEN NULL ELSE process_table[i].parent
          /\ process_table'[i].children = process_table[i].children
          /\ process_table'[i].next_sibling = process_table[i].next_sibling
          /\ process_table'[i].pid = process_table[i].pid
          /\ process_table'[i].state = process_table[i].state
          /\ process_table'[i].page_directory
               = IF i = proc THEN NULL ELSE process_table[i].page_directory
    BY <1>1, <2>4 DEF TypeOK, PCB
  <2> HIDE DEF proc
  <2>6. \A i \in Slots : /\ InUse(i)' <=> InUse(i)
                         /\ Zombie(i)' <=> Zombie(i)
                         /\ ~Copied(i)' /\ ~Exiting(i)'
    BY <2>4, <2>5 DEF InUse, Zombie, Copied, Exiting, Idle
  <2>7. Members' = Members
    BY <2>1, <2>6 DEF Members
  <2>8. Living' = Living \ {proc}
    BY <1>2, <2>1, <2>6, <2>7 DEF Living, Members
  <2>9. \A c \in Members : c \in Slots /\ (c \in kids <=> process_table[c].parent = proc)
    BY <2>3 DEF Kids, Members
  <2>10. Orphaned(process_table, process_table', Members, Living, proc)
    BY <2>2, <2>5, <2>9 DEF Orphaned
  <2>11. Tree(process_table', Members, Living \ {proc})
    BY <2>10, TreeOrphaned DEF TreeInv
  <2>12. Tree(process_table, Members, Living)'
    BY <2>7, <2>8, <2>11
  <2>13. Making'
    BY <2>4 DEF Making, Idle
  <2>14. HasDirectory'
    BY <1>1, <1>2, <2>5, <2>6 DEF HasDirectory
  <2>15. current_process \in Slots \/ current_process = NULL
    BY <1>1 DEF TypeOK, Pointer
  <2>16. CurrentInUse'
    BY <1>1, <1>2, <2>6, <2>15 DEF CurrentInUse
  <2>17. Ghostly'
    <3>1. CASE current_process = proc
      <4> DEFINE S == {c \in Slots : InList(s, c)}
      <4>1. /\ process_table[proc].children = IF Len(s) = 0 THEN NULL ELSE s[1]
            /\ \A k \in 1..Len(s) :
                 process_table[s[k]].next_sibling = IF k = Len(s) THEN NULL ELSE s[k + 1]
        BY <2>3 DEF Kids, Chain
      <4>2. Len(s) \in Nat /\ \A k \in 1..Len(s) : s[k] \in Slots /\ s[k] \in S
        BY DEF InList
      <4>3. process_table'[proc].children \in S \cup {NULL}
        BY <1>2, <2>5, <4>1, <4>2
      <4>4. proc \notin S
        BY <2>2, <2>3, <2>9 DEF TreeInv, Tree, Living, NULL, Slots
      <4>5. \A c \in S : process_table'[c].next_sibling \in S \cup {NULL}
        <5>1. ASSUME NEW k \in 1..Len(s)
              PROVE  process_table[s[k]].next_sibling \in S \cup {NULL}
          BY <4>1, <4>2
        <5>2. QED
          BY <2>5, <5>1 DEF InList
      <4>6. \A c \in S : process_table'[c].parent = NULL
        BY <2>3, <2>5
      <4>7. Ghosts(process_table', Members', proc, S)
        BY <4>3, <4>4, <4>5, <4>6 DEF Ghosts
      <4>8. S \in SUBSET Slots /\ process_table'[proc].page_directory = NULL
        BY <1>2, <2>5
      <4> HIDE DEF S
      <4>9. QED
        BY <1>2, <3>1, <4>7, <4>8 DEF Ghostly
    <3>2. CASE current_process # proc
      <4>1. Ended' => /\ Ended
                      /\ process_table'[current_process].page_directory
                           = process_table[current_process].page_directory
                      /\ process_table'[current_process].children
                           = process_table[current_process].children
        BY <1>2, <2>1, <2>5, <2>6, <2>15, <3>2 DEF Ended
      <4>2. \A c \in Slots : process_table'[c].next_sibling
                               \in {NULL, process_table[c].next_sibling}
        BY <2>5
      <4>3. \A c \in Slots : c \in Members' =>
              \/ process_table'[c].parent = NULL
              \/ /\ c \in Members /\ (Zombie(c)' => Zombie(c))
                 /\ process_table'[c].parent = process_table[c].parent
                 /\ process_table'[c].next_sibling = process_table[c].next_sibling
        BY <2>5, <2>6, <2>7
      <4>4. current_process \in Pointer
        BY <1>1 DEF TypeOK
      <4>5. QED
        BY <1>2, <4>1, <4>2, <4>3, <4>4, QuietGhosts DEF TreeInv
    <3>3. QED
      BY <3>1, <3>2
  <2>18. QED
    BY <2>12, <2>13, <2>14, <2>16, <2>17 DEF TreeInv
<1>5. QED
  BY <1>3, <1>4

-----------------------------------------------------------------------------
\* The walk at of the list of cur frees its k-th slot, a zombie, and makes the one
\* before it, or the head of the list, skip it: table t becomes u.
Unlinks(t, u, cur, at, k) ==
  /\ at[k] \in Slots /\ t[at[k]].state = "ZOMBIE"
  /\ k # 0 => at[k - 1] \in Slots /\ t[at[k - 1]].next_sibling = at[k]
  /\ \A i \in Slots :
       /\ u[i].pid = t[i].pid
       /\ u[i].parent = t[i].parent
       /\ u[i].page_directory = t[i].page_directory
       /\ u[i].state = IF i = at[k] THEN "UNUSED" ELSE t[i].state
       /\ u[i].children = IF k = 0 /\ i = cur THEN t[at[k]].next_sibling ELSE t[i].children
       /\ u[i].next_sibling = IF k # 0 /\ i = at[k - 1] THEN t[at[k]].next_sibling
                                                        ELSE t[i].next_sibling

\* What sys_wait does: it frees a zombie of the list of the current process, or it
\* finds the list endless.
LEMMA WaitFields ==
  ASSUME TypeOK, sys_wait, NEW cur, cur = current_process
  PROVE  \/ UNCHANGED process_table
         \/ \E k \in 0..MAX_PROCESSES :
              Unlinks(process_table, process_table', cur,
                      ListAt(process_table, process_table[cur].children), k)
<1> DEFINE t   == process_table
           at  == ListAt(t, t[cur].children)
           next(k) == t[at[k]].next_sibling
           u(k) == IF k = 0 THEN [t EXCEPT ![cur].children = next(k)]
                            ELSE [t EXCEPT ![at[k - 1]].next_sibling = next(k)]
<1>1. cur \in Slots /\ t \in [Slots -> PCB]
  BY DEF sys_wait, TypeOK, Pointer
<1>2. \A i \in Slots : t[i].next_sibling \in Pointer /\ t[i].children \in Pointer
  BY TypesOfPCB
<1>3. \A k \in 0..MAX_PROCESSES : at[k] = WalkNext(t, at, t[cur].children, k)
  BY <1>1, <1>2, ListAtIs
<1>4. \/ /\ Endless(t, t[cur].children) /\ UNCHANGED process_table
      \/ \E k \in 0..MAX_PROCESSES :
           /\ at[k] \in Slots /\ t[at[k]].state = "ZOMBIE"
           /\ process_table' = [u(k) EXCEPT ![at[k]].state = "UNUSED"]
  BY DEF sys_wait
<1> HIDE DEF t, at
<1>5. ASSUME NEW k \in 0..MAX_PROCESSES, at[k] \in Slots, t[at[k]].state = "ZOMBIE",
             process_table' = [u(k) EXCEPT ![at[k]].state = "UNUSED"]
      PROVE  /\ k # 0 => at[k - 1] \in Slots /\ t[at[k - 1]].next_sibling = at[k]
             /\ \A i \in Slots :
                  /\ process_table'[i].pid = t[i].pid
                  /\ process_table'[i].parent = t[i].parent
                  /\ process_table'[i].page_directory = t[i].page_directory
                  /\ process_table'[i].state = IF i = at[k] THEN "UNUSED" ELSE t[i].state
                  /\ process_table'[i].children =
                       IF k = 0 /\ i = cur THEN t[at[k]].next_sibling ELSE t[i].children
                  /\ process_table'[i].next_sibling =
                       IF k # 0 /\ i = at[k - 1] THEN t[at[k]].next_sibling
                                                 ELSE t[i].next_sibling
  <2>1. next(k) \in Pointer /\ at[k] # NULL
    BY <1>2, <1>5 DEF Slots, NULL
  <2>2. CASE k = 0
    <3>1. u(k) = [t EXCEPT ![cur].children = next(k)]
      BY <2>2
    <3> HIDE DEF u, next
    <3>2. u(k) \in [Slots -> PCB]
      BY <1>1, <2>1, <3>1 DEF PCB
    <3>3. \A i \in Slots :
            /\ u(k)[i].pid = t[i].pid /\ u(k)[i].parent = t[i].parent
            /\ u(k)[i].page_directory = t[i].page_directory /\ u(k)[i].state = t[i].state
            /\ u(k)[i].children = IF i = cur THEN next(k) ELSE t[i].children
            /\ u(k)[i].next_sibling = t[i].next_sibling
      BY <1>1, <2>1, <3>1 DEF PCB
    <3>4. \A i \in Slots :
            /\ process_table'[i].pid = u(k)[i].pid
            /\ process_table'[i].parent = u(k)[i].parent
            /\ process_table'[i].page_directory = u(k)[i].page_directory
            /\ process_table'[i].children = u(k)[i].children
            /\ process_table'[i].next_sibling = u(k)[i].next_sibling
            /\ process_table'[i].state = IF i = at[k] THEN "UNUSED" ELSE u(k)[i].state
      BY <1>5, <3>2 DEF PCB
    <3>5. QED
      BY <2>2, <3>3, <3>4 DEF next
  <2>3. CASE k # 0
    <3>1. k - 1 \in 0..MAX_PROCESSES
      BY <2>3, ProcessAssumption
    <3>2. at[k] = IF at[k - 1] = NULL THEN NULL ELSE t[at[k - 1]].next_sibling
      BY <1>3, <2>3 DEF WalkNext
    <3>3. at[k - 1] # NULL /\ t[at[k - 1]].next_sibling = at[k]
      BY <2>1, <3>2
    <3>4. t[cur].children \in Pointer
      BY <1>1, <1>2
    <3>5. at[k - 1] \in Pointer
      <4>1. \A c \in Slots : t[c].next_sibling \in Slots \cup {NULL}
        BY <1>2 DEF Pointer
      <4>2. \A j \in 0..MAX_PROCESSES : at[j] \in Slots \cup {NULL}
        BY <1>2, <3>4, <4>1, WalkWithin DEF Pointer, at
      <4>3. QED
        BY <3>1, <4>2 DEF Pointer
    <3>6. at[k - 1] \in Slots
      BY <3>3, <3>5 DEF Pointer
    <3>7. u(k) = [t EXCEPT ![at[k - 1]].next_sibling = next(k)]
      BY <2>3
    <3>0. PICK q : q = at[k - 1]
      OBVIOUS
    <3> HIDE DEF u, next
    <3>8. u(k) \in [Slots -> PCB]
      BY <1>1, <2>1, <3>0, <3>6, <3>7 DEF PCB
    <3>9. \A i \in Slots :
            /\ u(k)[i].pid = t[i].pid /\ u(k)[i].parent = t[i].parent
            /\ u(k)[i].page_directory = t[i].page_directory /\ u(k)[i].state = t[i].state
            /\ u(k)[i].children = t[i].children
            /\ u(k)[i].next_sibling = IF i = q THEN next(k) ELSE t[i].next_sibling
      BY <1>1, <2>1, <3>0, <3>6, <3>7 DEF PCB
    <3>10. \A i \in Slots :
            /\ process_table'[i].pid = u(k)[i].pid
            /\ process_table'[i].parent = u(k)[i].parent
            /\ process_table'[i].page_directory = u(k)[i].page_directory
            /\ process_table'[i].children = u(k)[i].children
            /\ process_table'[i].next_sibling = u(k)[i].next_sibling
            /\ process_table'[i].state = IF i = at[k] THEN "UNUSED" ELSE u(k)[i].state
      BY <1>5, <3>8 DEF PCB
    <3>11. QED
      BY <2>3, <3>0, <3>3, <3>6, <3>9, <3>10 DEF next
  <2>4. QED
    BY <2>2, <2>3
<1>6. \A k \in 0..MAX_PROCESSES :
        /\ at[k] \in Slots /\ t[at[k]].state = "ZOMBIE"
        /\ process_table' = [u(k) EXCEPT ![at[k]].state = "UNUSED"]
        => Unlinks(t, process_table', cur, at, k)
  <2> HIDE DEF u
  <2> QED
    BY <1>5 DEF Unlinks
<1> HIDE DEF u
<1>7. \/ UNCHANGED process_table
      \/ \E k \in 0..MAX_PROCESSES : Unlinks(t, process_table', cur, at, k)
  BY <1>4, <1>6
<1>8. QED
  BY <1>7 DEF t, at

\* sys_wait by a process that lives takes one of its children off its list; by one that
\* has ended, it can only free a process that has no parent.
LEMMA WaitTree ==
  ASSUME ProcInv, TreeInv, sys_wait
  PROVE  TreeInv'
<1>1. TypeOK /\ Making /\ HasDirectory /\ CurrentInUse /\ Ghostly
  BY DEF ProcInv, TreeInv
<1>0. PICK cur : cur = current_process
  OBVIOUS
<1> DEFINE t == process_table
           at == ListAt(t, t[cur].children)
<1>2. /\ call.at = "idle" /\ cur \in Slots /\ cur # NULL /\ InUse(cur)
      /\ current_process' = cur /\ call' = call
  BY <1>0, <1>1 DEF sys_wait, At, TypeOK, Pointer, CurrentInUse
<1>3. \A i \in Slots : ~Copied(i) /\ ~Copied(i)' /\ ~Exiting(i) /\ ~Exiting(i)'
  BY <1>2 DEF Copied, Exiting
<1>4. CASE UNCHANGED process_table
  BY <1>0, <1>2, <1>4, TreeInvSame
<1>5. ASSUME NEW k \in 0..MAX_PROCESSES, NEW z \in Slots, z = at[k], t[z].state = "ZOMBIE",
             k # 0 => at[k - 1] \in Slots /\ t[at[k - 1]].next_sibling = z,
             \A i \in Slots :
               /\ process_table'[i].pid = t[i].pid
               /\ process_table'[i].parent = t[i].parent
               /\ process_table'[i].page_directory = t[i].page_directory
               /\ process_table'[i].state = IF i = z THEN "UNUSED" ELSE t[i].state
               /\ process_table'[i].children =
                    IF k = 0 /\ i = cur THEN t[z].next_sibling ELSE t[i].children
               /\ process_table'[i].next_sibling =
                    IF k # 0 /\ i = at[k - 1] THEN t[z].next_sibling
                                              ELSE t[i].next_sibling
      PROVE  TreeInv'
  <2>1. /\ \A i \in Slots \ {z} : /\ InUse(i)' <=> InUse(i)
                                  /\ Zombie(i)' <=> Zombie(i)
        /\ ~InUse(z)' /\ Zombie(z) /\ InUse(z)
    BY <1>5 DEF InUse, Zombie
  <2>2. Members' = Members \ {z} /\ z \in Members /\ Members \subseteq Slots
    BY <1>3, <2>1 DEF Members
  <2>3. Living' = Living /\ z \notin Living
    BY <1>3, <2>1, <2>2 DEF Living
  <2>4. Making'
    BY <1>2 DEF Making
  <2>5. HasDirectory'
    <3>1. \A i \in Slots : InUse(i)' => InUse(i) /\ i # z
      BY <2>1
    <3>2. \A i \in Slots : InUse(i) =>
            process_table[i].pid # 0 /\ (process_table[i].page_directory # NULL \/ Zombie(i))
      BY <1>1, <1>2 DEF HasDirectory
    <3>3. \A i \in Slots : /\ process_table'[i].pid = process_table[i].pid
                           /\ process_table'[i].page_directory = process_table[i].page_directory
      BY <1>5
    <3>4. QED
      BY <2>1, <3>1, <3>2, <3>3 DEF HasDirectory
  <2>6. CASE ~Zombie(cur)
    <3>1. cur \in Living /\ cur # z
      BY <1>2, <1>3, <2>1, <2>6 DEF Living, Members
    <3>2. PICK s \in Seq(Slots) :
            /\ Kids(process_table, Members, cur, s)
            /\ \A j \in 0..MAX_PROCESSES : at[j] = IF j < Len(s) THEN s[j + 1] ELSE NULL
      BY <1>1, <3>1, LivingList
    <3> DEFINE n == k + 1
    <3>3. /\ k \in Nat /\ Len(s) \in Nat /\ k < Len(s) /\ n \in 1..Len(s) /\ s[n] = z
          /\ \A i, j \in 1..Len(s) : s[i] = s[j] => i = j
      BY <1>5, <3>2, ProcessAssumption DEF Slots, NULL, Kids, Chain
    <3>4. k # 0 => n - 1 \in 1..Len(s) /\ at[k - 1] = s[n - 1]
      BY <3>2, <3>3, ProcessAssumption
    <3>5. (k = 0) <=> (n = 1)
      BY <3>3
    <3> HIDE DEF n, at
    <3>6. Skips(process_table, process_table', s, n)
      <4>1. SUFFICES ASSUME NEW j \in 1..Len(s), j # n
                     PROVE  process_table'[s[j]].next_sibling =
                              IF j = n - 1 THEN t[s[n]].next_sibling ELSE t[s[j]].next_sibling
        BY DEF Skips
      <4>2. s[j] \in Slots /\ j \in Nat /\ n \in Nat
        BY <3>2, <3>3
      <4>3. k = 0 => j # n - 1
        BY <3>5, <4>2
      <4>4. k # 0 => (s[j] = at[k - 1] <=> j = n - 1)
        BY <3>3, <3>4
      <4>5. QED
        BY <1>5, <3>3, <4>2, <4>3, <4>4
    <3>7. \A c \in Members : ~InList(s, c) =>
            process_table'[c].next_sibling = t[c].next_sibling
      BY <1>5, <2>2, <3>4 DEF InList
    <3>8. Reaped(process_table, process_table', Members, Living, cur, s, n)
      <4>1. process_table'[cur].children = IF n = 1 THEN t[s[n]].next_sibling ELSE t[cur].children
        BY <1>2, <1>5, <3>3, <3>5
      <4>2. \A i \in Living \ {cur} : process_table'[i].children = t[i].children
        BY <1>5, <2>2 DEF Living
      <4>3. \A c \in Members : process_table'[c].parent = t[c].parent
        BY <1>5, <2>2
      <4>4. QED
        BY <2>3, <3>1, <3>2, <3>3, <3>6, <3>7, <4>1, <4>2, <4>3 DEF Reaped
    <3>9. Tree(process_table', Members \ {s[n]}, Living)
      BY <3>8, TreeReaped DEF TreeInv
    <3>10. Tree(process_table, Members, Living)'
      BY <2>2, <2>3, <3>3, <3>9
    <3>11. Ghostly' /\ CurrentInUse'
      BY <1>2, <2>1, <2>6, <3>1 DEF Ghostly, Ended, CurrentInUse
    <3>12. QED
      BY <2>4, <2>5, <3>10, <3>11 DEF TreeInv
  <2>7. CASE Zombie(cur)
    <3>1. /\ t[cur].page_directory = NULL
          /\ \E S \in SUBSET Slots : Ghosts(t, Members, cur, S)
      BY <1>0, <1>1, <1>2, <1>3, <2>7 DEF Ghostly, Ended
    <3>2. PICK S \in SUBSET Slots : Ghosts(t, Members, cur, S)
      BY <3>1
    <3>3. /\ t[cur].children \in S \cup {NULL} /\ cur \notin S
          /\ \A c \in S : t[c].next_sibling \in S \cup {NULL}
      BY <3>2 DEF Ghosts
    <3>4. \A i \in Slots : t[i].next_sibling \in Pointer
      BY <1>1, TypesOfPCB
    <3>5. \A j \in 0..MAX_PROCESSES : at[j] \in S \cup {NULL}
      BY <3>3, <3>4, WalkWithin
    <3>6. z \in S /\ z # cur /\ t[z].next_sibling \in S \cup {NULL} /\ z # NULL
      BY <1>5, <3>3, <3>5 DEF Slots, NULL
    <3>7. t[z].parent = NULL
      BY <1>5, <2>2, <3>2, <3>6 DEF Ghosts
    <3>8. k # 0 => at[k - 1] \in S
      <4>1. k # 0 => k - 1 \in 0..MAX_PROCESSES
        BY ProcessAssumption
      <4>2. QED
        BY <1>5, <3>5, <4>1 DEF Slots, NULL
    <3>9. \A c \in Members : c \in S /\ t[c].parent # NULL /\ k # 0 => c # at[k - 1]
      BY <1>5, <3>2, <3>6 DEF Ghosts
    <3>10. \A c \in Members : t[c].parent # NULL =>
             process_table'[c].next_sibling = t[c].next_sibling
      BY <1>5, <2>2, <3>8, <3>9
    <3> HIDE DEF at
    <3>11. cur \notin Living
      BY <1>2, <1>3, <2>7 DEF Living
    <3>12. Kept(process_table, process_table', Members, Members \ {z}, Living)
      BY <1>5, <2>2, <2>3, <3>7, <3>10, <3>11 DEF Kept, Living
    <3>13. Tree(process_table', Members \ {z}, Living)
      BY <3>12, TreeKept DEF TreeInv
    <3>14. Tree(process_table, Members, Living)'
      BY <2>2, <2>3, <3>13
    <3>15. CurrentInUse'
      BY <1>2, <2>1, <3>6 DEF CurrentInUse
    <3>16. Ghosts(process_table', Members \ {z}, cur, S)
      <4>1. process_table'[cur].children \in S \cup {NULL}
        BY <1>2, <1>5, <3>3, <3>6
      <4>2. \A c \in S : process_table'[c].next_sibling \in S \cup {NULL}
        BY <1>5, <3>3, <3>6
      <4>3. ASSUME NEW c \in S \cap (Members \ {z}), process_table'[c].parent # NULL
            PROVE  process_table'[c].next_sibling = NULL /\ process_table'[c].state # "ZOMBIE"
        <5>1. t[c].parent # NULL /\ process_table'[c].state = t[c].state
          BY <1>5, <2>2, <4>3
        <5>2. t[c].next_sibling = NULL /\ t[c].state # "ZOMBIE"
          BY <3>2, <4>3, <5>1 DEF Ghosts
        <5>3. QED
          BY <3>10, <4>3, <5>1, <5>2
      <4>4. QED
        BY <3>3, <4>1, <4>2, <4>3 DEF Ghosts
    <3>17. process_table'[cur].page_directory = NULL
      BY <1>2, <1>5, <3>1
    <3>18. Ghostly'
      BY <1>2, <2>2, <3>16, <3>17 DEF Ghostly
    <3>19. QED
      BY <2>4, <2>5, <3>14, <3>15, <3>18 DEF TreeInv
  <2>8. QED
    BY <2>6, <2>7
<1>6. \/ UNCHANGED process_table
      \/ \E k \in 0..MAX_PROCESSES : Unlinks(t, process_table', cur, at, k)
  BY <1>0, <1>1, WaitFields
<1>7. ASSUME NEW k \in 0..MAX_PROCESSES, Unlinks(t, process_table', cur, at, k)
      PROVE  TreeInv'
  <2> HIDE DEF at, t
  <2> QED
    BY <1>5, <1>7 DEF Unlinks
<1> HIDE DEF at, t
<1>8. QED
  BY <1>4, <1>6, <1>7

\* Every step keeps the tree, when no allocation fails.
LEMMA TreeInvStep ==
  ASSUME FailSites = {}
  PROVE  ProcInv /\ TreeInv /\ [NextExit]_vars => TreeInv'
<1> SUFFICES ASSUME ProcInv, TreeInv, [NextExit]_vars PROVE TreeInv'
  OBVIOUS
<1>1. CASE Create
  BY <1>1, CreateTree, CreatePartsTree DEF Create
<1>2. CASE Fork
  BY <1>2, ForkTree, ForkCopyTree, ForkLinkTree, ForkRestTree DEF Fork
<1>3. CASE sys_fork
  BY <1>3, SysForkTree
<1>4. CASE sys_wait
  BY <1>4, WaitTree
<1>5. CASE timer_irq_handler
  BY <1>5, TimerTree
<1>6. CASE process_exit
  BY <1>6, ExitTree
<1>7. CASE exit_release
  BY <1>7, ReleaseTree
<1>8. CASE UNCHANGED vars
  BY <1>8, TreeInvSame DEF vars
<1>9. QED
  BY <1>1, <1>2, <1>3, <1>4, <1>5, <1>6, <1>7, <1>8 DEF NextExit, Next

\* The tree is what the code walks: the lists of children that process_wait and
\* process_exit follow.
LEMMA TreeInvTree == ProcInv /\ TreeInv => ChildrenTree
<1> SUFFICES ASSUME ProcInv, TreeInv, NEW i \in Slots, InUse(i), ~Copied(i)
             PROVE  LET t == process_table
                    IN  /\ t[i].state # "ZOMBIE" =>
                             /\ ~Endless(t, t[i].children)
                             /\ \A c \in Listed(t, t[i].children) : InUse(c) /\ t[c].parent = i
                        /\ t[i].parent # NULL =>
                             InUse(t[i].parent) /\ i \in Listed(t, t[t[i].parent].children)
  BY DEF ChildrenTree
<1>1. TypeOK /\ i \in Members
  BY DEF ProcInv, Members
<1>2. ASSUME process_table[i].state # "ZOMBIE"
      PROVE  /\ ~Endless(process_table, process_table[i].children)
             /\ \A c \in Listed(process_table, process_table[i].children) :
                  InUse(c) /\ process_table[c].parent = i
  <2>1. i \in Living
    BY <1>1, <1>2 DEF Living, Zombie
  <2>2. PICK s \in Seq(Slots) :
          /\ Kids(process_table, Members, i, s)
          /\ ~Endless(process_table, process_table[i].children)
          /\ \A c : c \in Listed(process_table, process_table[i].children) <=> InList(s, c)
    BY <1>1, <2>1, LivingList
  <2>3. \A c : InList(s, c) => c \in Members /\ process_table[c].parent = i
    BY <2>2, KidsAre DEF InList
  <2>4. QED
    BY <2>2, <2>3 DEF Members
<1>3. ASSUME process_table[i].parent # NULL
      PROVE  /\ InUse(process_table[i].parent)
             /\ i \in Listed(process_table, process_table[process_table[i].parent].children)
  <2> DEFINE p == process_table[i].parent
  <2>1. p \in Living
    BY <1>1, <1>3 DEF TreeInv, Tree
  <2>2. PICK s \in Seq(Slots) :
          /\ Kids(process_table, Members, p, s)
          /\ \A c : c \in Listed(process_table, process_table[p].children) <=> InList(s, c)
    BY <1>1, <2>1, LivingList
  <2>3. InList(s, i)
    BY <1>1, <2>2 DEF Kids
  <2>4. QED
    BY <2>1, <2>2, <2>3 DEF Living, Members
<1>4. QED
  BY <1>2, <1>3

LEMMA TreeInvAlways ==
  ASSUME FailSites = {}
  PROVE  ExitSpec => []TreeInv
<1>1. Init => TreeInv
  BY TreeInvInit
<1>2. ProcInv /\ TreeInv /\ [NextExit]_vars => TreeInv'
  BY TreeInvStep
<1>3. QED
  BY <1>1, <1>2, ProcInvAlways, PTL DEF ExitSpec

\* While no allocation fails, the parent pointers and the lists of children agree for
\* every interleaving of fork, exit, wait and the timer: process_wait and process_exit
\* walk lists that end, over the processes whose parent they are.
THEOREM ProcessChildrenTree ==
  ASSUME FailSites = {}
  PROVE  ExitSpec => []ChildrenTree
BY TreeInvAlways, ProcInvAlways, TreeInvTree, PTL

\* While no allocation fails, the current process is never a slot that is free: not
\* even a process that has ended and still forks and waits frees itself.
THEOREM ProcessCurrentInUse ==
  ASSUME FailSites = {}
  PROVE  ExitSpec => []CurrentInUse
<1>1. TreeInv => CurrentInUse
  BY DEF TreeInv
<1>2. QED
  BY <1>1, TreeInvAlways, PTL
=============================================================================
