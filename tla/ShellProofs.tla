---------------------------- MODULE ShellProofs -----------------------------
(***************************************************************************)
(* What the shell's thread and its callers rely on: the ring of keys, which *)
(* implements a queue; the sockets behind the system calls; the file       *)
(* commands; and the directories of ext2.  For every size of the ring, the *)
(* tables and the directory.                                               *)
(***************************************************************************)
EXTENDS Files, KeyRing, Syscalls, Ext2Dir, FiniteSetTheorems, SetInduction, TLAPS

\* The number of keys that wait.
Count == IF buffer_write_pos >= buffer_read_pos THEN buffer_write_pos - buffer_read_pos
         ELSE buffer_write_pos - buffer_read_pos + KEYBOARD_BUFFER_SIZE

\* The slot at a distance of at most one round from the start of the buffer.
Slot(n) == IF n < KEYBOARD_BUFFER_SIZE THEN n ELSE n - KEYBOARD_BUFFER_SIZE

\* Taking a position round the end, without the remainder.
LEMMA AfterIs ==
  ASSUME NEW pos \in Positions
  PROVE  /\ After(pos) = IF pos + 1 = KEYBOARD_BUFFER_SIZE THEN 0 ELSE pos + 1
         /\ After(pos) \in Positions
  BY KeyRingAssumption DEF After, Positions

\* Waiting, with its two local definitions named.
LEMMA WaitingIs ==
  Waiting = [k \in 1..Count |-> keyboard_buffer[Slot(buffer_read_pos + k - 1)]]
  BY DEF Waiting, Count, Slot

\* At most one key less than the size waits, and each of them lies in a slot.
LEMMA WaitingTyped ==
  ASSUME RingTypeOK
  PROVE  /\ Count \in 0..(KEYBOARD_BUFFER_SIZE - 1)
         /\ \A k \in 1..Count : Slot(buffer_read_pos + k - 1) \in Positions
         /\ Waiting \in Seq(Codes)
         /\ Len(Waiting) = Count
         /\ DOMAIN Waiting = 1..Count
  <1>1. Count \in 0..(KEYBOARD_BUFFER_SIZE - 1)
    BY KeyRingAssumption DEF RingTypeOK, Positions, Count
  <1>2. \A k \in 1..Count : Slot(buffer_read_pos + k - 1) \in Positions
    BY KeyRingAssumption DEF RingTypeOK, Positions, Count, Slot
  <1>3. \A k \in 1..Count : keyboard_buffer[Slot(buffer_read_pos + k - 1)] \in Codes
    BY <1>2 DEF RingTypeOK
  <1>. QED  BY <1>1, <1>2, <1>3, WaitingIs

\* Append, element by element.
LEMMA AppendIs ==
  ASSUME NEW S, NEW s \in Seq(S), NEW e \in S, NEW n \in Nat, Len(s) = n
  PROVE  Append(s, e) = [k \in 1..(n + 1) |-> IF k = n + 1 THEN e ELSE s[k]]
  <1>. DEFINE t == [k \in 1..(n + 1) |-> IF k = n + 1 THEN e ELSE s[k]]
  <1>1. t \in Seq(S) /\ Len(t) = n + 1
    <2>1. \A k \in 1..(n + 1) : t[k] \in S
      OBVIOUS
    <2>. QED  BY <2>1
  <1>2. Append(s, e) \in Seq(S) /\ Len(Append(s, e)) = n + 1
    OBVIOUS
  <1>3. \A k \in 1..(n + 1) : Append(s, e)[k] = t[k]
    OBVIOUS
  <1>. HIDE DEF t
  <1>4. Append(s, e) = t
    BY <1>1, <1>2, <1>3
  <1>. QED  BY <1>4 DEF t

\* Tail, element by element.
LEMMA TailIs ==
  ASSUME NEW S, NEW s \in Seq(S), NEW n \in Nat, Len(s) = n, n > 0
  PROVE  Tail(s) = [k \in 1..(n - 1) |-> s[k + 1]]
  <1>. DEFINE t == [k \in 1..(n - 1) |-> s[k + 1]]
  <1>0. s # <<>>
    OBVIOUS
  <1>1. t \in Seq(S) /\ Len(t) = n - 1
    <2>1. n - 1 \in Nat /\ \A k \in 1..(n - 1) : t[k] \in S
      OBVIOUS
    <2>. QED  BY <2>1
  <1>2. Tail(s) \in Seq(S) /\ Len(Tail(s)) = n - 1
    BY <1>0
  <1>3. \A k \in 1..(n - 1) : Tail(s)[k] = t[k]
    BY <1>0, <1>2
  <1>. HIDE DEF t
  <1>4. Tail(s) = t
    BY <1>1, <1>2, <1>3
  <1>. QED  BY <1>4 DEF t

\* The ring's positions stay inside the buffer.
LEMMA RingTypeStep ==
  ASSUME RingTypeOK, [RingNext]_ringvars
  PROVE  RingTypeOK'
  <1>1. ASSUME NEW c \in Codes, buffer_put(c)
        PROVE  RingTypeOK'
    <2>1. buffer_write_pos \in Positions /\ After(buffer_write_pos) \in Positions
      BY AfterIs DEF RingTypeOK
    <2>. QED  BY <1>1, <2>1 DEF buffer_put, RingTypeOK
  <1>2. CASE buffer_get
    <2>1. buffer_read_pos \in Positions /\ After(buffer_read_pos) \in Positions
      BY AfterIs DEF RingTypeOK
    <2>. QED  BY <1>2, <2>1 DEF buffer_get, RingTypeOK
  <1>3. CASE UNCHANGED ringvars
    BY <1>3 DEF ringvars, RingTypeOK, Positions
  <1>. QED  BY <1>1, <1>2, <1>3 DEF RingNext

\* buffer_put refuses a key exactly when one key less than the size waits.
LEMMA FullIs ==
  ASSUME RingTypeOK
  PROVE  buffer_is_full <=> Count = KEYBOARD_BUFFER_SIZE - 1
  <1>1. /\ buffer_write_pos \in Positions /\ buffer_read_pos \in Positions
    BY DEF RingTypeOK
  <1>2. After(buffer_write_pos) =
          IF buffer_write_pos + 1 = KEYBOARD_BUFFER_SIZE THEN 0 ELSE buffer_write_pos + 1
    BY <1>1, AfterIs
  <1>. QED  BY <1>1, <1>2, KeyRingAssumption DEF buffer_is_full, Positions, Count

\* A key that is put goes behind the others and leaves them where they are.
LEMMA PutAppends ==
  ASSUME RingTypeOK, RingTypeOK', NEW c \in Codes, buffer_put(c), ~buffer_is_full
  PROVE  Waiting' = Append(Waiting, c)
  <1>1. /\ keyboard_buffer' = [keyboard_buffer EXCEPT ![buffer_write_pos] = c]
        /\ buffer_write_pos' = After(buffer_write_pos)
        /\ buffer_read_pos' = buffer_read_pos
    BY DEF buffer_put
  <1>2. Count' = Count + 1
    <2>1. buffer_write_pos' = IF buffer_write_pos + 1 = KEYBOARD_BUFFER_SIZE THEN 0
                              ELSE buffer_write_pos + 1
      BY <1>1, AfterIs DEF RingTypeOK
    <2>2. Count < KEYBOARD_BUFFER_SIZE - 1
      BY FullIs, WaitingTyped, KeyRingAssumption
    <2>. QED  BY <1>1, <2>1, <2>2, KeyRingAssumption DEF RingTypeOK, Positions, Count
  <1>3. Slot(buffer_read_pos + Count) = buffer_write_pos
    BY KeyRingAssumption DEF RingTypeOK, Positions, Count, Slot
  <1>4. ASSUME NEW k \in 1..Count
        PROVE  Slot(buffer_read_pos + k - 1) # buffer_write_pos
    BY KeyRingAssumption DEF RingTypeOK, Positions, Count, Slot
  <1>5. Waiting' = [k \in 1..(Count + 1) |->
                      keyboard_buffer'[Slot(buffer_read_pos + k - 1)]]
    BY <1>1, <1>2 DEF Waiting, Slot, Count
  <1>6. Append(Waiting, c) = [k \in 1..(Count + 1) |-> IF k = Count + 1 THEN c ELSE Waiting[k]]
    BY WaitingTyped, AppendIs
  <1>7. ASSUME NEW k \in 1..(Count + 1)
        PROVE  keyboard_buffer'[Slot(buffer_read_pos + k - 1)]
                 = IF k = Count + 1 THEN c ELSE Waiting[k]
    <2>1. CASE k = Count + 1
      <3>1. buffer_read_pos + k - 1 = buffer_read_pos + Count
        BY <2>1, WaitingTyped DEF RingTypeOK, Positions
      <3>. QED  BY <2>1, <3>1, <1>1, <1>3 DEF RingTypeOK
    <2>2. CASE k # Count + 1
      <3>1. k \in 1..Count
        BY <2>2, WaitingTyped
      <3>2. Slot(buffer_read_pos + k - 1) \in Positions
        BY <3>1, WaitingTyped
      <3>3. Waiting[k] = keyboard_buffer[Slot(buffer_read_pos + k - 1)]
        BY <3>1, WaitingIs
      <3>. QED  BY <2>2, <3>1, <3>2, <3>3, <1>1, <1>4 DEF RingTypeOK
    <2>. QED  BY <2>1, <2>2
  <1>. QED  BY <1>5, <1>6, <1>7

\* The key that is got is the oldest.
LEMMA GetTakesOldest ==
  ASSUME RingTypeOK, RingTypeOK', buffer_get
  PROVE  Waiting # <<>> /\ Waiting' = Tail(Waiting)
  <1>1. /\ keyboard_buffer' = keyboard_buffer
        /\ buffer_write_pos' = buffer_write_pos
        /\ buffer_read_pos' = After(buffer_read_pos)
        /\ buffer_read_pos # buffer_write_pos
    BY DEF buffer_get, buffer_is_empty
  <1>0. buffer_read_pos' = IF buffer_read_pos + 1 = KEYBOARD_BUFFER_SIZE THEN 0
                           ELSE buffer_read_pos + 1
    BY <1>1, AfterIs DEF RingTypeOK
  <1>2. Count' = Count - 1 /\ Count > 0
    BY <1>1, <1>0, KeyRingAssumption DEF RingTypeOK, Positions, Count
  <1>3. ASSUME NEW k \in 1..(Count - 1)
        PROVE  Slot(buffer_read_pos' + k - 1) = Slot(buffer_read_pos + (k + 1) - 1)
    BY <1>1, <1>0, KeyRingAssumption DEF RingTypeOK, Positions, Count, Slot
  <1>4. Waiting' = [k \in 1..(Count - 1) |->
                      keyboard_buffer[Slot(buffer_read_pos' + k - 1)]]
    BY <1>1, <1>2 DEF Waiting, Slot, Count
  <1>5. Tail(Waiting) = [k \in 1..(Count - 1) |-> Waiting[k + 1]]
    BY <1>2, WaitingTyped, TailIs
  <1>6. ASSUME NEW k \in 1..(Count - 1)
        PROVE  Waiting[k + 1] = keyboard_buffer[Slot(buffer_read_pos + (k + 1) - 1)]
    <2>1. k + 1 \in 1..Count
      BY WaitingTyped
    <2>. QED  BY <2>1, WaitingIs
  <1>. QED  BY <1>2, <1>3, <1>4, <1>5, <1>6, WaitingTyped

\* The positions of keyboard.c's ring stay inside the buffer, whatever its size
\* and however IRQ1 and the shell interleave.
THEOREM RingTypeCorrect == RingSpec => []RingTypeOK
  <1>1. RingInit => RingTypeOK
    BY KeyRingAssumption DEF RingInit, RingTypeOK, Positions
  <1>. QED  BY <1>1, RingTypeStep, PTL DEF RingSpec

\* The ring of keyboard.c is a queue of one key less than its size: no key
\* overtakes another, none is overwritten unread, none is dropped before the
\* queue is full.
THEOREM RingRefinesQueue == RingSpec => RefinesQueue
  <1>1. RingInit => Queue!Init
    <2>1. ASSUME RingInit PROVE Waiting = <<>>
      BY <2>1 DEF RingInit, Waiting
    <2>. QED  BY <2>1 DEF RingInit, Queue!Init
  <1>2. ASSUME RingTypeOK, RingTypeOK', [RingNext]_ringvars
        PROVE  [Queue!Next]_<<Waiting, dropped>>
    <2>1. ASSUME NEW c \in Codes, buffer_put(c), buffer_is_full
          PROVE  Queue!Drop
      <3>1. dropped' = dropped + 1 /\ Waiting' = Waiting
        BY <2>1 DEF buffer_put, Waiting
      <3>2. Len(Waiting) = KEYBOARD_BUFFER_SIZE - 1
        BY <1>2, <2>1, FullIs, WaitingTyped
      <3>. QED  BY <3>1, <3>2 DEF Queue!Drop
    <2>2. ASSUME NEW c \in Codes, buffer_put(c), ~buffer_is_full
          PROVE  Queue!Put(c)
      <3>1. Len(Waiting) < KEYBOARD_BUFFER_SIZE - 1
        BY <1>2, <2>2, FullIs, WaitingTyped, KeyRingAssumption
      <3>2. dropped' = dropped
        BY <2>2 DEF buffer_put
      <3>. QED  BY <1>2, <2>2, <3>1, <3>2, PutAppends DEF Queue!Put
    <2>3. CASE buffer_get
      <3>1. dropped' = dropped
        BY <2>3 DEF buffer_get
      <3>. QED  BY <1>2, <2>3, <3>1, GetTakesOldest DEF Queue!Get, Queue!Next
    <2>4. CASE UNCHANGED ringvars
      BY <2>4 DEF ringvars, Waiting
    <2>. QED  BY <1>2, <2>1, <2>2, <2>3, <2>4 DEF RingNext, Queue!Next
  <1>. QED  BY <1>1, <1>2, RingTypeCorrect, PTL DEF RingSpec, RefinesQueue, Queue!Spec

-----------------------------------------------------------------------------
Unchanged == UNCHANGED <<socket_table, next_sockfd>>

\* The inductive invariant: a table of closed sockets, filled from the start; that slots
\* are used once needs that no call finds one to close.
SocketInv ==
  /\ DOMAIN socket_table = Slots
  /\ socket_table = [i \in Slots |-> socket_table[i]]
  /\ next_sockfd \in Nat
  /\ NeverOpened
  /\ SlotsUsedOnce

\* The walks over the table stop at the lowest slot that fits.
LEMMA FirstIs ==
  ASSUME NEW S, S \subseteq Slots, NEW x \in S, \A j \in S : x <= j
  PROVE  First(S) = x
<1>1. \A i \in S : (\A j \in S : i <= j) => i = x
  BY SocketsAssumption DEF Slots
<1>. QED  BY <1>1 DEF First

\* While every socket is closed no lookup finds one.
LEMMA LookupFails ==
  ASSUME NeverOpened, NEW n
  PROVE  socket_get_by_fd(n) = None /\ socket_find_by_address(n) = None
BY DEF NeverOpened, socket_get_by_fd, socket_find_by_address, First

\* The first free slot is the one after the last used.
LEMMA NextSlot ==
  ASSUME SocketInv
  PROVE  socket_alloc = IF next_sockfd <= MAX_SOCKETS THEN next_sockfd ELSE None
<1>. DEFINE S == {i \in Slots : socket_table[i].state = "CLOSED" /\ socket_table[i].fd = -1}
<1>1. next_sockfd \in Nat /\ next_sockfd >= 1
  BY SocketsAssumption DEF SocketInv, SlotsUsedOnce
<1>2. S = {i \in Slots : i >= next_sockfd}
  <2>1. ASSUME NEW i \in Slots
        PROVE  (socket_table[i].state = "CLOSED" /\ socket_table[i].fd = -1) <=> i >= next_sockfd
    <3>1. i \in Nat /\ i >= 1
      BY SocketsAssumption DEF Slots
    <3>2. socket_table[i].state = "CLOSED"
      BY DEF SocketInv, NeverOpened
    <3>3. socket_table[i].fd = IF i < next_sockfd THEN i ELSE -1
      BY DEF SocketInv, SlotsUsedOnce
    <3>. QED  BY <1>1, <3>1, <3>2, <3>3
  <2>. QED  BY <2>1
<1>3. CASE next_sockfd <= MAX_SOCKETS
  <2>1. next_sockfd \in S /\ \A j \in S : next_sockfd <= j
    BY <1>1, <1>2, <1>3, SocketsAssumption DEF Slots
  <2>2. First(S) = next_sockfd
    BY <2>1, FirstIs
  <2>. QED  BY <2>2, <1>3 DEF socket_alloc
<1>4. CASE ~(next_sockfd <= MAX_SOCKETS)
  <2>1. S = {}
    BY <1>1, <1>2, <1>4, SocketsAssumption DEF Slots
  <2>. QED  BY <2>1, <1>4 DEF socket_alloc, First
<1>. QED  BY <1>3, <1>4

\* socket_create takes the next slot and leaves the socket CLOSED, or changes nothing.
LEMMA CreateKeeps ==
  ASSUME SocketInv, NEW pid, NEW family, NEW type, socket_create(pid, family, type)
  PROVE  SocketInv'
<1>. DEFINE s == socket_alloc
            r == [Unused EXCEPT !.fd = next_sockfd, !.type = type, !.owner = pid]
<1>1. CASE Unchanged
  BY <1>1 DEF Unchanged, SocketInv, NeverOpened, SlotsUsedOnce
<1>2. CASE /\ s # None
           /\ socket_table' = [socket_table EXCEPT ![s] = r]
           /\ next_sockfd' = next_sockfd + 1
  <2>1. s = next_sockfd /\ next_sockfd \in Slots
    BY <1>2, NextSlot, SocketsAssumption DEF SocketInv, SlotsUsedOnce, Slots, None
  <2>2. r.state = "CLOSED" /\ r.fd = next_sockfd
    BY DEF Unused
  <2>3. /\ DOMAIN socket_table' = Slots
        /\ \A i \in Slots : socket_table'[i] = IF i = next_sockfd THEN r ELSE socket_table[i]
    BY <1>2, <2>1 DEF SocketInv
  <2>4. socket_table' = [i \in Slots |-> socket_table'[i]]
    BY <1>2, <2>1 DEF SocketInv
  <2>5. NeverOpened'
    BY <2>2, <2>3, Zenon DEF SocketInv, NeverOpened
  <2>6. SlotsUsedOnce'
    BY <1>2, <2>1, <2>2, <2>3, SocketsAssumption DEF SocketInv, SlotsUsedOnce, Slots
  <2>7. next_sockfd' \in Nat
    BY <1>2 DEF SocketInv
  <2>. QED  BY <2>3, <2>4, <2>5, <2>6, <2>7 DEF SocketInv
<1>. QED  BY <1>1, <1>2 DEF socket_create, Fail, Unchanged

\* Every call on an existing socket fails and changes nothing.
LEMMA CallsFail ==
  ASSUME NeverOpened, NEW fd, NEW x, NEW y,
         \/ socket_bind(fd, x) \/ socket_listen(fd) \/ socket_accept(fd)
         \/ socket_connect(fd, x) \/ socket_send(fd, x, y) \/ socket_recv(fd)
         \/ socket_close(fd)
  PROVE  Unchanged /\ result' = -1
<1>1. socket_get_by_fd(fd) = None
  BY LookupFails
<1>. QED
  BY <1>1 DEF socket_bind, socket_listen, socket_accept, socket_connect, socket_send,
              socket_recv, socket_close, Fail, Unchanged

\* Every system call keeps the invariant.
LEMMA SocketStep ==
  ASSUME SocketInv, [TrapsNext]_trapvars
  PROVE  SocketInv'
<1>. USE DEF SocketInv
<1>1. ASSUME Unchanged  PROVE SocketInv'
  BY <1>1 DEF Unchanged, NeverOpened, SlotsUsedOnce
<1>2. ASSUME NEW num \in SyscallNumbers, syscall_dispatcher(num)
      PROVE  SocketInv'
  <2>1. \/ Unchanged
        \/ \E pid \in CurrentPids, family \in {"UNIX", "INET"},
              type \in Types \union {"RAW"} : sys_socket(pid, family, type)
        \/ \E fd \in Fds, port \in Ports : socket_bind(fd, port) \/ socket_connect(fd, port)
        \/ \E fd \in Fds : socket_listen(fd) \/ socket_accept(fd) \/ socket_recv(fd)
        \/ \E fd \in Fds, msg \in Data, room \in BOOLEAN : socket_send(fd, msg, room)
    BY <1>2 DEF syscall_dispatcher, sys_write, sys_exit, Elsewhere, Fail, Unchanged
  <2>2. ASSUME NEW pid, NEW family, NEW type, sys_socket(pid, family, type)
        PROVE  SocketInv'
    BY <2>2, <1>1, CreateKeeps DEF sys_socket, Fail, Unchanged
  <2>. QED  BY <2>1, <2>2, <1>1, CallsFail
<1>3. ASSUME NEW fd \in Fds, sys_socket_close(fd)  PROVE SocketInv'
  BY <1>3, <1>1, CallsFail DEF sys_socket_close
<1>4. CASE UNCHANGED trapvars
  BY <1>4, <1>1 DEF trapvars, Unchanged
<1>. QED  BY <1>2, <1>3, <1>4 DEF TrapsNext

\* The invariant holds from socket_init on.
LEMMA SocketInvHolds == TrapsSpec => []SocketInv
<1>1. TrapsInit => SocketInv
  BY SocketsAssumption DEF TrapsInit, socket_init, SocketInv, NeverOpened, SlotsUsedOnce, Slots, Unused
<1>. QED  BY <1>1, SocketStep, PTL DEF TrapsSpec

\* No sequence of system calls opens a socket, for any size of the table: socket_create
\* leaves it CLOSED and every other call looks for one that is not.
THEOREM SocketsNeverOpen == TrapsSpec => []NeverOpened
BY SocketInvHolds, PTL DEF SocketInv

\* Socket k has slot k and fd k for ever, for any size of the table: nothing frees a slot.
THEOREM SocketsUsedOnce == TrapsSpec => []SlotsUsedOnce
BY SocketInvHolds, PTL DEF SocketInv

-----------------------------------------------------------------------------
\* Who commands act on, and what the mount table and the last listing hold.
FilesInv ==
  /\ at \in {"idle", "build", "set", "update"}
  /\ current_process \in FileProcs \cup {Nobody} /\ caller \in FileProcs \cup {Nobody}
  /\ DOMAIN pwd = FileProcs /\ pwd = [p \in FileProcs |-> pwd[p]]
  /\ DOMAIN uid = FileProcs /\ uid = [p \in FileProcs |-> uid[p]]
  /\ ~raced /\ at # "idle" => current_process = caller
  /\ memory \in Nat
  /\ mounts \in Seq(Paths \cup {RootPath}) /\ balance \in [Paths -> Int]
  /\ ListingComplete /\ MountsExact

\* A command that begins leaves the processes alone.
LEMMA BeginKeeps ==
  ASSUME FilesInv, Begin
  PROVE  /\ at = "idle" /\ caller' = current_process /\ current_process' = current_process
         /\ pwd' = pwd /\ uid' = uid
BY DEF Begin

\* What a command leaves behind that touches neither the mounts nor the memory.
LEMMA QuietStep ==
  ASSUME FilesInv, Begin, UNCHANGED <<mounts, memory, balance>>,
         at' \in {"idle", "build", "set", "update"}, output' = <<>> \/ output'[1] # "ls"
  PROVE  FilesInv'
<1>1. ListingComplete'
  BY DEF ListingComplete
<1>2. MountsExact'
  BY DEF FilesInv, MountsExact
<1>3. QED
  BY <1>1, <1>2, BeginKeeps DEF FilesInv

\* The later steps of a command, and the timer.
LEMMA LaterStep ==
  ASSUME FilesInv, cd_build \/ cd_set \/ login_update \/ process_schedule
  PROVE  FilesInv'
<1>1. UNCHANGED <<mounts, memory, output, balance, caller>>
  BY DEF cd_build, cd_set, login_update, process_schedule, Rest
<1>2. ListingComplete' /\ MountsExact'
  BY <1>1 DEF FilesInv, ListingComplete, MountsExact
<1>3. CASE cd_build
  BY <1>1, <1>2, <1>3 DEF cd_build, Rest, FilesInv
<1>4. CASE cd_set
  <2>1. pwd' = pwd \/ pwd' = [pwd EXCEPT ![current_process] = cmd]
    BY <1>4 DEF cd_set
  <2>2. DOMAIN pwd' = FileProcs /\ pwd' = [p \in FileProcs |-> pwd'[p]]
    BY <2>1 DEF FilesInv
  <2>3. QED
    BY <1>1, <1>2, <1>4, <2>2 DEF cd_set, Rest, FilesInv
<1>5. CASE login_update
  <2>1. uid' = uid \/ uid' = [uid EXCEPT ![current_process] = current_uid]
    BY <1>5 DEF login_update
  <2>2. DOMAIN uid' = FileProcs /\ uid' = [p \in FileProcs |-> uid'[p]]
    BY <2>1 DEF FilesInv
  <2>3. QED
    BY <1>1, <1>2, <1>5, <2>2 DEF login_update, Rest, FilesInv
<1>6. CASE process_schedule
  BY <1>1, <1>2, <1>6, Zenon DEF process_schedule, FilesInv
<1>7. QED
  BY <1>3, <1>4, <1>5, <1>6

\* ls shows as many entries as there is memory for, and takes that much.
LEMMA LsStep ==
  ASSUME FilesInv, NEW d, cmd_ls(d)
  PROVE  FilesInv'
<1>1. Begin /\ UNCHANGED <<at, mounts, balance>>
  BY DEF cmd_ls
<1>2. CASE d \notin Directories
  BY <1>1, <1>2, QuietStep DEF cmd_ls, FilesInv
<1>3. CASE d \in Directories
  <2> DEFINE c == Children[d]
             S == {"readme.txt", "home", "tmp", "dev"}
  <2>1. c \in Seq(S)
    <3>1. d \in {Root, "home", "tmp", "dev"}
      BY <1>3 DEF Directories, Children
    <3>2. c = <<"readme.txt", "home", "tmp", "dev">> \/ c = <<>>
      BY <3>1 DEF Children
    <3>3. <<"readme.txt", "home", "tmp", "dev">> \in Seq(S) /\ <<>> \in Seq(S)
      OBVIOUS
    <3>4. QED
      BY <3>2, <3>3, Zenon
  <2> HIDE DEF c, S
  <2>2. PICK m \in Nat : m = IF memory < Len(c) THEN memory ELSE Len(c)
    BY <2>1 DEF FilesInv
  <2>3. output' = <<"ls", d, SubSeq(c, 1, m)>> /\ memory' = memory - Len(SubSeq(c, 1, m))
    BY <1>3, <2>2 DEF cmd_ls, vfs_virtual_readdir, c
  <2>4. m <= Len(c) /\ m <= memory /\ memory \in Nat
    BY <2>1, <2>2 DEF FilesInv
  <2>5. Len(SubSeq(c, 1, m)) = m
    BY <2>1, <2>4
  <2>6. m = Len(c) => SubSeq(c, 1, m) = c
    BY <2>1
  <2>7. memory' = memory - m /\ memory' \in Nat
    BY <2>3, <2>4, <2>5
  <2>8. SubSeq(c, 1, m) = c \/ memory' = 0
    BY <2>1, <2>2, <2>4, <2>6, <2>7
  <2>9. ListingComplete'
    BY <2>3, <2>8 DEF ListingComplete, c
  <2>10. MountsExact'
    BY <1>1 DEF FilesInv, MountsExact
  <2>11. QED
    BY <1>1, <2>7, <2>9, <2>10, BeginKeeps DEF FilesInv
<1>4. QED
  BY <1>2, <1>3

\* The entries of a mount table with a path.
EntriesOf(m, p) == {k \in DOMAIN m : m[k] = p}

\* A path of a table is there a number of times.
LEMMA EntriesFinite ==
  ASSUME NEW S, NEW m \in Seq(S), NEW p
  PROVE  IsFiniteSet(EntriesOf(m, p)) /\ Cardinality(EntriesOf(m, p)) \in Nat
<1>1. EntriesOf(m, p) \subseteq 1..Len(m)
  BY DEF EntriesOf
<1>2. IsFiniteSet(1..Len(m))
  BY FS_Interval
<1>3. QED
  BY <1>1, <1>2, FS_Subset, FS_CardinalityType

\* One more entry at the end of the table.
LEMMA EntriesAppended ==
  ASSUME NEW S, NEW m \in Seq(S), NEW q \in S, NEW p
  PROVE  Cardinality(EntriesOf(Append(m, q), p)) =
           IF p = q THEN Cardinality(EntriesOf(m, p)) + 1 ELSE Cardinality(EntriesOf(m, p))
<1>1. PICK n \in Nat : n = Len(m)
  OBVIOUS
<1>2. /\ DOMAIN m = 1..n /\ DOMAIN Append(m, q) = 1..(n + 1)
      /\ Append(m, q)[n + 1] = q /\ \A k \in 1..n : Append(m, q)[k] = m[k]
  BY <1>1
<1>3. \A k \in 1..(n + 1) : k \in 1..n \/ k = n + 1
  OBVIOUS
<1>4. \A k \in 1..n : k \in 1..(n + 1) /\ k # n + 1
  OBVIOUS
<1>5. CASE p = q
  <2>1. EntriesOf(Append(m, q), p) = EntriesOf(m, p) \cup {n + 1} /\ n + 1 \notin EntriesOf(m, p)
    BY <1>2, <1>3, <1>4, <1>5 DEF EntriesOf
  <2>2. QED
    BY <1>5, <2>1, EntriesFinite, FS_AddElement, Zenon
<1>6. CASE p # q
  <2>1. EntriesOf(Append(m, q), p) = EntriesOf(m, p)
    BY <1>2, <1>3, <1>4, <1>6 DEF EntriesOf
  <2>2. QED
    BY <1>6, <2>1
<1>7. QED
  BY <1>5, <1>6

\* c is the sequence m of n entries without its entry i: those behind it have moved down.
IsWithout(c, m, n, i) ==
  /\ c = SubSeq(m, 1, i - 1) \o SubSeq(m, i + 1, n) /\ Len(c) = n - 1
  /\ \A k \in 1..(n - 1) : c[k] = IF k < i THEN m[k] ELSE m[k + 1]

\* c is the sequence a and behind it the sequence b.
IsJoined(c, a, b) ==
  /\ c = a \o b /\ Len(c) = Len(a) + Len(b)
  /\ \A k \in 1..Len(a) : c[k] = a[k]
  /\ \A k \in 1..Len(b) : c[Len(a) + k] = b[k]

\* Two sequences, one behind the other.
LEMMA Joined ==
  ASSUME NEW S, NEW a \in Seq(S), NEW b \in Seq(S)
  PROVE  \E c \in Seq(S) : IsJoined(c, a, b)
<1>1. a \o b \in Seq(S) /\ Len(a \o b) = Len(a) + Len(b)
  OBVIOUS
<1>2. \A k \in 1..Len(a) : (a \o b)[k] = a[k]
  OBVIOUS
<1>3. \A k \in 1..Len(b) : (a \o b)[Len(a) + k] = b[k]
  OBVIOUS
<1>4. IsJoined(a \o b, a, b)
  BY <1>1, <1>2, <1>3, Zenon DEF IsJoined
<1>5. QED
  BY <1>1, <1>4, Zenon

\* A sequence without its entry i: SubSeq twice, and the two parts put together.
LEMMA Without ==
  ASSUME NEW S, NEW m \in Seq(S), NEW n \in Nat, n = Len(m), NEW i \in 1..n
  PROVE  \E c \in Seq(S) : IsWithout(c, m, n, i)
<1>1. /\ SubSeq(m, 1, i - 1) \in Seq(S) /\ Len(SubSeq(m, 1, i - 1)) = i - 1
      /\ \A k \in 1..(i - 1) : SubSeq(m, 1, i - 1)[k] = m[k]
      /\ SubSeq(m, i + 1, n) \in Seq(S) /\ Len(SubSeq(m, i + 1, n)) = n - i
      /\ \A k \in 1..(n - i) : SubSeq(m, i + 1, n)[k] = m[i + k]
  <2>1. SubSeq(m, 1, i - 1) \in Seq(S) /\ Len(SubSeq(m, 1, i - 1)) = i - 1
    OBVIOUS
  <2>2. \A k \in 1..(i - 1) : SubSeq(m, 1, i - 1)[k] = m[k]
    OBVIOUS
  <2>3. SubSeq(m, i + 1, n) \in Seq(S) /\ Len(SubSeq(m, i + 1, n)) = n - i
    OBVIOUS
  <2>4. \A k \in 1..(n - i) : SubSeq(m, i + 1, n)[k] = m[i + k]
    OBVIOUS
  <2>5. QED
    BY <2>1, <2>2, <2>3, <2>4, Zenon
<1>2. i - 1 \in Nat /\ n - i \in Nat
  OBVIOUS
<1>3. PICK j \in Nat, l \in Nat : j = i - 1 /\ l = n - i
  BY <1>2, Zenon
<1>4. PICK a \in Seq(S) : a = SubSeq(m, 1, i - 1) /\ Len(a) = j
                          /\ \A k \in 1..j : a[k] = m[k]
  BY <1>1, <1>3, Zenon
<1>5. PICK b \in Seq(S) : b = SubSeq(m, i + 1, n) /\ Len(b) = l
                          /\ \A k \in 1..l : b[k] = m[i + k]
  BY <1>1, <1>3, Zenon
<1>6. PICK c \in Seq(S) : IsJoined(c, a, b)
  BY Joined
<1>7. /\ c = SubSeq(m, 1, i - 1) \o SubSeq(m, i + 1, n) /\ Len(c) = j + l
      /\ \A k \in 1..j : c[k] = a[k]
      /\ \A k \in 1..l : c[j + k] = b[k]
  BY <1>4, <1>5, <1>6, Zenon DEF IsJoined
<1>8. Len(c) = n - 1
  <2>1. j + l = n - 1
    BY <1>3
  <2>2. QED
    BY <1>7, <2>1, Zenon
<1>9. ASSUME NEW k \in 1..(n - 1) PROVE c[k] = IF k < i THEN m[k] ELSE m[k + 1]
  <2>1. CASE k < i
    <3>1. k \in 1..j
      BY <1>3, <2>1
    <3>2. c[k] = a[k]
      BY <1>7, <3>1, Zenon
    <3>3. a[k] = m[k]
      BY <1>4, <3>1, Zenon
    <3>4. QED
      BY <2>1, <3>2, <3>3
  <2>2. CASE ~(k < i)
    <3>1. PICK t \in 1..l : k = j + t /\ i + t = k + 1
      BY <1>3, <2>2
    <3>2. c[k] = b[t]
      BY <1>7, <3>1, Zenon
    <3>3. b[t] = m[k + 1]
      BY <1>3, <1>5, <3>1, Zenon
    <3>4. QED
      BY <2>2, <3>2, <3>3
  <2>3. QED
    BY <2>1, <2>2
<1>10. IsWithout(c, m, n, i)
  BY <1>7, <1>8, <1>9, Zenon DEF IsWithout
<1>11. QED
  BY <1>10

\* The table without its entry i.
LEMMA ShiftIs ==
  ASSUME mounts \in Seq(Paths \cup {RootPath}), NEW n \in Nat, n = Len(mounts), NEW i \in 1..n
  PROVE  \E u \in Seq(Paths \cup {RootPath}) :
           /\ u = unmount_shift(i) /\ DOMAIN u = 1..(n - 1)
           /\ \A k \in 1..(n - 1) : u[k] = IF k < i THEN mounts[k] ELSE mounts[k + 1]
<1>1. PICK c \in Seq(Paths \cup {RootPath}) : IsWithout(c, mounts, n, i)
  BY Without
<1>2. c = unmount_shift(i)
  BY <1>1, Zenon DEF unmount_shift, IsWithout
<1>3. Len(c) = n - 1 /\ \A k \in 1..(n - 1) : c[k] = IF k < i THEN mounts[k] ELSE mounts[k + 1]
  BY <1>1, Zenon DEF IsWithout
<1>4. DOMAIN c = 1..(n - 1)
  BY <1>3
<1>5. QED
  BY <1>2, <1>3, <1>4, Zenon

\* Taking out an entry takes away one of its path and none of another.
LEMMA EntriesShifted ==
  ASSUME mounts \in Seq(Paths \cup {RootPath}), NEW i \in 1..Len(mounts), NEW p
  PROVE  Cardinality(EntriesOf(unmount_shift(i), p)) =
           IF p = mounts[i] THEN Cardinality(EntriesOf(mounts, p)) - 1
           ELSE Cardinality(EntriesOf(mounts, p))
<1>1. PICK n \in Nat : n = Len(mounts) /\ i \in 1..n /\ DOMAIN mounts = 1..n
  OBVIOUS
<1>2. PICK u \in Seq(Paths \cup {RootPath}) :
        /\ u = unmount_shift(i) /\ DOMAIN u = 1..(n - 1)
        /\ \A k \in 1..(n - 1) : u[k] = IF k < i THEN mounts[k] ELSE mounts[k + 1]
  BY <1>1, ShiftIs, Zenon
<1>3. PICK T : T = EntriesOf(mounts, p) \ {i}
  BY Zenon
<1> DEFINE f == [k \in EntriesOf(u, p) |-> IF k < i THEN k ELSE k + 1]
<1>4. f \in [EntriesOf(u, p) -> T]
  <2>1. ASSUME NEW k \in EntriesOf(u, p) PROVE f[k] \in T
    <3>1. k \in 1..(n - 1) /\ u[k] = p
      BY <1>2, <2>1 DEF EntriesOf
    <3>2. CASE k < i
      <4>1. k \in 1..n /\ k # i /\ mounts[k] = p /\ f[k] = k
        BY <1>1, <1>2, <2>1, <3>1, <3>2
      <4>2. QED
        BY <1>1, <1>3, <4>1 DEF EntriesOf
    <3>3. CASE ~(k < i)
      <4>1. k + 1 \in 1..n /\ k + 1 # i /\ mounts[k + 1] = p /\ f[k] = k + 1
        BY <1>1, <1>2, <2>1, <3>1, <3>3
      <4>2. QED
        BY <1>1, <1>3, <4>1 DEF EntriesOf
    <3>4. QED
      BY <3>2, <3>3
  <2>2. QED
    BY <2>1
<1>5. ASSUME NEW j \in EntriesOf(u, p), NEW k \in EntriesOf(u, p), f[j] = f[k] PROVE j = k
  <2>1. j \in Int /\ k \in Int
    BY <1>2 DEF EntriesOf
  <2>2. QED
    BY <1>1, <1>5, <2>1
<1>6. ASSUME NEW t \in T PROVE \E k \in EntriesOf(u, p) : f[k] = t
  <2>1. t \in 1..n /\ mounts[t] = p /\ t # i
    BY <1>1, <1>3 DEF EntriesOf
  <2>2. CASE t < i
    <3>1. t \in 1..(n - 1) /\ u[t] = p
      BY <1>1, <1>2, <2>1, <2>2
    <3>2. t \in EntriesOf(u, p)
      BY <1>2, <3>1 DEF EntriesOf
    <3>3. QED
      BY <2>2, <3>2
  <2>3. CASE ~(t < i)
    <3>1. t - 1 \in 1..(n - 1) /\ ~(t - 1 < i) /\ (t - 1) + 1 = t
      BY <1>1, <2>1, <2>3
    <3>2. u[t - 1] = p
      BY <1>2, <2>1, <3>1
    <3>3. t - 1 \in EntriesOf(u, p)
      BY <1>2, <3>1, <3>2 DEF EntriesOf
    <3>4. QED
      BY <3>1, <3>3
  <2>4. QED
    BY <2>2, <2>3
<1>7. f \in Bijection(EntriesOf(u, p), T)
  <2> HIDE DEF f
  <2> QED
    BY <1>4, <1>5, <1>6 DEF Bijection, Injection, Surjection, IsInjective
<1>8. IsFiniteSet(EntriesOf(mounts, p)) /\ Cardinality(EntriesOf(mounts, p)) \in Nat
  BY EntriesFinite
<1>9. IsFiniteSet(EntriesOf(u, p))
  BY EntriesFinite
<1>10. Cardinality(EntriesOf(u, p)) = Cardinality(T)
  <2>1. ExistsBijection(EntriesOf(u, p), T)
    BY <1>7 DEF ExistsBijection
  <2>2. QED
    BY <1>9, <2>1, FS_Bijection
<1>11. i \in EntriesOf(mounts, p) <=> p = mounts[i]
  BY <1>1 DEF EntriesOf
<1>12. CASE p = mounts[i]
  BY <1>2, <1>3, <1>8, <1>10, <1>11, <1>12, FS_RemoveElement, Zenon
<1>13. CASE p # mounts[i]
  BY <1>2, <1>3, <1>10, <1>11, <1>13, Zenon
<1>14. QED
  BY <1>12, <1>13

\* mount: the path goes to the end of a table that has room, and its balance goes up.
LEMMA MountStep ==
  ASSUME FilesInv, NEW device, NEW path \in Paths, cmd_mount(device, path)
  PROVE  FilesInv'
<1>1. Begin /\ output' = <<>> /\ UNCHANGED at
  BY DEF cmd_mount
<1>2. ListingComplete'
  BY <1>1 DEF ListingComplete
<1>3. CASE UNCHANGED <<mounts, balance>> /\ memory' \in Nat
  <2>1. MountsExact'
    BY <1>3 DEF FilesInv, MountsExact
  <2>2. QED
    BY <1>1, <1>2, <1>3, <2>1, BeginKeeps DEF FilesInv
<1>4. CASE vfs_mount(path)
  <2>1. /\ memory \in Nat /\ memory >= 3 /\ memory' = memory - 3
        /\ Len(mounts) < MAX_MOUNTS /\ mounts' = Append(mounts, path)
        /\ balance' = [balance EXCEPT ![path] = @ + 1]
    BY <1>4 DEF vfs_mount, FilesInv
  <2>2. /\ mounts \in Seq(Paths \cup {RootPath}) /\ balance \in [Paths -> Int]
        /\ Len(mounts) <= MAX_MOUNTS
        /\ \A p \in Paths : Cardinality(EntriesOf(mounts, p)) = balance[p]
    BY DEF FilesInv, MountsExact, EntriesOf
  <2>3. memory' \in Nat
    BY <2>1
  <2>4. balance' \in [Paths -> Int]
    BY <2>1, <2>2
  <2>5. mounts' \in Seq(Paths \cup {RootPath}) /\ Len(mounts') = Len(mounts) + 1
    BY <2>1, <2>2
  <2>6. Len(mounts') <= MAX_MOUNTS
    BY <2>1, <2>2, <2>5, FilesAssumption
  <2>7. ASSUME NEW p \in Paths PROVE Cardinality(EntriesOf(mounts', p)) = balance'[p]
    <3>1. Cardinality(EntriesOf(mounts', p)) =
            IF p = path THEN balance[p] + 1 ELSE balance[p]
      BY <2>1, <2>2, EntriesAppended
    <3>2. balance'[p] = IF p = path THEN balance[p] + 1 ELSE balance[p]
      BY <2>1, <2>2
    <3>3. QED
      BY <3>1, <3>2
  <2>8. MountsExact'
    BY <2>6, <2>7, Zenon DEF MountsExact, EntriesOf
  <2>9. QED
    BY <1>1, <1>2, <2>3, <2>4, <2>5, <2>8, BeginKeeps DEF FilesInv
<1>5. (UNCHANGED <<mounts, balance>> /\ memory' \in Nat) \/ vfs_mount(path)
  BY DEF cmd_mount, FilesInv
<1>6. QED
  BY <1>3, <1>4, <1>5

\* umount: the first entry with the path goes, and its balance goes down.
LEMMA UmountStep ==
  ASSUME FilesInv, NEW path \in Paths, cmd_umount(path)
  PROVE  FilesInv'
<1>1. Begin /\ output' = <<>> /\ UNCHANGED at
  BY DEF cmd_umount
<1>2. ListingComplete'
  BY <1>1 DEF ListingComplete
<1>3. CASE EntriesOf(mounts, path) = {} \/ path = RootPath
  <2>1. UNCHANGED <<mounts, memory, balance>>
    BY <1>3 DEF cmd_umount, EntriesOf
  <2>2. QED
    BY <1>1, <2>1, QuietStep DEF FilesInv
<1>4. CASE EntriesOf(mounts, path) # {} /\ path # RootPath
  <2>1. /\ mounts \in Seq(Paths \cup {RootPath}) /\ balance \in [Paths -> Int]
        /\ Len(mounts) <= MAX_MOUNTS
        /\ \A p \in Paths : Cardinality(EntriesOf(mounts, p)) = balance[p]
    BY DEF FilesInv, MountsExact, EntriesOf
  <2>2. EntriesOf(mounts, path) \in SUBSET Nat
    BY <2>1 DEF EntriesOf
  <2>3. PICK i : i = CHOOSE k \in EntriesOf(mounts, path) :
                       \A j \in EntriesOf(mounts, path) : k <= j
    OBVIOUS
  <2>4. i \in EntriesOf(mounts, path)
    BY <1>4, <2>2, <2>3, LeastNat
  <2>5. PICK n \in Nat : n = Len(mounts) /\ i \in 1..n /\ mounts[i] = path /\ n <= MAX_MOUNTS
    BY <2>1, <2>4 DEF EntriesOf
  <2>6. /\ mounts' = unmount_shift(i) /\ balance' = [balance EXCEPT ![path] = @ - 1]
        /\ memory' = memory + 1
    BY <1>4, <2>3 DEF cmd_umount, EntriesOf
  <2>7. memory' \in Nat /\ balance' \in [Paths -> Int]
    BY <2>1, <2>6 DEF FilesInv
  <2>8. PICK u \in Seq(Paths \cup {RootPath}) : u = unmount_shift(i) /\ DOMAIN u = 1..(n - 1)
    BY <2>1, <2>5, ShiftIs
  <2>9. mounts' \in Seq(Paths \cup {RootPath}) /\ Len(mounts') <= MAX_MOUNTS
    <3>1. Len(u) = n - 1
      BY <2>5, <2>8
    <3>2. QED
      BY <2>5, <2>6, <2>8, <3>1, FilesAssumption
  <2>10. ASSUME NEW p \in Paths PROVE Cardinality(EntriesOf(mounts', p)) = balance'[p]
    <3>1. Cardinality(EntriesOf(unmount_shift(i), p)) =
            IF p = mounts[i] THEN Cardinality(EntriesOf(mounts, p)) - 1
            ELSE Cardinality(EntriesOf(mounts, p))
      BY <2>1, <2>5, EntriesShifted
    <3>2. balance'[p] = IF p = path THEN balance[p] - 1 ELSE balance[p]
      BY <2>1, <2>6
    <3>3. QED
      BY <2>1, <2>5, <2>6, <3>1, <3>2
  <2>11. MountsExact'
    BY <2>9, <2>10, Zenon DEF MountsExact, EntriesOf
  <2>12. QED
    BY <1>1, <1>2, <2>7, <2>9, <2>11, BeginKeeps DEF FilesInv
<1>5. QED
  BY <1>3, <1>4

\* The first disk is mounted on "/" or not at all.
LEMMA FilesInitInv ==
  ASSUME FilesInit
  PROVE  FilesInv
<1>1. ListingComplete
  BY DEF FilesInit, ListingComplete
<1>2. mounts = <<>> \/ mounts = <<RootPath>>
  BY DEF FilesInit
<1>3. /\ mounts \in Seq(Paths \cup {RootPath}) /\ Len(mounts) <= 1
      /\ DOMAIN mounts = 1..Len(mounts) /\ \A k \in DOMAIN mounts : k = 1 /\ mounts[k] = RootPath
  <2>1. CASE mounts = <<>>
    BY <2>1
  <2>2. CASE mounts = <<RootPath>>
    <3>1. PICK r \in Paths \cup {RootPath} : r = RootPath
      OBVIOUS
    <3>2. /\ <<r>> \in Seq(Paths \cup {RootPath}) /\ Len(<<r>>) = 1 /\ DOMAIN <<r>> = 1..1
          /\ <<r>>[1] = r
      OBVIOUS
    <3>3. \A k \in 1..1 : k = 1
      OBVIOUS
    <3>4. QED
      BY <2>2, <3>1, <3>2, <3>3
  <2>3. QED
    BY <1>2, <2>1, <2>2
<1>4. Len(mounts) <= MAX_MOUNTS
  BY <1>3, FilesAssumption
<1>5. balance = [p \in Paths |-> IF p \in Range(mounts) THEN 1 ELSE 0]
  BY DEF FilesInit
<1>6. balance \in [Paths -> Int]
  BY <1>5
<1>7. ASSUME NEW p \in Paths PROVE Cardinality(EntriesOf(mounts, p)) = balance[p]
  <2>1. CASE p \in Range(mounts)
    <3>1. EntriesOf(mounts, p) = {1}
      BY <1>3, <2>1 DEF Range, EntriesOf
    <3>2. QED
      BY <1>5, <2>1, <3>1, FS_Singleton
  <2>2. CASE p \notin Range(mounts)
    <3>1. EntriesOf(mounts, p) = {}
      BY <2>2 DEF Range, EntriesOf
    <3>2. QED
      BY <1>5, <2>2, <3>1, FS_EmptySet
  <2>3. QED
    BY <2>1, <2>2
<1>8. MountsExact
  BY <1>4, <1>7 DEF MountsExact, EntriesOf
<1>9. QED
  BY <1>1, <1>3, <1>6, <1>8, FilesAssumption DEF FilesInit, FilesInv

\* Every command, every later step of one and the timer keep the invariant.
LEMMA FilesInductive ==
  ASSUME FilesInv, [FilesNext]_fvars
  PROVE  FilesInv'
<1>1. CASE cd_build \/ cd_set \/ login_update \/ process_schedule
  BY <1>1, LaterStep
<1>2. ASSUME NEW path \in Paths, cmd_cd(path) PROVE FilesInv'
  <2>1. at' \in {"idle", "build", "set", "update"}
    BY <1>2 DEF cmd_cd, FilesInv
  <2>2. QED
    BY <1>2, <2>1, QuietStep DEF cmd_cd, NoOutput
<1>3. ASSUME NEW path \in Paths, cmd_umount(path) PROVE FilesInv'
  BY <1>3, UmountStep
<1>4. ASSUME NEW path \in Paths, cmd_cat(path) PROVE FilesInv'
  <2>1. Begin /\ UNCHANGED <<at, mounts, memory, balance>>
    BY <1>4 DEF cmd_cat
  <2>2. output' = <<>> \/ output'[1] # "ls"
    BY <1>4 DEF cmd_cat
  <2>3. QED
    BY <2>1, <2>2, QuietStep DEF FilesInv
<1>5. ASSUME NEW d, cmd_ls(d) PROVE FilesInv'
  BY <1>5, LsStep
<1>6. CASE cmd_pwd \/ cmd_whoami
  <2>1. Begin /\ UNCHANGED <<at, mounts, memory, balance>>
    BY <1>6 DEF cmd_pwd, cmd_whoami
  <2>2. output'[1] # "ls"
    BY <1>6 DEF cmd_pwd, cmd_whoami
  <2>3. QED
    BY <2>1, <2>2, QuietStep DEF FilesInv
<1>7. ASSUME NEW device \in Devices, NEW path \in Paths, cmd_mount(device, path) PROVE FilesInv'
  BY <1>7, MountStep
<1>8. ASSUME NEW user, NEW password, cmd_login(user, password) PROVE FilesInv'
  <2>1. at' \in {"idle", "build", "set", "update"}
    BY <1>8 DEF cmd_login, FilesInv
  <2>2. QED
    BY <1>8, <2>1, QuietStep DEF cmd_login, NoOutput
<1>9. CASE UNCHANGED fvars
  <2>1. ListingComplete' /\ MountsExact'
    BY <1>9 DEF fvars, FilesInv, ListingComplete, MountsExact
  <2>2. QED
    BY <1>9, <2>1 DEF fvars, FilesInv
<1>10. QED
  BY <1>1, <1>2, <1>3, <1>4, <1>5, <1>6, <1>7, <1>8, <1>9 DEF FilesNext

\* FilesInv holds at all times.
LEMMA FilesInvariant == FilesSpec => []FilesInv
<1>1. FilesInit => FilesInv
  BY FilesInitInv
<1>2. FilesInv /\ [FilesNext]_fvars => FilesInv'
  BY FilesInductive
<1>3. QED
  BY <1>1, <1>2, PTL DEF FilesSpec

\* ls shows every entry of its directory unless the heap has no block left, however many
\* listings there were before.
THEOREM FilesListingComplete == FilesSpec => []ListingComplete
<1>1. FilesInv => ListingComplete
  BY DEF FilesInv
<1>2. QED
  BY <1>1, FilesInvariant, PTL

\* The mount table holds each path as often as it was mounted and not unmounted since, and
\* never more than MAX_MOUNTS entries.
THEOREM FilesMountsExact == FilesSpec => []MountsExact
<1>1. FilesInv => MountsExact
  BY DEF FilesInv
<1>2. QED
  BY <1>1, FilesInvariant, PTL

\* Inside a command that no switch has interrupted, its caller is current.
LEMMA CallerIs ==
  ASSUME FilesInv, ~raced, at # "idle", caller # Nobody
  PROVE  /\ current_process = caller /\ caller \in FileProcs
         /\ DOMAIN pwd = FileProcs /\ DOMAIN uid = FileProcs
BY DEF FilesInv

\* In the middle of a command only its own steps move it on.
LEMMA WithinIs ==
  ASSUME FilesNext, at # "idle", at' # at
  PROVE  cd_build \/ cd_set \/ login_update
<1>1. ~Begin /\ ~process_schedule
  BY DEF Begin, process_schedule
<1>2. QED
  BY <1>1 DEF FilesNext, cmd_cd, cmd_umount, cmd_cat, cmd_ls, cmd_pwd, cmd_whoami, cmd_mount,
              cmd_login

\* A command that no switch of processes interrupts acts on the process that was current
\* when it began: its pwd with cd, its uid with login, and on no other process.
THEOREM FilesActsOnCaller == FilesSpec => ActsOnCaller
<1> DEFINE Acts == ~raced /\ at # "idle" /\ at' # at /\ caller # Nobody =>
       /\ \A p \in FileProcs \ {caller} : pwd'[p] = pwd[p] /\ uid'[p] = uid[p]
       /\ at = "build" => vfs_resolve_path(cmd') = vfs_resolve_path(Full(pwd[caller], cmd))
       /\ at = "set" => pwd'[caller] = cmd \/ Len(cmd) > PWD_MAX
       /\ at = "update" => uid'[caller] = current_uid
<1>1. ASSUME FilesInv, FilesNext PROVE Acts
  <2>1. SUFFICES ASSUME ~raced, at # "idle", at' # at, caller # Nobody
                 PROVE  Acts
    BY DEF Acts
  <2> HIDE DEF Acts
  <2>2. /\ current_process = caller /\ caller \in FileProcs
        /\ DOMAIN pwd = FileProcs /\ DOMAIN uid = FileProcs
    BY <1>1, <2>1, CallerIs
  <2>3. CASE cd_build
    <3>1. at = "build" /\ cmd' = Full(pwd[caller], cmd) /\ pwd' = pwd /\ uid' = uid
      BY <2>1, <2>2, <2>3 DEF cd_build, CurrentPwd
    <3>2. QED
      BY <3>1 DEF Acts
  <2>4. CASE cd_set
    <3>1. at = "set" /\ uid' = uid
      BY <2>4 DEF cd_set
    <3>2. (pwd' = pwd /\ Len(cmd) > PWD_MAX) \/ pwd' = [pwd EXCEPT ![caller] = cmd]
      BY <2>1, <2>2, <2>4 DEF cd_set
    <3>3. \A p \in FileProcs \ {caller} : pwd'[p] = pwd[p]
      BY <2>2, <3>2
    <3>4. pwd'[caller] = cmd \/ Len(cmd) > PWD_MAX
      BY <2>2, <3>2
    <3>5. QED
      BY <3>1, <3>3, <3>4 DEF Acts
  <2>5. CASE login_update
    <3>1. at = "update" /\ pwd' = pwd /\ uid' = [uid EXCEPT ![caller] = current_uid]
      BY <2>1, <2>2, <2>5 DEF login_update
    <3>2. uid'[caller] = current_uid /\ \A p \in FileProcs \ {caller} : uid'[p] = uid[p]
      BY <2>2, <3>1
    <3>3. QED
      BY <3>1, <3>2 DEF Acts
  <2>6. cd_build \/ cd_set \/ login_update
    BY <1>1, <2>1, WithinIs
  <2>7. QED
    BY <2>3, <2>4, <2>5, <2>6
<1>2. FilesInv /\ [FilesNext]_fvars => [Acts]_fvars
  BY <1>1
<1>3. QED
  BY <1>2, FilesInvariant, PTL DEF FilesSpec, ActsOnCaller

-----------------------------------------------------------------------------
\* The live entries before the n-th.
Before(n) == {j \in Live : j < n}

\* What the walks know when they come to an entry: the one that was asked for, if it lies
\* behind them, else none.
DirInv ==
  /\ dir \in Seq(Entries) /\ index \in Nat /\ offset \in 1..(Len(dir) + 1)
  /\ LookupsAgree
  /\ offset <= Len(dir) => \A j \in 1..(offset - 1) : dir[j].rec_len # 0
  /\ read.current = Cardinality(Before(offset))
  /\ \/ index >= read.current /\ read.result = NoEntry
     \/ \E k \in Live : k < offset /\ Cardinality(Before(k)) = index /\ read.result = dir[k]

\* The entries before a given one can be counted.
LEMMA BeforeFinite ==
  ASSUME dir \in Seq(Entries), NEW n \in Int
  PROVE  IsFiniteSet(Before(n)) /\ Cardinality(Before(n)) \in Nat
<1>1. Before(n) \subseteq 1..Len(dir)
  BY DEF Before, Live
<1>2. IsFiniteSet(1..Len(dir))
  BY FS_Interval
<1>3. QED
  BY <1>1, <1>2, FS_Subset, FS_CardinalityType

\* What the walks leave behind them at an entry.
LEMMA BeforeNext ==
  ASSUME DirInv, walk_entry
  PROVE  Before(offset') = IF dir[offset].inode = 0 THEN Before(offset)
                           ELSE Before(offset) \cup {offset}
<1>1. dir \in Seq(Entries) /\ offset \in 1..Len(dir) /\ offset \in DOMAIN dir
  BY DEF DirInv, walk_entry
<1>2. \A j \in 1..(offset - 1) : dir[j].rec_len # 0
  BY <1>1 DEF DirInv
<1>3. offset \in Live <=> dir[offset].inode # 0
  BY <1>1, <1>2 DEF Live
<1>4. \A j \in Live : j \in Int
  BY <1>1 DEF Live
<1>5. \A j \in Live : j < offset' <=> j < offset \/ j = offset
  <2>1. CASE dir[offset].rec_len = 0
    <3>1. offset' = Len(dir) + 1
      BY <2>1 DEF walk_entry
    <3>2. \A j \in Live : ~(j > offset)
      BY <1>1, <2>1 DEF Live
    <3>3. \A j \in Live : j < Len(dir) + 1
      BY <1>1 DEF Live
    <3>4. QED
      BY <1>1, <1>4, <3>1, <3>2, <3>3
  <2>2. CASE dir[offset].rec_len # 0
    <3>1. offset' = offset + 1
      BY <2>2 DEF walk_entry
    <3>2. QED
      BY <1>1, <1>4, <3>1
  <2>3. QED
    BY <2>1, <2>2
<1>6. QED
  BY <1>3, <1>5 DEF Before

\* One entry of the walks.
LEMMA WalkStep ==
  ASSUME DirInv, walk_entry
  PROVE  DirInv'
<1>1. /\ dir \in Seq(Entries) /\ index \in Nat /\ offset \in 1..Len(dir)
      /\ dir' = dir /\ index' = index /\ name' = name
      /\ ext2_read_dir(dir[offset]) /\ ext2_lookup(dir[offset])
      /\ offset' = IF dir[offset].rec_len = 0 THEN Len(dir) + 1 ELSE offset + 1
  BY DEF DirInv, walk_entry
<1>2. offset' \in 1..(Len(dir) + 1)
      /\ (offset' <= Len(dir) => \A j \in 1..(offset' - 1) : dir[j].rec_len # 0)
  <2>1. \A j \in 1..(offset - 1) : dir[j].rec_len # 0
    BY <1>1 DEF DirInv
  <2>2. CASE dir[offset].rec_len = 0
    BY <1>1, <2>2
  <2>3. CASE dir[offset].rec_len # 0
    <3>1. offset' = offset + 1 /\ \A j \in 1..((offset + 1) - 1) : j \in 1..(offset - 1) \/ j = offset
      BY <1>1, <2>3
    <3>2. QED
      BY <1>1, <2>1, <2>3, <3>1
  <2>4. QED
    BY <2>2, <2>3
<1>3. LookupsAgree'
  <2>1. LookupsAgree
    BY DEF DirInv
  <2>2. QED
    BY <1>1, <2>1 DEF LookupsAgree, ext2_read_dir, ext2_lookup, finddir_callback
<1>4. Live' = Live /\ \A n : Before(n)' = Before(n)
  BY <1>1 DEF Live, Before
<1>5. PICK b, c : b = Before(offset) /\ c = Cardinality(b)
  OBVIOUS
<1>6. IsFiniteSet(b) /\ c \in Nat /\ offset \notin b /\ read.current = c
  <2>1. offset \in Int
    BY <1>1
  <2>2. IsFiniteSet(b) /\ c \in Nat
    BY <1>1, <1>5, <2>1, BeforeFinite
  <2>3. offset \notin b
    BY <1>5, <2>1 DEF Before
  <2>4. read.current = c
    BY <1>5 DEF DirInv
  <2>5. QED
    BY <2>2, <2>3, <2>4
<1>7. \/ index >= c /\ read.result = NoEntry
      \/ \E k \in Live : k < offset /\ Cardinality(Before(k)) = index /\ read.result = dir[k]
  BY <1>6 DEF DirInv
<1>8. \A k \in Live : k \in Int /\ k <= Len(dir)
  BY <1>1 DEF Live
<1>9. \A k \in Live : k < offset => k < offset'
  BY <1>1, <1>8
<1>10. CASE dir[offset].inode = 0
  <2>1. read' = read
    BY <1>1, <1>10 DEF ext2_read_dir
  <2>2. read'.current = Cardinality(Before(offset'))
    <3>1. Before(offset') = b
      BY <1>5, <1>10, BeforeNext
    <3>2. QED
      BY <1>5, <1>6, <2>1, <3>1
  <2>3. \/ index >= c /\ read'.result = NoEntry
        \/ \E k \in Live : k < offset' /\ Cardinality(Before(k)) = index /\ read'.result = dir[k]
    BY <1>7, <1>9, <2>1
  <2>4. QED
    BY <1>1, <1>2, <1>3, <1>4, <1>6, <2>1, <2>2, <2>3 DEF DirInv
<1>11. CASE dir[offset].inode # 0
  <2>1. read' = [current |-> read.current + 1,
                 result |-> IF read.current = index THEN dir[offset] ELSE read.result]
    BY <1>1, <1>11 DEF ext2_read_dir, readdir_callback
  <2>2. /\ read'.current = c + 1
        /\ read'.result = IF c = index THEN dir[offset] ELSE read.result
    BY <1>6, <2>1
  <2>3. Cardinality(Before(offset')) = c + 1
    <3>1. Before(offset') = b \cup {offset}
      BY <1>5, <1>11, BeforeNext
    <3>2. QED
      BY <1>5, <1>6, <3>1, FS_AddElement, Zenon
  <2>4. offset \in Live /\ offset < offset'
    <3>1. offset \in Before(offset')
      BY <1>11, BeforeNext
    <3>2. QED
      BY <3>1 DEF Before
  <2>5. \/ index >= c + 1 /\ read'.result = NoEntry
        \/ \E k \in Live : k < offset' /\ Cardinality(Before(k)) = index /\ read'.result = dir[k]
    <3>1. CASE c = index
      BY <1>5, <2>2, <2>4, <3>1, Zenon
    <3>2. CASE c # index
      BY <1>1, <1>6, <1>7, <1>9, <2>2, <3>2
    <3>3. QED
      BY <3>1, <3>2
  <2>6. QED
    BY <1>1, <1>2, <1>3, <1>4, <2>2, <2>3, <2>5 DEF DirInv
<1>12. QED
  BY <1>10, <1>11

\* The walks keep their invariant.
LEMMA DirInductive ==
  /\ DirInit => DirInv
  /\ DirInv /\ [DirNext]_rvars => DirInv'
<1>1. ASSUME DirInit PROVE DirInv
  <2>1. PICK n \in 0..MaxEntries : dir \in [1..n -> Entries]
    BY <1>1 DEF DirInit
  <2>2. n \in Nat /\ dir \in Seq(Entries) /\ Len(dir) = n
    BY <2>1, DirAssumption
  <2>3. index \in Nat
    BY <1>1, DirAssumption DEF DirInit
  <2>4. Before(1) = {}
    BY <2>2 DEF Before, Live
  <2>5. Cardinality({}) = 0
    BY FS_EmptySet
  <2>6. read.current = 0 /\ read.result = NoEntry /\ offset = 1 /\ LookupsAgree
    BY <1>1 DEF DirInit, LookupsAgree
  <2>7. read.current = Cardinality(Before(offset))
    BY <2>4, <2>5, <2>6
  <2>8. offset \in 1..(Len(dir) + 1) /\ \A j \in 1..(offset - 1) : dir[j].rec_len # 0
    BY <2>2, <2>6
  <2>9. index >= read.current
    BY <2>3, <2>6
  <2>10. QED
    BY <2>2, <2>3, <2>6, <2>7, <2>8, <2>9 DEF DirInv
<1>2. ASSUME DirInv, UNCHANGED rvars PROVE DirInv'
  BY <1>2, Zenon DEF DirInv, rvars, LookupsAgree, Before, Live
<1>3. QED
  BY <1>1, <1>2, WalkStep DEF DirNext

\* ext2_lookup and vfs_ext2_finddir agree at every entry of every directory.
THEOREM DirLookupsAgree == DirSpec => []LookupsAgree
<1>1. DirInv => LookupsAgree
  BY DEF DirInv
<1>2. QED
  BY <1>1, DirInductive, PTL DEF DirSpec

\* vfs_ext2_readdir, counted up from 0, enumerates the live entries of every directory.
THEOREM DirReaddirEnumerates == DirSpec => []ReaddirEnumerates
<1>1. ASSUME DirInv, offset > Len(dir)
      PROVE  \/ index >= Cardinality(Live) /\ read.result = NoEntry
             \/ \E k \in Live :
                  Cardinality({j \in Live : j < k}) = index /\ read.result = dir[k]
  <2>1. dir \in Seq(Entries) /\ offset = Len(dir) + 1
    BY <1>1 DEF DirInv
  <2>2. Before(offset) = Live
    BY <2>1 DEF Before, Live
  <2>3. QED
    BY <1>1, <2>2, Zenon DEF DirInv, Before
<1>2. DirInv => ReaddirEnumerates
  BY <1>1 DEF ReaddirEnumerates
<1>3. QED
  BY <1>2, DirInductive, PTL DEF DirSpec
=============================================================================
