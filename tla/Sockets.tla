------------------------------ MODULE Sockets -------------------------------
(***************************************************************************)
(* The sockets of src/socket.c.  A call is one step: it comes through the  *)
(* interrupt gate of int 0x80.  A slot is named by its index, an address   *)
(* by its port (0: not bound), and the rings of pending connections and    *)
(* the linked messages are sequences.                                      *)
(***************************************************************************)
EXTENDS Integers, Sequences

CONSTANTS
  MAX_SOCKETS,          \* 256 in the kernel
  BACKLOG,              \* accept_queue[16]
  Ports,                \* ports of the addresses that are passed, 0 included
  Data                  \* messages

ASSUME SocketsAssumption == MAX_SOCKETS \in Nat

VARIABLES socket_table, next_sockfd, result

sockvars == <<socket_table, next_sockfd, result>>

Slots == 1..MAX_SOCKETS
None == 0
Types == {"STREAM", "DGRAM"}

\* A slot after memset, with fd -1.
Unused == [fd |-> -1, state |-> "CLOSED", type |-> "STREAM", owner |-> 0, local |-> 0,
           remote |-> 0, pending |-> <<>>, msgs |-> <<>>, peer |-> None]

socket_init ==
  /\ socket_table = [i \in Slots |-> Unused]
  /\ next_sockfd = 1
  /\ result = 0

First(S) == IF S = {} THEN None ELSE CHOOSE i \in S : \A j \in S : i <= j

socket_alloc ==
  First({i \in Slots : socket_table[i].state = "CLOSED" /\ socket_table[i].fd = -1})

socket_get_by_fd(fd) ==
  First({i \in Slots : socket_table[i].fd = fd /\ socket_table[i].state # "CLOSED"})

socket_find_by_address(port) ==
  First({i \in Slots : socket_table[i].state = "LISTENING" /\ socket_table[i].local = port})

Fail == result' = -1 /\ UNCHANGED <<socket_table, next_sockfd>>
Succeed(value, table) == result' = value /\ socket_table' = table /\ UNCHANGED next_sockfd

\* Mutated form: a new socket is not CLOSED.
socket_create_open(pid, family, type) ==
  LET s == socket_alloc IN
  IF family # "UNIX" \/ type \notin Types \/ s = None THEN Fail
  ELSE /\ socket_table' = [socket_table EXCEPT ![s] =
                             [Unused EXCEPT !.fd = next_sockfd, !.state = "CONNECTING",
                                            !.type = type, !.owner = pid]]
       /\ next_sockfd' = next_sockfd + 1
       /\ result' = next_sockfd

socket_create(pid, family, type) ==
  LET s == socket_alloc IN
  IF family # "UNIX" \/ type \notin Types \/ s = None THEN Fail
  ELSE /\ socket_table' = [socket_table EXCEPT ![s] =
                             [Unused EXCEPT !.fd = next_sockfd, !.type = type, !.owner = pid]]
       /\ next_sockfd' = next_sockfd + 1
       /\ result' = next_sockfd

socket_bind(fd, port) ==
  LET s == socket_get_by_fd(fd) IN
  IF s = None \/ socket_table[s].local # 0 \/ socket_find_by_address(port) # None THEN Fail
  ELSE Succeed(0, [socket_table EXCEPT ![s].local = port])

socket_listen(fd) ==
  LET s == socket_get_by_fd(fd) IN
  IF s = None \/ socket_table[s].type # "STREAM" \/ socket_table[s].local = 0 THEN Fail
  ELSE Succeed(0, [socket_table EXCEPT ![s].state = "LISTENING", ![s].pending = <<>>])

socket_accept(fd) ==
  LET s == socket_get_by_fd(fd) IN
  IF s = None \/ socket_table[s].state # "LISTENING" \/ socket_table[s].pending = <<>> THEN Fail
  ELSE Succeed(socket_table[Head(socket_table[s].pending)].fd,
               [socket_table EXCEPT ![s].pending = Tail(@)])

\* A server-side socket is made and linked; it is queued if the queue has room.
socket_connect(fd, port) ==
  LET s == socket_get_by_fd(fd)
      l == socket_find_by_address(port)
      n == socket_alloc
  IN
  IF s = None \/ l = None \/ n = None THEN Fail
  ELSE /\ socket_table' =
            [socket_table EXCEPT
               ![n] = [socket_table[l] EXCEPT !.fd = next_sockfd, !.state = "CONNECTED",
                                              !.remote = 0, !.peer = s, !.pending = <<>>,
                                              !.msgs = <<>>],
               ![s].peer = n, ![s].state = "CONNECTED", ![s].remote = port,
               ![l].pending = IF Len(@) < BACKLOG THEN Append(@, n) ELSE @]
       /\ next_sockfd' = next_sockfd + 1
       /\ result' = 0

\* room: whether kmalloc has room for the message.
socket_send(fd, msg, room) ==
  LET s == socket_get_by_fd(fd) IN
  IF s = None \/ socket_table[s].state # "CONNECTED" \/ socket_table[s].peer = None \/ ~room
  THEN Fail
  ELSE Succeed(1, [socket_table EXCEPT ![socket_table[s].peer].msgs = Append(@, msg)])

socket_recv(fd) ==
  LET s == socket_get_by_fd(fd) IN
  IF s = None THEN Fail
  ELSE IF socket_table[s].msgs = <<>> THEN Succeed(0, socket_table)
  ELSE Succeed(1, [socket_table EXCEPT ![s].msgs = Tail(@)])

\* The peer is closed but keeps its fd.
socket_close(fd) ==
  LET s == socket_get_by_fd(fd)
      p == socket_table[s].peer
  IN
  IF s = None THEN Fail
  ELSE IF p = None THEN Succeed(0, [socket_table EXCEPT ![s] = Unused])
  ELSE Succeed(0, [socket_table EXCEPT ![p].peer = None, ![p].state = "CLOSED", ![s] = Unused])

-----------------------------------------------------------------------------
\* No socket ever leaves CLOSED: socket_create makes it so, and every call that could
\* open it looks it up among the sockets that are not.
NeverOpened == \A i \in Slots : socket_table[i].state = "CLOSED"

\* So slots are used once: the k-th socket has slot k and fd k for ever, and when
\* MAX_SOCKETS of them exist no further call makes one.
SlotsUsedOnce ==
  /\ next_sockfd - 1 \in 0..MAX_SOCKETS
  /\ \A i \in Slots : socket_table[i].fd = IF i < next_sockfd THEN i ELSE -1
=============================================================================
