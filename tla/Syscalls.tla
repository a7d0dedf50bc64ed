------------------------------ MODULE Syscalls ------------------------------
(***************************************************************************)
(* int 0x80, src/syscall.c: the table and the dispatcher, and the system   *)
(* calls that are not other modules' subject.  fork, wait and kill are in  *)
(* Process and ProcessSignals, mmap and brk in AddressSpace; here they     *)
(* only return.                                                            *)
(***************************************************************************)
EXTENDS Sockets, TLC

CONSTANTS
  MAX_SYSCALLS,         \* 256 in the kernel
  SyscallNumbers,       \* what callers put into EAX
  CurrentPids           \* current_process: a pid, or 0 for NULL

VARIABLES syscall_handlers

trapvars == <<socket_table, next_sockfd, result, syscall_handlers>>

Default ==
  0 :> "exit" @@ 1 :> "write" @@ 2 :> "read" @@ 8 :> "kill" @@ 9 :> "fork" @@ 10 :> "wait" @@
  11 :> "getuid" @@ 12 :> "mmap" @@ 13 :> "brk" @@ 14 :> "socket" @@ 15 :> "bind" @@
  16 :> "listen" @@ 17 :> "accept" @@ 18 :> "connect" @@ 19 :> "send" @@ 20 :> "recv"

syscall_init ==
  syscall_handlers = [n \in 0..(MAX_SYSCALLS - 1) |->
                        IF n \in DOMAIN Default THEN Default[n] ELSE "NULL"]

\* What is written, if anything, is the screen's business.
sys_write(fd, count) ==
  result' = (IF fd = 1 /\ count > 0 THEN count ELSE -1) /\ UNCHANGED <<socket_table, next_sockfd>>

sys_exit == result' = 0 /\ UNCHANGED <<socket_table, next_sockfd>>

sys_socket(pid, family, type) == IF pid = 0 THEN Fail ELSE socket_create(pid, family, type)

\* Calls whose effect another module has: some result.
Elsewhere == result' \in {-1, 0, 1} /\ UNCHANGED <<socket_table, next_sockfd>>

Fds == -1..(MAX_SOCKETS + 1)

syscall_dispatcher(num) ==
  LET call == syscall_handlers[num] IN
  /\ IF num >= MAX_SYSCALLS \/ call = "NULL" THEN Fail
     ELSE \/ call = "write" /\ \E fd \in {0, 1}, count \in {0, 1} : sys_write(fd, count)
          \/ call = "read" /\ Fail
          \/ call = "exit" /\ sys_exit
          \/ /\ call = "socket"
             /\ \E pid \in CurrentPids, family \in {"UNIX", "INET"}, type \in Types \union {"RAW"} :
                  sys_socket(pid, family, type)
          \/ call = "bind" /\ \E fd \in Fds, port \in Ports : socket_bind(fd, port)
          \/ call = "listen" /\ \E fd \in Fds : socket_listen(fd)
          \/ call = "accept" /\ \E fd \in Fds : socket_accept(fd)
          \/ call = "connect" /\ \E fd \in Fds, port \in Ports : socket_connect(fd, port)
          \/ call = "send" /\ \E fd \in Fds, msg \in Data, room \in BOOLEAN : socket_send(fd, msg, room)
          \/ call = "recv" /\ \E fd \in Fds : socket_recv(fd)
          \/ call \in {"kill", "fork", "wait", "getuid", "mmap", "brk"} /\ Elsewhere
  /\ UNCHANGED syscall_handlers

\* sys_socket_close has no number; kernel code may call it.
sys_socket_close(fd) == socket_close(fd) /\ UNCHANGED syscall_handlers

TrapsInit == socket_init /\ syscall_init

TrapsNext ==
  \/ \E num \in SyscallNumbers : syscall_dispatcher(num)
  \/ \E fd \in Fds : sys_socket_close(fd)

TrapsSpec == TrapsInit /\ [][TrapsNext]_trapvars
=============================================================================
