--------------------------- MODULE ProcessSignals ---------------------------
(***************************************************************************)
(* The signal queues of processes (process_signal_send and                 *)
(* process_signal_process in src/process.c): linked lists of entries from  *)
(* kmalloc, filled by sys_kill and cmd_psignal, emptied by process_switch  *)
(* in the timer interrupt and by cmd_psignal.                              *)
(*                                                                         *)
(* A signal is named by the order in which it was sent.  entry keeps what  *)
(* the memory of an entry holds, also after kfree.  Which READY process    *)
(* the timer switches to is module Process's business: any other one here. *)
(***************************************************************************)
EXTENDS Integers, Sequences, FiniteSets

CONSTANTS
  Procs,        \* processes
  First,        \* the process that runs at the start, the shell's
  Second,       \* and one that is READY
  MaxSignals    \* bound: signals sent in one behaviour

ASSUME SignalsAssumption ==
  /\ First \in Procs /\ Second \in Procs /\ First # Second
  /\ MaxSignals \in Nat

NULL == 0
Entries == 1..MaxSignals
NoProc == "none"

VARIABLES
  used,           \* processes that exist
  current,        \* current_process
  signal_queue,   \* process -> first entry of its queue
  entry,          \* what an entry's memory holds
  allocated,      \* entries not given back to kmalloc
  sent,           \* the target of the i-th signal sent
  delivered,      \* signals handled so far, with the process, in order
  call,           \* where cmd_psignal is
  cpu             \* "up", or stopped: "panic", "hang"

vars == <<used, current, signal_queue, entry, allocated, sent, delivered, call, cpu>>

Idle == [at |-> "idle", proc |-> NoProc, e |-> NULL]

Init ==
  /\ used = {First, Second}
  /\ current = First
  /\ signal_queue = [p \in Procs |-> NULL]
  /\ entry = [e \in Entries |-> [signal |-> 0, next |-> NULL]]
  /\ allocated = {}
  /\ sent = <<>>
  /\ delivered = <<>>
  /\ call = Idle
  /\ cpu = "up"

-----------------------------------------------------------------------------
\* Mutated form: the new entry does not link to the old head.
process_signal_send_alone(p) ==
  /\ Len(sent) < MaxSignals
  /\ sent' = Append(sent, p)
  /\ \E e \in Entries \ allocated :
       /\ allocated' = allocated \cup {e}
       /\ entry' = [entry EXCEPT ![e] = [signal |-> Len(sent) + 1, next |-> NULL]]
       /\ signal_queue' = [signal_queue EXCEPT ![p] = e]

\* process_signal_send to p: a new entry at the head of the queue.  When kmalloc
\* fails nothing changes.
process_signal_send(p) ==
  /\ Len(sent) < MaxSignals
  /\ sent' = Append(sent, p)
  /\ \E e \in Entries \ allocated :
       /\ allocated' = allocated \cup {e}
       /\ entry' = [entry EXCEPT ![e] = [signal |-> Len(sent) + 1,
                                         next |-> signal_queue[p]]]
       /\ signal_queue' = [signal_queue EXCEPT ![p] = e]

\* The entries of a queue from its head; NULL beyond its end.
EntryAt(head) ==
  LET at[k \in 0..MaxSignals] ==
        IF k = 0 THEN head ELSE IF at[k - 1] = NULL THEN NULL ELSE entry[at[k - 1]].next
  IN  at

Queue(p) ==
  LET at == EntryAt(signal_queue[p])
      n  == Cardinality({k \in 0..MaxSignals : at[k] # NULL})
  IN  [k \in 1..n |-> at[k - 1]]

Queued(p) == {Queue(p)[k] : k \in 1..Len(Queue(p))}

\* Mutated form: the queue is walked and not emptied.
DrainQueueKeeps(p) ==
  /\ delivered' = delivered \o
       [k \in 1..Len(Queue(p)) |-> <<p, entry[Queue(p)[k]].signal>>]
  /\ Len(delivered) <= MaxSignals
  /\ UNCHANGED <<signal_queue, allocated, cpu>>

\* process_signal_process(p) in one step, as the timer interrupt runs it: every
\* entry is taken off, given to kfree and handled.  kfree of an entry that is
\* already free warns or panics; a list without end is walked for ever.
DrainQueue(p) ==
  IF Len(Queue(p)) > MaxSignals
  THEN /\ cpu' = "hang"
       /\ UNCHANGED <<signal_queue, allocated, delivered>>
  ELSE /\ signal_queue' = [signal_queue EXCEPT ![p] = NULL]
       /\ allocated' = allocated \ Queued(p)
       /\ delivered' = delivered \o
            [k \in 1..Len(Queue(p)) |-> <<p, entry[Queue(p)[k]].signal>>]
       /\ cpu' \in IF Queued(p) \subseteq allocated THEN {"up"} ELSE {"up", "panic"}

\* The timer interrupt switches to p and handles its signals.
process_switch(p) ==
  /\ cpu = "up"
  /\ p \in used /\ p # current
  /\ current' = p
  /\ DrainQueue(p)
  /\ UNCHANGED <<used, entry, sent, call>>

\* A program sends a signal to a process, with interrupts off.
sys_kill(p) ==
  /\ cpu = "up" /\ call.at = "idle"
  /\ p \in used
  /\ process_signal_send(p)
  /\ UNCHANGED <<used, current, delivered, call, cpu>>

-----------------------------------------------------------------------------
\* cmd_psignal makes a process and sends it one signal.
cmd_psignal(p) ==
  /\ cpu = "up" /\ call.at = "idle"
  /\ p \notin used
  /\ used' = used \cup {p}
  /\ process_signal_send(p)
  /\ call' = [at |-> "loop", proc |-> p, e |-> NULL]
  /\ UNCHANGED <<current, delivered, cpu>>

\* process_signal_process as cmd_psignal calls it, with interrupts on: the test
\* of the loop and the read of the first entry ...
psignal_first ==
  /\ cpu = "up" /\ call.at = "loop"
  /\ call' = IF signal_queue[call.proc] = NULL THEN Idle
             ELSE [call EXCEPT !.at = "unlink", !.e = signal_queue[call.proc]]
  /\ UNCHANGED <<used, current, signal_queue, entry, allocated, sent, delivered, cpu>>

\* ... the entry taken off the queue ...
psignal_unlink ==
  /\ cpu = "up" /\ call.at = "unlink"
  /\ signal_queue' = [signal_queue EXCEPT ![call.proc] = entry[call.e].next]
  /\ call' = [call EXCEPT !.at = "handle"]
  /\ UNCHANGED <<used, current, entry, allocated, sent, delivered, cpu>>

\* ... given back and handled.
psignal_handle ==
  /\ cpu = "up" /\ call.at = "handle"
  /\ allocated' = allocated \ {call.e}
  /\ delivered' = Append(delivered, <<call.proc, entry[call.e].signal>>)
  /\ call' = [call EXCEPT !.at = "loop", !.e = NULL]
  /\ cpu' \in IF call.e \in allocated THEN {"up"} ELSE {"up", "panic"}
  /\ UNCHANGED <<used, current, signal_queue, entry, sent>>

-----------------------------------------------------------------------------
\* Signals from system calls only: every access to a queue has interrupts off.
Next == \E p \in Procs : sys_kill(p) \/ process_switch(p)

\* With cmd_psignal.
NextShell ==
  \/ Next
  \/ \E p \in Procs : cmd_psignal(p)
  \/ psignal_first \/ psignal_unlink \/ psignal_handle

Spec == Init /\ [][Next]_vars

\* The round robin of process_schedule comes to every process.
FairSpec == Spec /\ \A p \in Procs : WF_vars(process_switch(p))

ShellSpec == Init /\ [][NextShell]_vars

-----------------------------------------------------------------------------
\* process_signal_process handles every signal once, in the process it was
\* sent to ("Traite tous les signaux en attente", KFS5_IMPLEMENTATION.md:48).
HandledOnce ==
  /\ \A k \in 1..Len(delivered) : delivered[k][1] = sent[delivered[k][2]]
  /\ \A j, k \in 1..Len(delivered) : delivered[j][2] = delivered[k][2] => j = k

\* The entry the thread has in hand, in cmd_psignal.
Held == IF call.at \in {"unlink", "handle"} THEN {call.e} ELSE {}

\* Nothing is lost and nothing leaks: a signal is handled, on its target's
\* queue or in the thread's hand, the queues share no entry, and apart from the
\* entry in hand the allocated entries are those on a queue.
QueuesExact ==
  /\ allocated \ Held = UNION {Queued(p) : p \in used} \ Held
  /\ \A p, q \in used : p # q => Queued(p) \cap Queued(q) = {}
  /\ \A i \in 1..Len(sent) :
       \/ \E k \in 1..Len(delivered) : delivered[k][2] = i
       \/ \E e \in Queued(sent[i]) \cup Held : entry[e].signal = i

\* A signal that was sent is handled, while the timer goes on switching.
EventuallyHandled ==
  \A i \in 1..MaxSignals :
    Len(sent) >= i ~> \E k \in 1..Len(delivered) : delivered[k][2] = i
=============================================================================
