---------------------------- MODULE KernelSignals ----------------------------
(***************************************************************************)
(* The kernel's own signals, src/signal.c: a table of actions and a word   *)
(* of pending bits, walked from low to high.  A handler may raise signals  *)
(* itself while the walk goes on.                                          *)
(***************************************************************************)
EXTENDS Integers

CONSTANTS
  MAX_SIGNALS,          \* 32 in the kernel
  SIGKILL, SIGSTOP      \* 9 and 19

VARIABLES
  pending_signals,      \* the bits that are set
  signal_actions,       \* handler and registered flag of each signal
  walk,                 \* next signal of signal_process_pending, 0 outside it
  owed                  \* history: raised, and not handed to signal_send since

sigvars == <<pending_signals, signal_actions, walk, owed>>

Numbers == -1..MAX_SIGNALS       \* what callers pass
Handlers == {"SIG_DFL", "SIG_IGN", "handler"}

signal_init ==
  /\ pending_signals = {}
  /\ signal_actions = [s \in 0..(MAX_SIGNALS - 1) |-> [handler |-> "SIG_DFL", registered |-> FALSE]]
  /\ walk = 0
  /\ owed = {}

signal_valid(s) == s > 0 /\ s < MAX_SIGNALS

signal_register(s, h) ==
  /\ walk = 0
  /\ signal_valid(s) /\ s \notin {SIGKILL, SIGSTOP}
  /\ signal_actions' = [signal_actions EXCEPT ![s] = [handler |-> h, registered |-> TRUE]]
  /\ UNCHANGED <<pending_signals, walk, owed>>

signal_unregister(s) ==
  /\ walk = 0
  /\ signal_valid(s)
  /\ signal_actions' = [signal_actions EXCEPT ![s] = [handler |-> "SIG_DFL", registered |-> FALSE]]
  /\ UNCHANGED <<pending_signals, walk, owed>>

signal_raise(s) ==
  /\ walk = 0
  /\ signal_valid(s)
  /\ pending_signals' = pending_signals \union {s}
  /\ owed' = owed \union {s}
  /\ UNCHANGED <<signal_actions, walk>>

\* signal_send calls the handler, if one is registered; it may raise a signal.
Called(s) == signal_actions[s].registered /\ signal_actions[s].handler = "handler"
Raised(s) == {{}} \union {{r} : r \in {n \in Numbers : signal_valid(n) /\ Called(s)}}
signal_send(s) ==
  /\ walk = 0
  /\ signal_valid(s)
  /\ \E R \in Raised(s) :
       pending_signals' = pending_signals \union R /\ owed' = owed \union R
  /\ UNCHANGED <<signal_actions, walk>>

\* Mutated form: the bit is cleared when the handler has returned.
walk_clears_last ==
  /\ walk > 0
  /\ walk' = (walk + 1) % MAX_SIGNALS
  /\ IF walk \in pending_signals
     THEN \E R \in Raised(walk) :
               pending_signals' = (pending_signals \union R) \ {walk} /\ owed' = (owed \ {walk}) \union R
     ELSE UNCHANGED <<pending_signals, owed>>
  /\ UNCHANGED signal_actions

\* One round of the loop: clear the bit, then signal_send.
signal_walk ==
  /\ walk > 0
  /\ walk' = (walk + 1) % MAX_SIGNALS
  /\ IF walk \in pending_signals
     THEN \E R \in Raised(walk) :
               pending_signals' = (pending_signals \ {walk}) \union R /\ owed' = (owed \ {walk}) \union R
     ELSE UNCHANGED <<pending_signals, owed>>
  /\ UNCHANGED signal_actions

signal_process_pending ==
  /\ walk = 0 /\ pending_signals # {}
  /\ walk' = 1
  /\ UNCHANGED <<pending_signals, signal_actions, owed>>

SignalsNext ==
  \/ \E s \in Numbers, h \in Handlers : signal_register(s, h)
  \/ \E s \in Numbers : signal_unregister(s) \/ signal_raise(s) \/ signal_send(s)
  \/ signal_process_pending
  \/ signal_walk

SignalsSpec == signal_init /\ [][SignalsNext]_sigvars

-----------------------------------------------------------------------------
\* A signal that was raised stays pending until it is handed on, also one that its own
\* handler raises again in the middle of the walk.
RaiseNotLost == pending_signals = owed
=============================================================================
