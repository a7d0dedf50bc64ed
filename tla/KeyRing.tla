------------------------------ MODULE KeyRing -------------------------------
(***************************************************************************)
(* The ring of src/keyboard.c between IRQ1, which puts, and the shell,     *)
(* which gets.  The interrupt handler runs to its end between two          *)
(* instructions of the shell; buffer_get reads the slot before it moves    *)
(* the read position, and only moves that, so each call is one step.       *)
(***************************************************************************)
EXTENDS Integers, Sequences

CONSTANTS
  KEYBOARD_BUFFER_SIZE,   \* 256 in the kernel
  Codes                   \* what may be put: characters and KEY_F1...

ASSUME KeyRingAssumption == KEYBOARD_BUFFER_SIZE \in Nat \ {0}

VARIABLES
  keyboard_buffer, buffer_read_pos, buffer_write_pos,
  dropped                 \* keys buffer_put has refused

ringvars == <<keyboard_buffer, buffer_read_pos, buffer_write_pos, dropped>>

Positions == 0..(KEYBOARD_BUFFER_SIZE - 1)

\* keyboard_init
RingInit ==
  /\ keyboard_buffer \in [Positions -> Codes]
  /\ buffer_read_pos = 0
  /\ buffer_write_pos = 0
  /\ dropped = 0

After(pos) == (pos + 1) % KEYBOARD_BUFFER_SIZE

buffer_is_empty == buffer_read_pos = buffer_write_pos

\* Mutated form: the slot that tells full from empty is used as well.
buffer_never_full == FALSE

buffer_is_full == After(buffer_write_pos) = buffer_read_pos

buffer_put(c) ==
  IF buffer_is_full
  THEN dropped' = dropped + 1 /\ UNCHANGED <<keyboard_buffer, buffer_read_pos, buffer_write_pos>>
  ELSE /\ keyboard_buffer' = [keyboard_buffer EXCEPT ![buffer_write_pos] = c]
       /\ buffer_write_pos' = After(buffer_write_pos)
       /\ UNCHANGED <<buffer_read_pos, dropped>>

\* keyboard_getchar of a ring that is not empty.
buffer_get ==
  /\ ~buffer_is_empty
  /\ buffer_read_pos' = After(buffer_read_pos)
  /\ UNCHANGED <<keyboard_buffer, buffer_write_pos, dropped>>

RingNext == (\E c \in Codes : buffer_put(c)) \/ buffer_get

RingSpec == RingInit /\ [][RingNext]_ringvars

-----------------------------------------------------------------------------
RingTypeOK ==
  /\ keyboard_buffer \in [Positions -> Codes]
  /\ buffer_read_pos \in Positions
  /\ buffer_write_pos \in Positions
  /\ dropped \in Nat

\* The keys that wait, oldest first.
Waiting ==
  LET n == IF buffer_write_pos >= buffer_read_pos THEN buffer_write_pos - buffer_read_pos
           ELSE buffer_write_pos - buffer_read_pos + KEYBOARD_BUFFER_SIZE
  IN  [k \in 1..n |->
         LET at == buffer_read_pos + k - 1
         IN  keyboard_buffer[IF at < KEYBOARD_BUFFER_SIZE THEN at
                             ELSE at - KEYBOARD_BUFFER_SIZE]]

Queue == INSTANCE KeyQueue WITH CAPACITY <- KEYBOARD_BUFFER_SIZE - 1, queue <- Waiting

\* The ring is a queue of one key less than its size: no key overtakes another,
\* none is overwritten before the shell has read it, and one is dropped only when
\* the queue is full.
RefinesQueue == Queue!Spec
=============================================================================
