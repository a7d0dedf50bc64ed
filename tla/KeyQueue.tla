------------------------------ MODULE KeyQueue ------------------------------
(***************************************************************************)
(* What the keyboard driver promises the shell: keys come out in the order *)
(* in which they went in, and a key is dropped only when CAPACITY keys are *)
(* waiting.                                                                *)
(***************************************************************************)
EXTENDS Integers, Sequences

CONSTANTS CAPACITY, Codes

VARIABLES queue, dropped

Init == queue = <<>> /\ dropped = 0

Put(c) == Len(queue) < CAPACITY /\ queue' = Append(queue, c) /\ UNCHANGED dropped
Drop == Len(queue) = CAPACITY /\ dropped' = dropped + 1 /\ UNCHANGED queue
Get == queue # <<>> /\ queue' = Tail(queue) /\ UNCHANGED dropped

Next == (\E c \in Codes : Put(c)) \/ Drop \/ Get

Spec == Init /\ [][Next]_<<queue, dropped>>
=============================================================================
