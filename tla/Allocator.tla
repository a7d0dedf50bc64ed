----------------------------- MODULE Allocator ------------------------------
(***************************************************************************)
(* What an allocator promises its callers: the pieces of memory it has     *)
(* handed out and not got back lie in the arena and never overlap.  How    *)
(* free memory is kept, and which piece a request gets, is left open.      *)
(***************************************************************************)
EXTENDS Integers

CONSTANTS ARENA_START, ARENA_END, Sizes

VARIABLE live    \* pieces handed out: records of a pointer and a size

Disjoint(a, c) == a.ptr + a.size <= c.ptr \/ c.ptr + c.size <= a.ptr

Init == live = {}

Give(a) ==
  /\ ARENA_START <= a.ptr
  /\ a.ptr + a.size <= ARENA_END
  /\ \A c \in live : Disjoint(a, c)
  /\ live' = live \cup {a}

TakeBack(a) == live' = live \ {a}

Next ==
  \/ \E p \in ARENA_START..ARENA_END, n \in Sizes : Give([ptr |-> p, size |-> n])
  \/ \E a \in live : TakeBack(a)

Spec == Init /\ [][Next]_live
=============================================================================
