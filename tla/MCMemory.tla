------------------------------ MODULE MCMemory ------------------------------
(***************************************************************************)
(* Module Memory for TLC.  Blocks are a header of one byte and a page of   *)
(* four; one of them happens to be page aligned.                           *)
(***************************************************************************)
EXTENDS Memory, TLC

CONSTANTS shell, p2, p3, Places

AllProcs == {shell, p2, p3}
Blocks == {k * (PAGE_SIZE + 1) + 1 : k \in 1..Places}
OthersAlike == Permutations({p2, p3})
=============================================================================
