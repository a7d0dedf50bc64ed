------------------------------- MODULE Memory -------------------------------
(***************************************************************************)
(* The virtual allocator and the processes' page tables on one kernel      *)
(* heap.  cmd_memtest, the only caller of vmalloc, runs between the other  *)
(* commands of the shell's thread.                                         *)
(***************************************************************************)
EXTENDS Vmalloc, AddressSpace

CONSTANT
  MaxMixed       \* bound: vmallocs made while there is more than the shell's process

vars == <<vvars, asvars, allocated, cpu>>

Init == vmalloc_init /\ AddressSpaceInit /\ cpu = "up"

Next ==
  \/ /\ InSyscall /\ (used = {Shell} \/ vcalls < MaxMixed)
     /\ VNext
     /\ UNCHANGED asvars
  \/ AddressSpaceNext /\ UNCHANGED vvars

Spec == Init /\ [][Next]_vars
=============================================================================
