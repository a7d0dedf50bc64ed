------------------------------ MODULE MCDevices ------------------------------
(***************************************************************************)
(* The parts of the kernel that share no state, for TLC: in a behaviour    *)
(* one part moves and the others rest in an initial state, so the states   *)
(* of the parts add up instead of multiplying.                             *)
(***************************************************************************)
EXTENDS HeapInterrupts, Screens, Syscalls, KernelSignals, MCFiles, Ide, Ext2Data, Ext2Dir,
        Ext2Inodes

SomeMessages == {<<"x", "newline">>}

Superblock(first, blocks, inodes, size, block_size) ==
  [first_data_block |-> first, blocks_count |-> blocks, blocks_per_group |-> 8,
   inodes_per_group |-> inodes, inode_size |-> size, block_size |-> block_size]
SomeSuperblocks ==
  {Superblock(1, 8, 4, 1, 2), Superblock(1, 17, 3, 1, 2), Superblock(0, 15, 3, 2, 4),
   Superblock(0, 8, 5, 2, 4)}

VARIABLE part

vars == <<part, hvars, svars, trapvars, sigvars, fvars, ivars, dvars, rvars, nvars>>

Init ==
  /\ part \in {"heap", "screens", "traps", "signals", "files", "ide", "data", "directory",
               "inodes"}
  /\ HeapThreadInit
  /\ ScreensInit
  /\ TrapsInit
  /\ signal_init
  /\ FilesInit /\ (part = "files" \/ (current_process = Nobody /\ mounts = <<>>))
  /\ IdeInit /\ (part = "ide" \/ present = {})
  /\ DataInit /\ (part = "data" \/ (mapped = {} /\ request.size = FileSize))
  /\ DirInit /\ (part = "directory" \/ (dir = <<>> /\ name = "a" /\ index = 0))
  /\ InodesInit /\ (part = "inodes" \/ superblock.inodes_per_group = 4)

Next ==
  \/ /\ part = "heap" /\ HeapThreadNext
     /\ UNCHANGED <<part, svars, trapvars, sigvars, fvars, ivars, dvars, rvars, nvars>>
  \/ /\ part = "screens" /\ ScreensNext
     /\ UNCHANGED <<part, hvars, trapvars, sigvars, fvars, ivars, dvars, rvars, nvars>>
  \/ /\ part = "traps" /\ TrapsNext
     /\ UNCHANGED <<part, hvars, svars, sigvars, fvars, ivars, dvars, rvars, nvars>>
  \/ /\ part = "signals" /\ SignalsNext
     /\ UNCHANGED <<part, hvars, svars, trapvars, fvars, ivars, dvars, rvars, nvars>>
  \/ /\ part = "files" /\ FilesNext
     /\ UNCHANGED <<part, hvars, svars, trapvars, sigvars, ivars, dvars, rvars, nvars>>
  \/ /\ part = "ide" /\ IdeNext
     /\ UNCHANGED <<part, hvars, svars, trapvars, sigvars, fvars, dvars, rvars, nvars>>
  \/ /\ part = "data" /\ DataNext
     /\ UNCHANGED <<part, hvars, svars, trapvars, sigvars, fvars, ivars, rvars, nvars>>
  \/ /\ part = "directory" /\ DirNext
     /\ UNCHANGED <<part, hvars, svars, trapvars, sigvars, fvars, ivars, dvars, nvars>>
  \/ /\ part = "inodes" /\ InodesNext
     /\ UNCHANGED <<part, hvars, svars, trapvars, sigvars, fvars, ivars, dvars, rvars>>

Spec == Init /\ [][Next]_vars
=============================================================================
