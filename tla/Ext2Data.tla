------------------------------- MODULE Ext2Data -------------------------------
(***************************************************************************)
(* ext2_read_inode_data of src/ext2.c, one pass of its loop a step.  The   *)
(* disk may fail at every block.  A byte of the file is a number, and 0 in *)
(* a hole.                                                                 *)
(***************************************************************************)
EXTENDS Integers, Sequences, FiniteSetsExt

CONSTANTS
  BLOCK_SIZE,           \* bytes of a block
  DIRECT,               \* 12 in ext2
  POINTERS,             \* block numbers in an indirect block
  FILE_BLOCKS           \* blocks of the file

ASSUME DataAssumption ==
  BLOCK_SIZE \in Nat \ {0} /\ DIRECT \in Nat /\ POINTERS \in Nat /\ FILE_BLOCKS \in Nat

FileSize == BLOCK_SIZE * FILE_BLOCKS

VARIABLES
  mapped,               \* logical blocks that are not holes
  request,              \* [offset, size]
  block,                \* i
  out,                  \* the buffer, as far as it is filled
  faulty,               \* history: some block could not be read
  state                 \* "reading", "done"

dvars == <<mapped, request, block, out, faulty, state>>

\* Byte p of the file, as ext2 defines it.
ByteAt(p) == IF p \div BLOCK_SIZE \in mapped THEN p + 1 ELSE 0

DataInit ==
  /\ mapped \in SUBSET (0..(FILE_BLOCKS - 1))
  /\ request \in {r \in [offset : 0..(FileSize - 1), size : 1..FileSize] :
                    r.offset + r.size <= FileSize}
  /\ block = request.offset \div BLOCK_SIZE
  /\ out = <<>> /\ faulty = FALSE /\ state = "reading"

EndBlock == (request.offset + request.size + BLOCK_SIZE - 1) \div BLOCK_SIZE
Wanted == request.size - Len(out)

\* Block pointers: the direct ones, those of the indirect block if the file has one,
\* and none for what lies behind it.
HasIndirect == \E b \in mapped : b >= DIRECT /\ b < DIRECT + POINTERS
Pointers(readable) ==
  {b \in mapped : b < DIRECT \/ (b < DIRECT + POINTERS /\ readable)}

\* Mutated form: the offset into the first block is used in every block.
BlockOffsetEvery == request.offset % BLOCK_SIZE

BlockOffset ==
  IF block = request.offset \div BLOCK_SIZE THEN request.offset % BLOCK_SIZE ELSE 0

\* At most what is still wanted.
ToCopy(n) == Min({n, Wanted})

Hole == out' = out \o [k \in 1..ToCopy(BLOCK_SIZE) |-> 0]
Copy ==
  out' = out \o [k \in 1..ToCopy(BLOCK_SIZE - BlockOffset) |->
                   ByteAt(block * BLOCK_SIZE + BlockOffset + k - 1)]

\* One pass of the loop.  An indirect block that cannot be read leaves a hole, a data
\* block that cannot be read is left out.
read_block_data ==
  /\ state = "reading" /\ block < EndBlock /\ Wanted > 0
  /\ block' = block + 1
  /\ \E indirect_ok \in BOOLEAN, data_ok \in BOOLEAN :
       /\ ~indirect_ok => block >= DIRECT /\ block < DIRECT + POINTERS /\ HasIndirect
       /\ ~data_ok => block \in Pointers(indirect_ok)
       /\ faulty' = (faulty \/ ~indirect_ok \/ ~data_ok)
       /\ \/ block \notin Pointers(indirect_ok) /\ Hole
          \/ block \in Pointers(indirect_ok) /\ data_ok /\ Copy
          \/ ~data_ok /\ UNCHANGED out
  /\ UNCHANGED <<mapped, request, state>>

\* The loop ends and the number of bytes is returned.
read_done ==
  /\ state = "reading" /\ ~(block < EndBlock /\ Wanted > 0)
  /\ state' = "done"
  /\ UNCHANGED <<mapped, request, block, out, faulty>>

DataNext == read_block_data \/ read_done

DataSpec == DataInit /\ [][DataNext]_dvars

-----------------------------------------------------------------------------
\* Without a disk error, a read below the double indirect blocks returns exactly the bytes
\* asked for, unless it starts inside a hole.
DataExact ==
  /\ state = "done" /\ ~faulty
  /\ EndBlock <= DIRECT + POINTERS
  /\ request.offset % BLOCK_SIZE # 0 => request.offset \div BLOCK_SIZE \in mapped
  => out = [k \in 1..request.size |-> ByteAt(request.offset + k - 1)]
=============================================================================
