------------------------------ MODULE Ext2Inodes ------------------------------
(***************************************************************************)
(* Superblock, group descriptors and the inode tables of src/ext2.c.       *)
(* Sizes are in units of 128 bytes, the least inode.  Disk errors may stop *)
(* any read or write of a block.                                           *)
(***************************************************************************)
EXTENDS Integers, FiniteSets

CONSTANTS
  Superblocks,          \* [first_data_block, blocks_count, blocks_per_group,
                        \*  inodes_per_group, inode_size, block_size]
  InodeValues,
  Unwritten             \* what an inode holds at first

CeilDiv(a, b) == (a + b - 1) \div b

\* What mkfs.ext2 makes: an inode size that divides the block size, and room for the table
\* in each group, the last one, which may be short, included.
MadeByMkfs(sb) ==
  LET tables == CeilDiv(sb.inodes_per_group * sb.inode_size, sb.block_size)
      groups == CeilDiv(sb.blocks_count - sb.first_data_block, sb.blocks_per_group)
  IN  /\ sb.blocks_per_group > 0 /\ sb.inodes_per_group > 0
      /\ sb.inode_size > 0 /\ sb.block_size >= sb.inode_size
      /\ sb.block_size % sb.inode_size = 0
      /\ sb.first_data_block <= sb.blocks_count
      /\ 4 + tables <= sb.blocks_per_group
      /\ sb.blocks_per_group * (groups - 1) + 4 + tables <= sb.blocks_count

ASSUME InodesAssumption ==
  /\ Superblocks \subseteq
       [first_data_block : Nat, blocks_count : Nat, blocks_per_group : Nat,
        inodes_per_group : Nat, inode_size : Nat, block_size : Nat]
  /\ \A sb \in Superblocks : MadeByMkfs(sb)

VARIABLES
  superblock,
  table,                \* block after block, unit after unit: the inode there
  stored                \* history: the last value written to each inode

nvars == <<superblock, table, stored>>

\* ext2_read_superblock.
groups_count == CeilDiv(superblock.blocks_count, superblock.blocks_per_group)

ext2_get_inode_block_group(n) == (n - 1) \div superblock.inodes_per_group
ext2_get_inode_index(n) == (n - 1) % superblock.inodes_per_group

\* bg_inode_table, as mkfs lays the groups out: each has its own blocks.
TableBlocks == CeilDiv(superblock.inodes_per_group * superblock.inode_size, superblock.block_size)
bg_inode_table(group) == superblock.blocks_per_group * group + 4

inodes_per_block == superblock.block_size \div superblock.inode_size

\* Mutated form: every inode of a group in the first block of its table.
InodeBlockFirst(n) == bg_inode_table(ext2_get_inode_block_group(n))

\* Where an inode is: block_num and block_offset.
InodeBlock(n) ==
  bg_inode_table(ext2_get_inode_block_group(n)) + (ext2_get_inode_index(n) \div inodes_per_block)
InodeOffset(n) == (ext2_get_inode_index(n) % inodes_per_block) * superblock.inode_size

Accepted(n) == n # 0 /\ ext2_get_inode_block_group(n) < groups_count

\* The groups mkfs made.
Groups ==
  CeilDiv(superblock.blocks_count - superblock.first_data_block, superblock.blocks_per_group)
Inodes == 1..(superblock.inodes_per_group * Groups)

BlankTable == [b \in 0..(superblock.blocks_count - 1) |->
            [u \in 0..(superblock.block_size - 1) |-> Unwritten]]

InodesInit ==
  /\ superblock \in Superblocks
  /\ table = BlankTable
  /\ stored = [n \in Inodes |-> Unwritten]

\* ext2_write_inode: the block is read, changed and written back.  It may fail before
\* anything is written.
ext2_write_inode(n, value) ==
  /\ Accepted(n)
  /\ table' = [table EXCEPT ![InodeBlock(n)][InodeOffset(n)] = value]
  /\ stored' = [stored EXCEPT ![n] = value]
  /\ UNCHANGED superblock

ext2_read_inode(n) == IF Accepted(n) THEN table[InodeBlock(n)][InodeOffset(n)] ELSE "error"

InodesNext == \E n \in Inodes, value \in InodeValues : ext2_write_inode(n, value)

InodesSpec == InodesInit /\ [][InodesNext]_nvars

-----------------------------------------------------------------------------
\* Every inode that mkfs made is found in its group's table and holds what was last written
\* to it: writing one disturbs no other, in any group, block or position.
InodesApart ==
  \A n \in Inodes :
    /\ ext2_read_inode(n) = stored[n]
    /\ InodeBlock(n) < bg_inode_table(ext2_get_inode_block_group(n)) + TableBlocks
=============================================================================
