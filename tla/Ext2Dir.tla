------------------------------- MODULE Ext2Dir -------------------------------
(***************************************************************************)
(* The walks over the entries of a directory: ext2_lookup, and             *)
(* ext2_read_dir with the callbacks of vfs_ext2_finddir and                *)
(* vfs_ext2_readdir (src/vfs.c).  They go over the same bytes, here in     *)
(* step with each other.  An entry has an inode, 0 if it was deleted, a    *)
(* name, and rec_len, of which only 0 or not 0 matters.                    *)
(***************************************************************************)
EXTENDS Integers, Sequences, FiniteSets

CONSTANTS
  Names,
  MaxEntries            \* bound

ASSUME DirAssumption == MaxEntries \in Nat

VARIABLES
  dir,                  \* the entries
  name, index,          \* what is looked for: a name, and the entry of this number
  offset,               \* entry the walks have come to
  lookup,               \* result_inode, or 0
  find,                 \* finddir_ctx_t
  read                  \* readdir_ctx_t

rvars == <<dir, name, index, offset, lookup, find, read>>

Entries == [inode : 0..2, name : Names, rec_len : 0..1]
NoEntry == [inode |-> 0, name |-> "", rec_len |-> 0]

DirInit ==
  /\ dir \in UNION {[1..n -> Entries] : n \in 0..MaxEntries}
  /\ name \in Names /\ index \in 0..(MaxEntries - 1)
  /\ offset = 1
  /\ lookup = 0
  /\ find = [inode |-> 0, found |-> FALSE]
  /\ read = [current |-> 0, result |-> NoEntry]

\* Mutated form: the last entry of this name counts.
finddir_callback_last(entry) ==
  find' = IF entry.name # name THEN find ELSE [inode |-> entry.inode, found |-> TRUE]

finddir_callback(entry) ==
  find' = IF find.found \/ entry.name # name THEN find
          ELSE [inode |-> entry.inode, found |-> TRUE]

\* Mutated form: counted before it is compared.
readdir_callback_early(entry) ==
  read' = [current |-> read.current + 1,
           result |-> IF read.current + 1 = index THEN entry ELSE read.result]

readdir_callback(entry) ==
  read' = [current |-> read.current + 1,
           result |-> IF read.current = index THEN entry ELSE read.result]

\* One entry of ext2_read_dir's loop.
ext2_read_dir(entry) ==
  IF entry.inode = 0 THEN UNCHANGED <<find, read>>
  ELSE finddir_callback(entry) /\ readdir_callback(entry)

\* One entry of ext2_lookup's loop, which ends at the first match.
ext2_lookup(entry) ==
  lookup' = IF lookup = 0 /\ entry.inode # 0 /\ entry.name = name THEN entry.inode ELSE lookup

\* A rec_len of 0 ends the walks.
walk_entry ==
  /\ offset <= Len(dir)
  /\ ext2_read_dir(dir[offset]) /\ ext2_lookup(dir[offset])
  /\ offset' = IF dir[offset].rec_len = 0 THEN Len(dir) + 1 ELSE offset + 1
  /\ UNCHANGED <<dir, name, index>>

DirNext == walk_entry

DirSpec == DirInit /\ [][DirNext]_rvars

-----------------------------------------------------------------------------
\* The two ways to find a name agree at every entry, also when the name occurs twice or
\* in a deleted entry.
LookupsAgree == find.inode = lookup /\ (find.found <=> lookup # 0)

\* What the walks see: the live entries with no rec_len of 0 before them.
Live == {k \in DOMAIN dir : dir[k].inode # 0 /\ \A j \in 1..(k - 1) : dir[j].rec_len # 0}

\* readdir number n is the n-th live entry, and past the last there is none: an ls that
\* counts up from 0 shows each live entry once.
ReaddirEnumerates ==
  offset > Len(dir) =>
    \/ index >= Cardinality(Live) /\ read.result = NoEntry
    \/ \E k \in Live : Cardinality({j \in Live : j < k}) = index /\ read.result = dir[k]
=============================================================================
