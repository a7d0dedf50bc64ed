-------------------------------- MODULE Heap --------------------------------
(***************************************************************************)
(* The kernel heap of src/kmalloc.c: one arena, a linked list of blocks    *)
(* with in-band headers, first fit, split on allocation, merge on free.    *)
(*                                                                         *)
(* heap maps the address of every block of the list to its header.  The    *)
(* code keeps the list in the arena itself and links it through next, so   *)
(* that the headers tile the arena is something to show, not something     *)
(* the representation gives.                                               *)
(*                                                                         *)
(* owned records what the callers hold: a pointer, the size asked for and, *)
(* for the specification only, the block it came from (blk).               *)
(***************************************************************************)
EXTENDS Integers, FiniteSets

CONSTANTS
  HEAP_START,      \* address of the arena, 0x00500000 in the kernel
  HEAP_SIZE,       \* its size in bytes, 1 MB in the kernel
  Requests,        \* sizes the callers ask for
  Alignments,      \* alignments the callers ask for (PAGE_SIZE in paging.c)
  MaxAllocations,  \* bound: successful allocations in one behaviour
  MaxStale         \* bound: freed pointers a caller may still hold

BLOCK_HEADER_SIZE == 16

\* split_block leaves a remainder whole unless it has room for a header and
\* this many bytes.
MIN_PAYLOAD == 16

NULL == 0

HEAP_END == HEAP_START + HEAP_SIZE

\* Requests are far from 2^32, so no sum of the code wraps.
ASSUME HeapAssumption ==
  /\ HEAP_START \in Nat \ {0}
  /\ HEAP_SIZE \in Nat
  /\ HEAP_SIZE > BLOCK_HEADER_SIZE
  /\ Requests \subseteq Nat
  /\ Alignments \subseteq Nat \ {0}
  /\ MaxAllocations \in Nat
  /\ MaxStale \in Nat

VARIABLES
  heap,             \* address of a listed block -> its header
  owned,            \* what callers hold
  freed,            \* pointers callers have given back and still hold
  total_allocated,
  total_freed,
  num_allocations,
  panicked          \* kernel_panic was called: the CPU is halted for good

stats == <<total_allocated, total_freed, num_allocations>>
vars == <<heap, owned, freed, stats, panicked>>

Header == [size : Nat, is_free : BOOLEAN, next : Nat]

-----------------------------------------------------------------------------
\* kmalloc_init
Init ==
  /\ heap = [b \in {HEAP_START} |->
               [size |-> HEAP_SIZE, is_free |-> TRUE, next |-> NULL]]
  /\ owned = {}
  /\ freed = {}
  /\ total_allocated = 0
  /\ total_freed = 0
  /\ num_allocations = 0
  /\ panicked = FALSE

\* (n + 3) & ~3
Align4(n) == (n + 3) - ((n + 3) % 4)

\* (addr + align - 1) & ~(align - 1), align a power of two
RoundUp(addr, align) == (addr + align - 1) - ((addr + align - 1) % align)

\* Mutated form: a block need not be free.
FitsAny(h, total) == {b \in DOMAIN h : h[b].size >= total}

Fits(h, total) == {b \in DOMAIN h : h[b].is_free /\ h[b].size >= total}

\* The walk of find_free_block stops at the first fitting block of the list;
\* the list is in address order (Tiling), so that is the lowest one.
find_free_block(h, total, b) ==
  /\ b \in Fits(h, total)
  /\ \A c \in Fits(h, total) : b <= c

\* Mutated form: no room kept for a header, and the header charged twice.
split_block_tight(h, b, total) ==
  IF h[b].size > total
  THEN [a \in DOMAIN h \cup {b + total} |->
          IF a = b + total
          THEN [size |-> h[b].size - total - BLOCK_HEADER_SIZE, is_free |-> TRUE,
                next |-> h[b].next]
          ELSE IF a = b
               THEN [size |-> total, is_free |-> h[b].is_free, next |-> b + total]
               ELSE h[a]]
  ELSE h

split_block(h, b, total) ==
  IF h[b].size >= total + BLOCK_HEADER_SIZE + MIN_PAYLOAD
  THEN [a \in DOMAIN h \cup {b + total} |->
          IF a = b + total
          THEN [size |-> h[b].size - total, is_free |-> TRUE, next |-> h[b].next]
          ELSE IF a = b
               THEN [size |-> total, is_free |-> h[b].is_free, next |-> b + total]
               ELSE h[a]]
  ELSE h

\* One turn of the loop of merge_free_blocks that merges, at block b.
Absorb(h, b) ==
  LET n == h[b].next
  IN  [a \in DOMAIN h \ {n} |->
         IF a = b THEN [size |-> h[b].size + h[n].size, is_free |-> TRUE,
                        next |-> h[n].next]
                  ELSE h[a]]

Mergeable(h, b) == h[b].is_free /\ h[b].next # NULL /\ h[h[b].next].is_free

\* Mutated form: only the block after b is merged.
merge_forward(h, b) == IF Mergeable(h, b) THEN Absorb(h, b) ELSE h

\* merge_free_blocks after block b became free.  No two free neighbours are
\* left by an earlier call (NoAdjacentFree), so the loop over the whole list
\* merges at b and at the block before it and nowhere else; HeapLoops has the
\* loop itself and LoopsAgree compares the two.
merge_free_blocks(h, b) ==
  LET h1   == IF Mergeable(h, b) THEN Absorb(h, b) ELSE h
      pred == {p \in DOMAIN h1 : h1[p].is_free /\ h1[p].next = b}
  IN  IF pred # {} THEN Absorb(h1, CHOOSE p \in pred : TRUE) ELSE h1

-----------------------------------------------------------------------------
\* kmalloc(n) returning block b; ptr is what the caller gets, of size bytes.
Allocate(n, b, ptr, size) ==
  LET total == Align4(n) + BLOCK_HEADER_SIZE
  IN  /\ find_free_block(heap, total, b)
      /\ heap' = [split_block(heap, b, total) EXCEPT ![b].is_free = FALSE]
      /\ owned' = owned \cup {[blk |-> b, ptr |-> ptr, size |-> size]}
      /\ total_allocated' = total_allocated + Align4(n)
      /\ num_allocations' = num_allocations + 1
      /\ UNCHANGED <<freed, total_freed, panicked>>

\* kmalloc returns NULL: a request for nothing, or no block is large enough.
ReturnsNull(n) ==
  /\ n = 0 \/ Fits(heap, Align4(n) + BLOCK_HEADER_SIZE) = {}
  /\ UNCHANGED vars

kmalloc(n) ==
  /\ ~panicked /\ num_allocations < MaxAllocations
  /\ \/ ReturnsNull(n)
     \/ /\ n # 0
        /\ \E b \in DOMAIN heap : Allocate(n, b, b + BLOCK_HEADER_SIZE, n)

\* The pointer kmalloc returned is not kept.
kmalloc_aligned(n, align) ==
  /\ ~panicked /\ num_allocations < MaxAllocations
  /\ \/ ReturnsNull(n + align)
     \/ /\ n + align # 0
        /\ \E b \in DOMAIN heap :
             Allocate(n + align, b, RoundUp(b + BLOCK_HEADER_SIZE, align), n)

\* Mutated form: total_freed is not updated.
FreeAtUncounted(hdr) ==
  /\ hdr \in DOMAIN heap
  /\ ~heap[hdr].is_free
  /\ heap' = merge_free_blocks([heap EXCEPT ![hdr].is_free = TRUE], hdr)
  /\ UNCHANGED <<stats, panicked>>

\* kfree on the header at hdr.  Where no block of the list starts, the magic
\* is whatever memory holds: usually none (panic), or what is left of a block
\* that was merged away, whose is_free still reads true (warning).
FreeAt(hdr) ==
  \/ /\ hdr \notin DOMAIN heap
     /\ panicked' = TRUE
     /\ UNCHANGED <<heap, stats>>
  \/ /\ hdr \in DOMAIN heap => heap[hdr].is_free
     /\ UNCHANGED <<heap, stats, panicked>>
  \/ /\ hdr \in DOMAIN heap
     /\ ~heap[hdr].is_free
     /\ heap' = merge_free_blocks([heap EXCEPT ![hdr].is_free = TRUE], hdr)
     /\ total_freed' = total_freed + (heap[hdr].size - BLOCK_HEADER_SIZE)
     /\ UNCHANGED <<total_allocated, num_allocations, panicked>>

\* An owner gives its memory back, once.
kfree(a) ==
  /\ ~panicked
  /\ a \in owned
  /\ FreeAt(a.ptr - BLOCK_HEADER_SIZE)
  /\ owned' = IF panicked' THEN owned ELSE owned \ {a}
  /\ freed' = IF panicked' \/ Cardinality(freed) >= MaxStale
              THEN freed ELSE freed \cup {a.ptr}

\* A caller gives back a pointer it has already given back.
kfree_again(p) ==
  /\ ~panicked
  /\ p \in freed
  /\ FreeAt(p - BLOCK_HEADER_SIZE)
  /\ UNCHANGED <<owned, freed>>

Next ==
  \/ \E n \in Requests : kmalloc(n)
  \/ \E n \in Requests, align \in Alignments : kmalloc_aligned(n, align)
  \/ \E a \in owned : kfree(a)

\* Callers that free once, and callers that may free twice.
Spec == Init /\ [][Next]_vars

NextAgain == Next \/ \E p \in freed : kfree_again(p)

SpecAgain == Init /\ [][NextAgain]_vars

-----------------------------------------------------------------------------
IsHeap(h) == DOMAIN h \subseteq Nat /\ h \in [DOMAIN h -> Header]

TypeOK ==
  /\ IsHeap(heap)
  /\ owned \subseteq [blk : Nat, ptr : Nat, size : Nat]
  /\ freed \subseteq Nat
  /\ total_allocated \in Nat
  /\ total_freed \in Nat
  /\ num_allocations \in 0..MaxAllocations
  /\ panicked \in BOOLEAN

Tiles(h) ==
  /\ HEAP_START \in DOMAIN h
  /\ \A b \in DOMAIN h :
       /\ HEAP_START <= b
       /\ h[b].size >= BLOCK_HEADER_SIZE
       /\ \/ b + h[b].size = HEAP_END /\ h[b].next = NULL
          \/ /\ b + h[b].size < HEAP_END
             /\ h[b].next = b + h[b].size
             /\ h[b].next \in DOMAIN h
  /\ \A b, c \in DOMAIN h : b < c => b + h[b].size <= c

\* The blocks of the list tile the arena in address order: each one starts
\* where the one before it ends, the last one ends where the arena ends, and
\* none is smaller than its header.  kmalloc.c keeps this through split_block
\* and merge_free_blocks; every walk of the list depends on it.
Tiling == Tiles(heap)

\* Between two calls no two neighbouring blocks are both free, whatever the
\* order in which blocks were freed: kfree's merge_free_blocks leaves none and
\* kmalloc's split_block makes none.
NoAdjacentFree ==
  \A b \in DOMAIN heap : ~Mergeable(heap, b)

\* What a caller got from kmalloc or kmalloc_aligned and has not given back
\* lies in the arena, overlaps no header, no free block and no other caller's
\* memory.
LiveMemorySafe ==
  \A a \in owned :
    LET Apart(lo, hi) == hi <= a.ptr \/ a.ptr + a.size <= lo
    IN  /\ HEAP_START <= a.ptr /\ a.ptr + a.size <= HEAP_END
        /\ \A b \in DOMAIN heap :
             /\ Apart(b, b + BLOCK_HEADER_SIZE)
             /\ heap[b].is_free => Apart(b, b + heap[b].size)
        /\ \A c \in owned \ {a} : Apart(c.ptr, c.ptr + c.size)

\* Every owner's memory lies in the payload of the block it was taken from,
\* that block is allocated, and no two owners share one: what makes
\* LiveMemorySafe hold from one call of kmalloc.c to the next.
OwnersHoldBlocks ==
  /\ \A a \in owned :
       /\ a.blk \in DOMAIN heap /\ ~heap[a.blk].is_free
       /\ a.blk + BLOCK_HEADER_SIZE <= a.ptr
       /\ a.ptr < a.blk + heap[a.blk].size
       /\ a.ptr + a.size <= a.blk + heap[a.blk].size
  /\ \A a, c \in owned : a.blk = c.blk => a = c

\* kfree takes back every pointer the allocator handed out.  KFS5_IMPLEMENTATION
\* says of process_exit that it frees the process's resources, and those are
\* page directories and tables from kmalloc_aligned; kfree looks for a header
\* right below the aligned pointer and panics.
FreeNeverPanics == ~panicked

A == INSTANCE Allocator WITH
       ARENA_START <- HEAP_START, ARENA_END <- HEAP_END, Sizes <- Requests,
       live <- {[ptr |-> a.ptr, size |-> a.size] : a \in owned}

\* kmalloc.c implements the abstract allocator, for callers that free once.
RefinesAllocator == A!Spec
=============================================================================
