------------------------------ MODULE PagePool ------------------------------
(***************************************************************************)
(* The kernel heap as its users of whole pages see it: kmalloc(PAGE_SIZE)  *)
(* and kfree.  Module Heap has the allocator itself.  A block's pointer    *)
(* comes after its header, so pointers are seldom multiples of PAGE_SIZE   *)
(* and two of them are more than a page apart.                             *)
(***************************************************************************)
EXTENDS Integers, Sequences, FiniteSetsExt

CONSTANTS
  PAGE_SIZE,
  PageBlocks     \* pointers kmalloc(PAGE_SIZE) may return

ASSUME PagePoolAssumption ==
  /\ PAGE_SIZE \in Nat \ {0}
  /\ IsFiniteSet(PageBlocks) /\ PageBlocks # {}
  /\ \A a \in PageBlocks : a \in Nat /\ a >= PAGE_SIZE
  /\ \A a, b \in PageBlocks : a < b => a + PAGE_SIZE < b

VARIABLES
  allocated,     \* pointers handed out and not given back
  cpu            \* "up", or stopped: "panic"

\* The pages n calls of kmalloc return, fewer when the heap runs out.  It is
\* first fit.
kmalloc(n) ==
  LET free == PageBlocks \ allocated
  IN  [i \in 1..Min({n, Cardinality(free)}) |->
         CHOOSE b \in free : Cardinality({c \in free : c <= b}) = i]

PagesNeeded(bytes) == (bytes + PAGE_SIZE - 1) \div PAGE_SIZE

\* phys & ~0xFFF
Frame(phys) == phys - (phys % PAGE_SIZE)

\* kfree of a frame read from a page table.  Unless the block happens to start
\* there, the header kfree looks at is none, and it panics, or a stale one, and
\* it warns and leaves everything allocated.
kfree_frame(f) ==
  IF f \in allocated
  THEN allocated' = allocated \ {f} /\ UNCHANGED cpu
  ELSE cpu' \in {"up", "panic"} /\ UNCHANGED allocated
=============================================================================
