------------------------------ MODULE Vmalloc -------------------------------
(***************************************************************************)
(* The virtual allocator of src/vmalloc.c: a list of blocks of virtual     *)
(* space, whose headers and physical pages come from kmalloc.  vmem_list   *)
(* is the list from vmem_head on.  vowned is what callers have got and not *)
(* freed; cmd_memtest never frees, so vfree is called here as its comment  *)
(* intends, once for each pointer.                                         *)
(***************************************************************************)
EXTENDS PagePool

CONSTANTS
  VMEM_START, VMEM_SIZE,
  VRequests,        \* sizes callers ask for
  MaxVmallocs       \* bound: calls of vmalloc in one behaviour

ASSUME VmallocAssumption ==
  /\ VMEM_START \in Nat \ {0} /\ VMEM_SIZE \in Nat \ {0}
  /\ VRequests \subseteq Nat
  /\ MaxVmallocs \in Nat

VARIABLES vmem_list, vmem_allocated, vmem_freed, vowned, vcalls

vvars == <<vmem_list, vmem_allocated, vmem_freed, vowned, vcalls>>

vmalloc_init ==
  /\ vmem_list = <<[virt_addr |-> VMEM_START, size |-> VMEM_SIZE, is_free |-> TRUE]>>
  /\ vmem_allocated = 0
  /\ vmem_freed = 0
  /\ vowned = {}
  /\ vcalls = 0

\* A walk of the list ends at the first of the blocks that pass its test, at 0 if none does.
FirstBlock(passing) == IF passing = {} THEN 0 ELSE Min(passing)

find_free_vmem_block(size) ==
  FirstBlock({k \in DOMAIN vmem_list : vmem_list[k].is_free /\ vmem_list[k].size >= size})

\* The block that vfree(ptr) frees.
BlockAt(ptr) ==
  FirstBlock({k \in DOMAIN vmem_list : vmem_list[k].virt_addr = ptr /\ ~vmem_list[k].is_free})

\* The list with block next linked in after block k.
LinkAfter(list, k, next) == SubSeq(list, 1, k) \o <<next>> \o SubSeq(list, k + 1, Len(list))

\* Mutated form: the remainder starts where the block did.
SplitInPlace(k, size, header) ==
  LET block == [vmem_list[k] EXCEPT !.is_free = FALSE, !.size = size]
      rest  == [virt_addr |-> block.virt_addr, size |-> VMEM_SIZE - size,
                is_free |-> TRUE]
      taken == [vmem_list EXCEPT ![k] = block]
  IN  IF header /\ size < VMEM_SIZE THEN LinkAfter(taken, k, rest) ELSE taken

\* Block k is taken; with memory for a header, the remainder follows it.  Its
\* size is that of the whole space less the request, whatever block k held.
Split(k, size, header) ==
  LET block == [vmem_list[k] EXCEPT !.is_free = FALSE, !.size = size]
      rest  == [virt_addr |-> block.virt_addr + size, size |-> VMEM_SIZE - size,
                is_free |-> TRUE]
      taken == [vmem_list EXCEPT ![k] = block]
  IN  IF header /\ size < VMEM_SIZE THEN LinkAfter(taken, k, rest) ELSE taken

\* vmalloc(n), n > 0: with 0 it returns NULL at once.  When the pages run out
\* the ones it has got stay allocated.
vmalloc(n) ==
  LET pages == PagesNeeded(n)
      size  == pages * PAGE_SIZE
      k     == find_free_vmem_block(size)
  IN  /\ vcalls < MaxVmallocs /\ n > 0
      /\ vcalls' = vcalls + 1
      /\ IF k = 0
         THEN UNCHANGED <<vmem_list, vmem_allocated, vowned, allocated>>
         ELSE /\ allocated' = allocated \cup Range(kmalloc(pages))
              /\ IF Len(kmalloc(pages)) < pages
                 THEN UNCHANGED <<vmem_list, vmem_allocated, vowned>>
                 ELSE /\ \E header \in BOOLEAN : vmem_list' = Split(k, size, header)
                      /\ vmem_allocated' = vmem_allocated + size
                      /\ vowned' = vowned \cup {[ptr |-> vmem_list[k].virt_addr,
                                                 size |-> size, id |-> vcalls']}
      /\ UNCHANGED <<vmem_freed, cpu>>

\* Mutated form: whether the block after it is free is not looked at.
MergeAny(list, k) ==
  IF k < Len(list)
  THEN SubSeq([list EXCEPT ![k].size = @ + list[k + 1].size], 1, k) \o SubSeq(list, k + 2, Len(list))
  ELSE list

\* The merge loop of vfree over the whole list, of which the first n blocks make
\* merged[n]; k is the block just freed.
MergeFree(list, k) ==
  LET merged[n \in 0..Len(list)] ==
        IF n = 0 THEN <<>>
        ELSE LET done == merged[n - 1]
                 last == Len(done)
             IN  IF last # 0 /\ done[last].is_free /\ list[n].is_free
                 THEN [done EXCEPT ![last].size = @ + list[n].size]
                 ELSE Append(done, list[n])
  IN  merged[Len(list)]

\* Mutated form: what is given back is what the caller asked for last.
vfree_counts_first(a) ==
  LET k == BlockAt(a.ptr)
  IN  /\ k # 0
      /\ vmem_list' = MergeFree([vmem_list EXCEPT ![k].is_free = TRUE], k)
      /\ vmem_freed' = vmem_freed + vmem_list'[1].size
      /\ vowned' = vowned \ {a}
      /\ UNCHANGED <<vmem_allocated, vcalls, allocated, cpu>>

\* vfree of a pointer the caller owns.  The first allocated block at that
\* address is freed; the physical pages are not.
vfree(a) ==
  LET k == BlockAt(a.ptr)
  IN  /\ vowned' = vowned \ {a}
      /\ IF k = 0 THEN UNCHANGED <<vmem_list, vmem_freed>>
         ELSE /\ vmem_list' = MergeFree([vmem_list EXCEPT ![k].is_free = TRUE], k)
              /\ vmem_freed' = vmem_freed + vmem_list[k].size
      /\ UNCHANGED <<vmem_allocated, vcalls, allocated, cpu>>

VNext ==
  \/ \E n \in VRequests : vmalloc(n)
  \/ \E a \in vowned : vfree(a)

-----------------------------------------------------------------------------
Overlap(a, b) == a.ptr < b.ptr + b.size /\ b.ptr < a.ptr + a.size

\* What the allocated blocks of a list hold.
InUse(list) ==
  LET held[n \in 0..Len(list)] ==
        IF n = 0 THEN 0 ELSE held[n - 1] + IF list[n].is_free THEN 0 ELSE list[n].size
  IN  held[Len(list)]

\* "Currently used" of vmalloc_stats is exact, failures, merges and overlapping
\* blocks included: allocated less freed is what the allocated blocks hold.
VStatsExact == vmem_allocated - vmem_freed = InUse(vmem_list)

\* A pointer that was handed out can be given back: each address has as many
\* allocated blocks as owners, though it may by now have several of both.
OwnersListed ==
  \A p \in {a.ptr : a \in vowned} \cup {b.virt_addr : b \in Range(vmem_list)} :
    Cardinality({a \in vowned : a.ptr = p}) =
    Cardinality({k \in DOMAIN vmem_list :
                   vmem_list[k].virt_addr = p /\ ~vmem_list[k].is_free})

\* Until the first vfree, which the kernel's own callers never reach, every block
\* starts where the one before it ends, so that live memory never overlaps.
DisjointUntilFree ==
  vmem_freed = 0 =>
    /\ \A k \in 1..(Len(vmem_list) - 1) :
         vmem_list[k + 1].virt_addr = vmem_list[k].virt_addr + vmem_list[k].size
    /\ \A a, b \in vowned : a # b => ~Overlap(a, b)
=============================================================================
