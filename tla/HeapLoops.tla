------------------------------ MODULE HeapLoops ------------------------------
(***************************************************************************)
(* The loops of src/kmalloc.c written as the code runs them, pointer by    *)
(* pointer from heap_start, beside the closed forms module Heap uses.      *)
(***************************************************************************)
EXTENDS Heap, FiniteSetsExt

\* The loop of find_free_block, from cur.
RECURSIVE FindWalk(_, _, _)
FindWalk(h, total, cur) ==
  IF cur = NULL THEN NULL
  ELSE IF h[cur].is_free /\ h[cur].size >= total THEN cur
  ELSE FindWalk(h, total, h[cur].next)

\* The loop of merge_free_blocks, from cur.
RECURSIVE MergeWalk(_, _)
MergeWalk(h, cur) ==
  IF cur = NULL \/ h[cur].next = NULL THEN h
  ELSE IF Mergeable(h, cur) THEN MergeWalk(Absorb(h, cur), cur)
  ELSE MergeWalk(h, h[cur].next)

\* kmalloc_stats: "Currently used".
CurrentlyUsed == total_allocated - total_freed

\* The closed forms compute what the loops of kmalloc.c compute: the first
\* fitting block for every request, and the merged list after freeing any
\* allocated block.
LoopsAgree ==
  /\ \A n \in Requests :
       LET total == Align4(n) + BLOCK_HEADER_SIZE
           found == FindWalk(heap, total, HEAP_START)
       IN  IF found = NULL THEN Fits(heap, total) = {}
                           ELSE find_free_block(heap, total, found)
  /\ \A b \in DOMAIN heap :
       LET h == [heap EXCEPT ![b].is_free = TRUE]
       IN  ~heap[b].is_free
             => merge_free_blocks(h, b) = MergeWalk(h, HEAP_START)

\* The bytes kmalloc_stats reports as used, the payload of the allocated blocks
\* and the slack split_block leaves whole balance: the report falls short of
\* the payload held by at most the slack of every allocation ever made.
StatsBalance ==
  LET held == {b \in DOMAIN heap : ~heap[b].is_free}
      payload == MapThenSumSet(LAMBDA b : heap[b].size - BLOCK_HEADER_SIZE, held)
  IN  /\ CurrentlyUsed <= payload
      /\ payload - CurrentlyUsed
           <= num_allocations * (BLOCK_HEADER_SIZE + MIN_PAYLOAD - 1)
=============================================================================
