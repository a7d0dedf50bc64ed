--------------------------- MODULE HeapInterrupts ---------------------------
(***************************************************************************)
(* kmalloc and kfree of src/kmalloc.c in the shell's thread, one write to  *)
(* a header a step, and kfree of signal entries in the timer interrupt     *)
(* between any two of them: process_switch calls process_signal_process,   *)
(* and nothing locks the list.  The interrupt only frees.                  *)
(*                                                                         *)
(* Addresses count units of 16 bytes: a header is one, and a remainder of  *)
(* two or more is split off.  headers also keeps what is left in memory of *)
(* blocks that were merged away.  Module Heap has whole calls.             *)
(***************************************************************************)
EXTENDS Integers

CONSTANTS
  ARENA,            \* units of the arena
  Payloads,         \* sizes asked for, in units
  MaxBlocks         \* bound: calls of kmalloc

Nil == -1
Addresses == 0..(ARENA - 1)

VARIABLES
  headers,          \* address -> size, is_free, next
  place, cur, want, \* the thread: where it is, current or block, total_size
  holders,          \* allocated memory; queued: a signal entry the timer may free
  allocations,
  torn              \* history: the interrupt came at one of the places TornBy names

hvars == <<headers, place, cur, want, holders, allocations, torn>>

HeapThreadInit ==
  /\ headers = [a \in Addresses |->
                  [size |-> IF a = 0 THEN ARENA ELSE 0, is_free |-> a = 0, next |-> Nil]]
  /\ place = "idle" /\ cur = Nil /\ want = 0
  /\ holders = {} /\ allocations = 0 /\ torn = FALSE

\* The blocks of a list, and the loop of merge_free_blocks, from b on.
RECURSIVE Blocks(_, _)
Blocks(h, b) == IF b = Nil THEN {} ELSE {b} \union Blocks(h, h[b].next)

RECURSIVE MergeFrom(_, _)
MergeFrom(h, b) ==
  IF b = Nil \/ h[b].next = Nil THEN h
  ELSE LET n == h[b].next IN
       IF h[b].is_free /\ h[n].is_free
       THEN MergeFrom([h EXCEPT ![b].size = @ + h[n].size, ![b].next = h[n].next], b)
       ELSE MergeFrom(h, n)

-----------------------------------------------------------------------------
To(p) == place' = p /\ UNCHANGED <<want, allocations, torn>>
Finish == To("idle") /\ cur' = Nil

kmalloc_call(n) ==
  /\ place = "idle" /\ allocations < MaxBlocks
  /\ place' = "look" /\ cur' = 0 /\ want' = n + 1
  /\ allocations' = allocations + 1
  /\ UNCHANGED <<headers, holders, torn>>

\* Mutated form: the header is not counted in what is looked for.
find_free_block_bare ==
  /\ UNCHANGED <<headers, holders>>
  /\ \/ /\ place = "look"
        /\ To(IF headers[cur].is_free /\ headers[cur].size >= want - 1 THEN "split" ELSE "step")
        /\ UNCHANGED cur
     \/ /\ place = "step"
        /\ IF headers[cur].next = Nil THEN Finish ELSE To("look") /\ cur' = headers[cur].next

find_free_block ==
  /\ UNCHANGED <<headers, holders>>
  /\ \/ /\ place = "look"
        /\ To(IF headers[cur].is_free /\ headers[cur].size >= want THEN "split" ELSE "step")
        /\ UNCHANGED cur
     \/ /\ place = "step"
        /\ IF headers[cur].next = Nil THEN Finish ELSE To("look") /\ cur' = headers[cur].next

\* Mutated form: the size of the remainder is computed before the test.
split_block_early ==
  LET new == cur + want IN
  /\ UNCHANGED <<cur, holders>>
  /\ \/ /\ place = "split" /\ headers[cur].size >= want + 2 /\ To("size")
        /\ headers' = [headers EXCEPT ![new].size = headers[cur].size - want]
     \/ place = "split" /\ headers[cur].size < want + 2 /\ To("mark") /\ UNCHANGED headers
     \/ place = "size" /\ To("next") /\ UNCHANGED headers
     \/ /\ place = "next" /\ To("shrink")
        /\ headers' = [headers EXCEPT ![new].is_free = TRUE, ![new].next = headers[cur].next]
     \/ place = "shrink" /\ To("link") /\ headers' = [headers EXCEPT ![cur].size = want]
     \/ place = "link" /\ To("mark") /\ headers' = [headers EXCEPT ![cur].next = new]

split_block ==
  LET new == cur + want IN
  /\ UNCHANGED <<cur, holders>>
  /\ \/ place = "split" /\ headers[cur].size >= want + 2 /\ To("size") /\ UNCHANGED headers
     \/ place = "split" /\ headers[cur].size < want + 2 /\ To("mark") /\ UNCHANGED headers
     \/ /\ place = "size" /\ To("next")
        /\ headers' = [headers EXCEPT ![new].size = headers[cur].size - want]
     \/ /\ place = "next" /\ To("shrink")
        /\ headers' = [headers EXCEPT ![new].is_free = TRUE, ![new].next = headers[cur].next]
     \/ place = "shrink" /\ To("link") /\ headers' = [headers EXCEPT ![cur].size = want]
     \/ place = "link" /\ To("mark") /\ headers' = [headers EXCEPT ![cur].next = new]

\* is_free = false, and the caller has the block: for a signal's entry or for itself.
kmalloc_mark ==
  /\ place = "mark" /\ Finish
  /\ headers' = [headers EXCEPT ![cur].is_free = FALSE]
  /\ \E queued \in BOOLEAN :
       holders' = holders \union {[blk |-> cur, size |-> want, queued |-> queued]}

kfree_call(a) ==
  /\ place = "idle" /\ a \in holders /\ ~a.queued
  /\ headers' = [headers EXCEPT ![a.blk].is_free = TRUE]
  /\ holders' = holders \ {a}
  /\ To("test") /\ cur' = 0

\* merge_free_blocks of the thread's kfree.
merge_free_blocks ==
  LET n == headers[cur].next IN
  /\ UNCHANGED holders
  /\ \/ /\ place = "test" /\ UNCHANGED headers
        /\ IF n = Nil THEN Finish
           ELSE IF headers[cur].is_free /\ headers[n].is_free THEN To("grow") /\ UNCHANGED cur
           ELSE To("test") /\ cur' = n
     \/ /\ place = "grow" /\ To("unlink") /\ UNCHANGED cur
        /\ headers' = [headers EXCEPT ![cur].size = @ + headers[n].size]
     \/ /\ place = "unlink" /\ To("test") /\ UNCHANGED cur
        /\ headers' = [headers EXCEPT ![cur].next = headers[n].next]

\* The places where the interrupt's kfree does harm: it merges the block kmalloc is at
\* into the one before it, or another into the block of which size and next are being
\* written one after the other.
TornBy(after) ==
  LET absorbed == cur \in Blocks(headers, 0) \ Blocks(after, 0)
      changed  == after[cur] # headers[cur]
  IN  \/ place \in {"look", "step", "split", "size", "next", "shrink", "link", "mark",
                    "unlink"} /\ absorbed
      \/ place \in {"next", "link", "grow", "unlink"} /\ changed

\* The timer: kfree of an entry, all in one step.
timer_kfree(a) ==
  LET after == MergeFrom([headers EXCEPT ![a.blk].is_free = TRUE], 0) IN
  /\ a \in holders /\ a.queued
  /\ headers' = after
  /\ holders' = holders \ {a}
  /\ torn' = (place # "idle" /\ TornBy(after))
  /\ UNCHANGED <<place, cur, want, allocations>>

HeapThreadNext ==
  /\ ~torn
  /\ \/ \E n \in Payloads : kmalloc_call(n)
     \/ find_free_block \/ split_block \/ kmalloc_mark \/ merge_free_blocks
     \/ \E a \in holders : kfree_call(a) \/ timer_kfree(a)

HeapThreadSpec == HeapThreadInit /\ [][HeapThreadNext]_hvars

-----------------------------------------------------------------------------
Span(b, size) == b..(b + size - 1)

\* Allocated memory stays apart from other allocated memory and from every free block of
\* the list, wherever the timer's kfree cuts into the thread's kmalloc or kfree, but for
\* the places TornBy names.
LiveUnlessTorn ==
  ~torn =>
    \A a \in holders :
      /\ Span(a.blk, a.size) \subseteq Addresses
      /\ \A c \in holders \ {a} : Span(a.blk, a.size) \intersect Span(c.blk, c.size) = {}
      /\ \A b \in Blocks(headers, 0) :
           headers[b].is_free => Span(a.blk, a.size) \intersect Span(b, headers[b].size) = {}

\* And when the thread is done the list is whole: every block ends where the next begins,
\* also where kmalloc has put back blocks the timer had merged away.
TilesUnlessTorn ==
  ~torn /\ place = "idle" =>
    \A b \in Blocks(headers, 0) :
      b + headers[b].size = IF headers[b].next = Nil THEN ARENA ELSE headers[b].next
=============================================================================
