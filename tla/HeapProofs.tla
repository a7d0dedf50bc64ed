----------------------------- MODULE HeapProofs -----------------------------
(***************************************************************************)
(* Proofs about module Heap, for every arena and every set of requests.    *)
(***************************************************************************)
EXTENDS Heap, TLAPS

\* Rounding a request up to a multiple of 4 (kmalloc.c, "& ~3").
LEMMA Align4Bounds ==
  ASSUME NEW n \in Nat
  PROVE  Align4(n) \in Nat /\ n <= Align4(n)
BY DEF Align4

\* Rounding an address up (kmalloc_aligned) stays below the next multiple.
LEMMA RoundUpBounds ==
  ASSUME NEW addr \in Nat, NEW align \in Nat \ {0}
  PROVE  /\ RoundUp(addr, align) \in Nat
         /\ addr <= RoundUp(addr, align)
         /\ RoundUp(addr, align) <= addr + align - 1
<1> DEFINE x == addr + align - 1
<1>1. x \in Nat
  OBVIOUS
<1>2. x % align \in 0..(align - 1)
  BY <1>1
<1>3. QED
  BY <1>1, <1>2 DEF RoundUp

\* What the tiling says of one block.
LEMMA BlockFacts ==
  ASSUME NEW h, IsHeap(h), Tiles(h), NEW b \in DOMAIN h
  PROVE  /\ b \in Nat /\ HEAP_START <= b /\ b + h[b].size <= HEAP_END
         /\ h[b].size \in Nat /\ h[b].size >= 16
         /\ h[b].next \in Nat /\ h[b].is_free \in BOOLEAN
         /\ \/ b + h[b].size = HEAP_END /\ h[b].next = 0
            \/ /\ b + h[b].size < HEAP_END
               /\ h[b].next = b + h[b].size
               /\ h[b].next \in DOMAIN h
<1>1. b \in Nat /\ h[b] \in Header
  BY DEF IsHeap
<1>2. QED
  BY <1>1, HeapAssumption DEF Tiles, Header, BLOCK_HEADER_SIZE, NULL, HEAP_END

\* split_block keeps the tiling and leaves the block with what was asked.
LEMMA SplitTiles ==
  ASSUME NEW h, IsHeap(h), Tiles(h), NEW b \in DOMAIN h, NEW total \in Nat,
         total >= BLOCK_HEADER_SIZE, total <= h[b].size
  PROVE  LET s == split_block(h, b, total)
         IN  /\ IsHeap(s) /\ Tiles(s)
             /\ DOMAIN h \subseteq DOMAIN s
             /\ total <= s[b].size
             /\ \A a \in DOMAIN h \ {b} : s[a] = h[a]
             /\ \A a \in DOMAIN s \ DOMAIN h : s[a].is_free /\ s[a].next = h[b].next
<1> DEFINE s == split_block(h, b, total)
<1>1. CASE h[b].size >= total + BLOCK_HEADER_SIZE + MIN_PAYLOAD
  <2> DEFINE n == b + total
  <2>1. n \in Nat /\ n > b /\ n < b + h[b].size /\ h[b].size \in Nat
    BY <1>1 DEF IsHeap, BLOCK_HEADER_SIZE, MIN_PAYLOAD, Header
  <2>2. n \notin DOMAIN h
    BY <2>1 DEF Tiles, IsHeap
  <2>3. s = [a \in DOMAIN h \cup {n} |->
               IF a = n
               THEN [size |-> h[b].size - total, is_free |-> TRUE, next |-> h[b].next]
               ELSE IF a = b
                    THEN [size |-> total, is_free |-> h[b].is_free, next |-> n]
                    ELSE h[a]]
    BY <1>1 DEF split_block
  <2>4. IsHeap(s)
    BY <1>1, <2>1, <2>2, <2>3 DEF IsHeap, Header, BLOCK_HEADER_SIZE, MIN_PAYLOAD
  <2>5. /\ DOMAIN s = DOMAIN h \cup {n}
        /\ s[n].size = h[b].size - total /\ s[n].next = h[b].next /\ s[n].is_free
        /\ s[b].size = total /\ s[b].next = n
        /\ \A a \in DOMAIN h \ {b} : s[a] = h[a]
    BY <2>1, <2>2, <2>3
  <2>6. Tiles(s)
    <3> HIDE DEF s
    <3>1. HEAP_START \in DOMAIN s
      BY <2>5 DEF Tiles
    <3>2. ASSUME NEW a \in DOMAIN s
          PROVE  /\ HEAP_START <= a
                 /\ s[a].size >= BLOCK_HEADER_SIZE
                 /\ \/ a + s[a].size = HEAP_END /\ s[a].next = NULL
                    \/ /\ a + s[a].size < HEAP_END
                       /\ s[a].next = a + s[a].size
                       /\ s[a].next \in DOMAIN s
      <4>1. CASE a = n
        BY <4>1, <1>1, <2>1, <2>5, BlockFacts, HeapAssumption
           DEF BLOCK_HEADER_SIZE, MIN_PAYLOAD, NULL, HEAP_END
      <4>2. CASE a = b
        BY <4>2, <1>1, <2>1, <2>5, HeapAssumption
           DEF Tiles, IsHeap, Header, BLOCK_HEADER_SIZE, MIN_PAYLOAD, NULL, HEAP_END
      <4>3. CASE a \in DOMAIN h \ {b}
        BY <4>3, <2>5 DEF Tiles
      <4>4. QED
        BY <4>1, <4>2, <4>3, <2>5
    <3>3. ASSUME NEW a \in DOMAIN s, NEW c \in DOMAIN s, a < c
          PROVE  a + s[a].size <= c
      <4>1. CASE a = n
        <5>1. c \in DOMAIN h /\ c > b
          BY <3>3, <4>1, <2>1, <2>5 DEF IsHeap
        <5>2. QED
          BY <5>1, <4>1, <2>1, <2>5 DEF Tiles, IsHeap
      <4>2. CASE a = b
        BY <3>3, <4>2, <2>1, <2>5 DEF Tiles, IsHeap
      <4>3. CASE a \in DOMAIN h \ {b} /\ c = n
        <5>1. a < b
          BY <3>3, <4>3, <2>1 DEF Tiles, IsHeap
        <5>2. QED
          BY <5>1, <4>3, <2>1, <2>5 DEF Tiles, IsHeap, Header
      <4>4. CASE a \in DOMAIN h \ {b} /\ c \in DOMAIN h
        BY <3>3, <4>4, <2>5 DEF Tiles
      <4>5. QED
        BY <4>1, <4>2, <4>3, <4>4, <2>5
    <3>4. QED
      BY <3>1, <3>2, <3>3 DEF Tiles
  <2>7. QED
    BY <2>1, <2>2, <2>4, <2>5, <2>6
<1>2. CASE ~(h[b].size >= total + BLOCK_HEADER_SIZE + MIN_PAYLOAD)
  BY <1>2 DEF split_block
<1>3. QED
  BY <1>1, <1>2

\* Absorbing the next block keeps the tiling.
LEMMA AbsorbTiles ==
  ASSUME NEW h, IsHeap(h), Tiles(h), NEW b \in DOMAIN h, h[b].next # NULL
  PROVE  IsHeap(Absorb(h, b)) /\ Tiles(Absorb(h, b))
<1> DEFINE n == h[b].next
           s == Absorb(h, b)
<1>1. n \in DOMAIN h /\ n = b + h[b].size /\ n > b
  BY DEF Tiles, IsHeap, Header, BLOCK_HEADER_SIZE
<1>2. s = [a \in DOMAIN h \ {n} |->
             IF a = b THEN [size |-> h[b].size + h[n].size, is_free |-> TRUE,
                            next |-> h[n].next]
                      ELSE h[a]]
  BY DEF Absorb
<1>3. IsHeap(s)
  BY <1>1, <1>2 DEF IsHeap, Header
<1>4. /\ DOMAIN s = DOMAIN h \ {n}
      /\ s[b].size = h[b].size + h[n].size /\ s[b].next = h[n].next
      /\ \A a \in DOMAIN s \ {b} : s[a] = h[a]
  <2>1. b # n /\ b \in DOMAIN h
    BY <1>1 DEF IsHeap
  <2>2. DOMAIN s = DOMAIN h \ {n}
    BY <1>2
  <2>3. s[b] = [size |-> h[b].size + h[n].size, is_free |-> TRUE, next |-> h[n].next]
    BY <2>1, <1>2
  <2>4. QED
    BY <1>2, <2>2, <2>3
<1>5. Tiles(s)
  <2> HIDE DEF s
  <2>1. HEAP_START \in DOMAIN s
    BY <1>1, <1>4, HeapAssumption DEF Tiles, IsHeap
  <2>2. ASSUME NEW a \in DOMAIN s
        PROVE  /\ HEAP_START <= a
               /\ s[a].size >= BLOCK_HEADER_SIZE
               /\ \/ a + s[a].size = HEAP_END /\ s[a].next = NULL
                  \/ /\ a + s[a].size < HEAP_END
                     /\ s[a].next = a + s[a].size
                     /\ s[a].next \in DOMAIN s
    <3>1. CASE a = b
      BY <3>1, <1>1, <1>4, HeapAssumption
         DEF Tiles, IsHeap, Header, BLOCK_HEADER_SIZE, NULL, HEAP_END
    <3>2. CASE a # b
      <4>1. h[a].next # n
        <5>1. a \in DOMAIN h /\ a \in Nat /\ b \in Nat /\ n \in Nat
          BY <1>1, <1>4 DEF IsHeap
        <5>2. (a < b => a + h[a].size <= b) /\ (b < a => n <= a)
          BY <5>1, <1>1 DEF Tiles
        <5>3. QED
          BY <5>1, <5>2, <3>2, <1>1, BlockFacts, HeapAssumption DEF NULL, HEAP_END
      <4>2. QED
        BY <3>2, <4>1, <1>4 DEF Tiles
    <3>3. QED
      BY <3>1, <3>2
  <2>3. ASSUME NEW a \in DOMAIN s, NEW c \in DOMAIN s, a < c
        PROVE  a + s[a].size <= c
    <3>1. CASE a = b
      <4>1. c > n
        <5>1. c \in DOMAIN h /\ c \in Nat /\ n \in Nat /\ c # n
          BY <1>1, <1>4 DEF IsHeap
        <5>2. n <= c
          BY <5>1, <2>3, <3>1, <1>1 DEF Tiles
        <5>3. QED
          BY <5>1, <5>2
      <4>2. n + h[n].size <= c
        BY <4>1, <1>1, <1>4 DEF Tiles
      <4>3. QED
        BY <4>2, <3>1, <1>1, <1>4, BlockFacts
    <3>2. CASE a # b
      BY <2>3, <3>2, <1>4 DEF Tiles
    <3>3. QED
      BY <3>1, <3>2
  <2>4. QED
    BY <2>1, <2>2, <2>3 DEF Tiles
<1>6. QED
  BY <1>3, <1>5

\* What Absorb leaves where.
LEMMA AbsorbShape ==
  ASSUME NEW h, IsHeap(h), Tiles(h), NEW b \in DOMAIN h, h[b].next # NULL
  PROVE  LET n == h[b].next
             s == Absorb(h, b)
         IN  /\ n \in DOMAIN h /\ n = b + h[b].size /\ n > b
             /\ DOMAIN s = DOMAIN h \ {n}
             /\ b \in DOMAIN s /\ s[b].is_free /\ s[b].next = h[n].next
             /\ \A a \in DOMAIN s \ {b} : s[a] = h[a]
<1> DEFINE n == h[b].next
           s == Absorb(h, b)
<1>1. n \in DOMAIN h /\ n = b + h[b].size /\ n > b /\ b # n
  BY BlockFacts DEF NULL
<1>2. s = [a \in DOMAIN h \ {n} |->
             IF a = b THEN [size |-> h[b].size + h[n].size, is_free |-> TRUE,
                            next |-> h[n].next]
                      ELSE h[a]]
  BY DEF Absorb
<1>3. s[b] = [size |-> h[b].size + h[n].size, is_free |-> TRUE, next |-> h[n].next]
  BY <1>1, <1>2
<1>4. QED
  BY <1>1, <1>2, <1>3

\* Setting is_free of one block keeps the tiling.
LEMMA MarkTiles ==
  ASSUME NEW h, IsHeap(h), Tiles(h), NEW b \in DOMAIN h, NEW f \in BOOLEAN
  PROVE  LET s == [h EXCEPT ![b].is_free = f]
         IN  /\ IsHeap(s) /\ Tiles(s)
             /\ DOMAIN s = DOMAIN h
             /\ s[b].is_free = f /\ s[b].size = h[b].size /\ s[b].next = h[b].next
             /\ \A a \in DOMAIN h \ {b} : s[a] = h[a]
<1> DEFINE s == [h EXCEPT ![b].is_free = f]
<1>1. h \in [DOMAIN h -> Header] /\ h[b] \in Header
  BY DEF IsHeap
<1>2. /\ DOMAIN s = DOMAIN h
      /\ s[b].is_free = f /\ s[b].size = h[b].size /\ s[b].next = h[b].next
      /\ \A a \in DOMAIN h \ {b} : s[a] = h[a]
  BY <1>1 DEF Header
<1>3. IsHeap(s)
  BY <1>1 DEF IsHeap, Header
<1>4. \A a \in DOMAIN h : s[a].size = h[a].size /\ s[a].next = h[a].next
  BY <1>2
<1>5. Tiles(s)
  <2> HIDE DEF s
  <2>1. QED
    BY <1>2, <1>4 DEF Tiles
<1>6. QED
  BY <1>2, <1>3, <1>5

NoneMergeable(h) == \A a \in DOMAIN h : ~Mergeable(h, a)

\* merge_free_blocks on a list whose only free neighbours are around b: the
\* result tiles, has no free neighbours, and every allocated block is as it was.
LEMMA MergeResult ==
  ASSUME NEW h, IsHeap(h), Tiles(h), NEW b \in DOMAIN h, h[b].is_free,
         \A a \in DOMAIN h : Mergeable(h, a) => a = b \/ h[a].next = b
  PROVE  LET s == merge_free_blocks(h, b)
         IN  /\ IsHeap(s) /\ Tiles(s) /\ NoneMergeable(s)
             /\ \A a \in DOMAIN h : ~h[a].is_free => a \in DOMAIN s /\ s[a] = h[a]
<1> DEFINE h1   == IF Mergeable(h, b) THEN Absorb(h, b) ELSE h
           pred == {p \in DOMAIN h1 : h1[p].is_free /\ h1[p].next = b}
           s    == merge_free_blocks(h, b)
<1> SUFFICES /\ IsHeap(s) /\ Tiles(s) /\ NoneMergeable(s)
             /\ \A a \in DOMAIN h : ~h[a].is_free => a \in DOMAIN s /\ s[a] = h[a]
  OBVIOUS
<1>1. s = IF pred # {} THEN Absorb(h1, CHOOSE p \in pred : TRUE) ELSE h1
  BY DEF merge_free_blocks
<1>2. /\ IsHeap(h1) /\ Tiles(h1)
      /\ b \in DOMAIN h1 /\ h1[b].is_free /\ ~Mergeable(h1, b)
      /\ \A a \in DOMAIN h1 : Mergeable(h1, a) => h1[a].next = b
      /\ \A a \in DOMAIN h : ~h[a].is_free => a \in DOMAIN h1 /\ h1[a] = h[a]
  <2>1. CASE Mergeable(h, b)
    <3> DEFINE n == h[b].next
    <3>1. h1 = Absorb(h, b) /\ h[n].is_free /\ n # NULL
      BY <2>1 DEF Mergeable
    <3> HIDE DEF h1
    <3>2. IsHeap(h1) /\ Tiles(h1)
      BY <3>1, AbsorbTiles
    <3>3. /\ n \in DOMAIN h /\ n = b + h[b].size /\ n > b
          /\ DOMAIN h1 = DOMAIN h \ {n}
          /\ b \in DOMAIN h1 /\ h1[b].is_free /\ h1[b].next = h[n].next
          /\ \A a \in DOMAIN h1 \ {b} : h1[a] = h[a]
      <4> HIDE DEF s, pred
      <4>1. h[b].next # NULL
        BY <3>1
      <4> DEFINE t == Absorb(h, b)
      <4>2. /\ n \in DOMAIN h /\ n = b + h[b].size /\ n > b
            /\ DOMAIN t = DOMAIN h \ {n}
            /\ b \in DOMAIN t /\ t[b].is_free /\ t[b].next = h[n].next
            /\ \A a \in DOMAIN t \ {b} : t[a] = h[a]
        BY ONLY <4>1, IsHeap(h), Tiles(h), b \in DOMAIN h, AbsorbShape, SMTT(30)
      <4>3. h1 = t
        BY <3>1
      <4> HIDE DEF t, n
      <4>4. QED
        BY <4>2, <4>3
    <3>4. ~Mergeable(h1, b)
      <4> SUFFICES ASSUME Mergeable(h1, b) PROVE FALSE
        OBVIOUS
      <4> DEFINE m == h[n].next
      <4>1. m # NULL /\ h1[m].is_free
        BY <3>3 DEF Mergeable
      <4>2. m \in DOMAIN h /\ m > n /\ m # b
        BY <4>1, <3>3, BlockFacts DEF NULL
      <4>3. m \in DOMAIN h1 \ {b}
        BY <4>2, <3>3 DEF IsHeap
      <4>4. Mergeable(h, n)
        BY <4>1, <4>3, <3>1, <3>3 DEF Mergeable
      <4>5. n = b \/ m = b
        BY <4>4, <3>3
      <4>6. QED
        BY <4>2, <4>5, <3>3 DEF IsHeap
    <3>5. ASSUME NEW a \in DOMAIN h1, Mergeable(h1, a)
          PROVE  h1[a].next = b
      <4>1. a # b /\ h1[a] = h[a] /\ a \in DOMAIN h
        BY <3>3, <3>4, <3>5
      <4>2. CASE h[a].next = b
        BY <4>1, <4>2
      <4>3. CASE h[a].next # b
        <5>1. h[a].next \in DOMAIN h1 \ {b}
          BY <4>1, <4>3, <3>2, <3>5, BlockFacts DEF Mergeable, NULL
        <5>2. Mergeable(h, a)
          BY <5>1, <4>1, <3>3, <3>5 DEF Mergeable
        <5>3. QED
          BY <5>2, <4>1, <4>3
      <4>4. QED
        BY <4>2, <4>3
    <3>6. QED
      BY <3>1, <3>2, <3>3, <3>4, <3>5
  <2>2. CASE ~Mergeable(h, b)
    BY <2>2
  <2>3. QED
    BY <2>1, <2>2
<1> HIDE DEF h1
<1>3. CASE pred = {}
  BY <1>1, <1>2, <1>3 DEF NoneMergeable, Mergeable
<1>4. CASE pred # {}
  <2>1. PICK p \in pred : s = Absorb(h1, p)
    BY <1>1, <1>4
  <2> HIDE DEF s
  <2>2. p \in DOMAIN h1 /\ h1[p].is_free /\ h1[p].next = b /\ b # NULL
    BY <2>1, <1>2, BlockFacts, HeapAssumption DEF NULL
  <2>3. IsHeap(s) /\ Tiles(s)
    BY <2>1, <2>2, <1>2, AbsorbTiles
  <2>4. /\ b > p
        /\ DOMAIN s = DOMAIN h1 \ {b}
        /\ p \in DOMAIN s /\ s[p].is_free /\ s[p].next = h1[b].next
        /\ \A a \in DOMAIN s \ {p} : s[a] = h1[a]
    BY <2>1, <2>2, <1>2, AbsorbShape
  <2>5. ASSUME NEW a \in DOMAIN s, Mergeable(s, a)
        PROVE  FALSE
    <3> DEFINE k == s[a].next
    <3>1. k \in DOMAIN s /\ s[k].is_free /\ k # NULL /\ k # b /\ k > a
      BY <2>3, <2>4, <2>5, BlockFacts DEF Mergeable, NULL
    <3>2. h1[k].is_free
      BY <3>1, <2>2, <2>4
    <3>3. CASE a = p
      BY <3>1, <3>2, <3>3, <2>4, <1>2 DEF Mergeable
    <3>4. CASE a # p
      BY <3>1, <3>2, <3>4, <2>4, <2>5, <1>2 DEF Mergeable
    <3>5. QED
      BY <3>3, <3>4
  <2>6. QED
    BY <2>2, <2>3, <2>4, <2>5, <1>2 DEF NoneMergeable
<1>5. QED
  BY <1>3, <1>4

-----------------------------------------------------------------------------
\* One successful call of kmalloc: the list stays well formed, the chosen block
\* is allocated and large enough, and no other block changes.
LEMMA AllocateStep ==
  ASSUME IsHeap(heap), Tiling, NoAdjacentFree,
         NEW n \in Nat, NEW b \in DOMAIN heap, NEW ptr, NEW size,
         Allocate(n, b, ptr, size)
  PROVE  /\ heap[b].is_free
         /\ IsHeap(heap') /\ Tiles(heap') /\ NoneMergeable(heap')
         /\ b \in DOMAIN heap' /\ ~heap'[b].is_free
         /\ heap'[b].size >= n + BLOCK_HEADER_SIZE
         /\ \A c \in DOMAIN heap \ {b} : c \in DOMAIN heap' /\ heap'[c] = heap[c]
<1> DEFINE total == Align4(n) + BLOCK_HEADER_SIZE
           s     == split_block(heap, b, total)
<1>1. /\ heap[b].is_free /\ heap[b].size >= total
      /\ heap' = [s EXCEPT ![b].is_free = FALSE]
  BY DEF Allocate, find_free_block, Fits
<1>2. total \in Nat /\ total >= n + BLOCK_HEADER_SIZE /\ total >= BLOCK_HEADER_SIZE
  BY Align4Bounds DEF BLOCK_HEADER_SIZE
<1>3. Tiles(heap) /\ heap[b].size \in Nat
  BY BlockFacts DEF Tiling
<1> HIDE DEF total
<1>4. /\ IsHeap(s) /\ Tiles(s)
      /\ DOMAIN heap \subseteq DOMAIN s
      /\ total <= s[b].size
      /\ \A a \in DOMAIN heap \ {b} : s[a] = heap[a]
      /\ \A a \in DOMAIN s \ DOMAIN heap : s[a].is_free /\ s[a].next = heap[b].next
  BY <1>1, <1>2, <1>3, SplitTiles
<1> HIDE DEF s
<1>5. /\ IsHeap(heap') /\ Tiles(heap')
      /\ DOMAIN heap' = DOMAIN s
      /\ heap'[b].is_free = FALSE /\ heap'[b].size = s[b].size
      /\ \A a \in DOMAIN s \ {b} : heap'[a] = s[a]
  BY <1>1, <1>4, MarkTiles
<1>6. heap'[b].size >= n + BLOCK_HEADER_SIZE
  <2>1. s[b].size \in Nat
    BY <1>4, BlockFacts
  <2>2. QED
    BY <2>1, <1>2, <1>4, <1>5 DEF BLOCK_HEADER_SIZE
<1>7. ASSUME NEW a \in DOMAIN heap', Mergeable(heap', a)
      PROVE  FALSE
  <2> DEFINE k == heap'[a].next
  <2>1. a # b /\ k # b /\ heap'[a].is_free /\ heap'[k].is_free /\ k # NULL
    BY <1>5, <1>7 DEF Mergeable
  <2>2. CASE a \in DOMAIN heap
    <3>1. heap'[a] = heap[a] /\ k \in DOMAIN heap
      BY <2>1, <2>2, <1>3, <1>4, <1>5, BlockFacts DEF NULL
    <3>2. heap'[k] = heap[k]
      BY <2>1, <3>1, <1>4, <1>5
    <3>3. QED
      BY <2>1, <2>2, <3>1, <3>2 DEF NoAdjacentFree, Mergeable
  <2>3. CASE a \notin DOMAIN heap
    <3>1. k = heap[b].next
      BY <2>1, <2>3, <1>4, <1>5
    <3>2. k \in DOMAIN heap
      BY <2>1, <3>1, <1>3, BlockFacts DEF NULL
    <3>3. heap'[k] = heap[k]
      BY <2>1, <3>2, <1>4, <1>5
    <3>4. QED
      BY <1>1, <2>1, <3>1, <3>3 DEF NoAdjacentFree, Mergeable
  <2>4. QED
    BY <2>2, <2>3
<1>8. QED
  BY <1>1, <1>4, <1>5, <1>6, <1>7 DEF NoneMergeable

\* One call of kfree, on any address: the list stays well formed and every
\* other allocated block is as it was.
LEMMA FreeStep ==
  ASSUME IsHeap(heap), Tiling, NoAdjacentFree, NEW hdr, FreeAt(hdr)
  PROVE  /\ IsHeap(heap') /\ Tiles(heap') /\ NoneMergeable(heap')
         /\ \A c \in DOMAIN heap \ {hdr} :
              ~heap[c].is_free => c \in DOMAIN heap' /\ heap'[c] = heap[c]
<1>1. CASE heap' = heap
  BY <1>1 DEF Tiling, NoAdjacentFree, NoneMergeable
<1>2. CASE /\ hdr \in DOMAIN heap
           /\ heap' = merge_free_blocks([heap EXCEPT ![hdr].is_free = TRUE], hdr)
  <2> DEFINE h == [heap EXCEPT ![hdr].is_free = TRUE]
  <2>1. /\ IsHeap(h) /\ Tiles(h)
        /\ DOMAIN h = DOMAIN heap
        /\ h[hdr].is_free = TRUE /\ h[hdr].next = heap[hdr].next
        /\ \A a \in DOMAIN heap \ {hdr} : h[a] = heap[a]
    BY <1>2, MarkTiles DEF Tiling
  <2>2. heap' = merge_free_blocks(h, hdr)
    BY <1>2
  <2> HIDE DEF h
  <2>3. ASSUME NEW a \in DOMAIN h, Mergeable(h, a), a # hdr, h[a].next # hdr
        PROVE  FALSE
    <3>1. h[a].next \in DOMAIN h
      BY <2>1, <2>3, BlockFacts DEF Mergeable, NULL
    <3>2. QED
      BY <3>1, <2>1, <2>3 DEF Mergeable, NoAdjacentFree
  <2>4. /\ IsHeap(heap') /\ Tiles(heap') /\ NoneMergeable(heap')
        /\ \A a \in DOMAIN h : ~h[a].is_free => a \in DOMAIN heap' /\ heap'[a] = h[a]
    <3>1. \A a \in DOMAIN h : Mergeable(h, a) => a = hdr \/ h[a].next = hdr
      BY <2>3
    <3>2. hdr \in DOMAIN h /\ h[hdr].is_free
      BY <1>2, <2>1
    <3>3. QED
      BY ONLY <2>1, <2>2, <3>1, <3>2, MergeResult
  <2>5. QED
    BY <2>1, <2>4
<1>3. QED
  BY <1>1, <1>2 DEF FreeAt

-----------------------------------------------------------------------------
\* The inductive invariant of the block list: it needs nothing of the callers.
ListInv == TypeOK /\ Tiling /\ NoAdjacentFree

LEMMA ListInvInit == Init => ListInv
<1> SUFFICES ASSUME Init PROVE ListInv
  OBVIOUS
<1> DEFINE hdr == [size |-> HEAP_SIZE, is_free |-> TRUE, next |-> NULL]
<1>1. heap = [b \in {HEAP_START} |-> hdr] /\ HEAP_SIZE \in Nat /\ HEAP_START \in Nat
  BY HeapAssumption DEF Init
<1>2. DOMAIN heap = {HEAP_START} /\ heap[HEAP_START] = hdr /\ hdr \in Header
  BY <1>1 DEF Header, NULL
<1>3. TypeOK
  <2>1. IsHeap(heap)
    BY <1>1, <1>2 DEF IsHeap
  <2>2. 0 \in Nat /\ 0 \in 0..MaxAllocations
    BY HeapAssumption
  <2>3. /\ owned = {} /\ freed = {} /\ panicked = FALSE
        /\ total_allocated = 0 /\ total_freed = 0 /\ num_allocations = 0
    BY DEF Init
  <2>4. QED
    BY <2>1, <2>2, <2>3, Zenon DEF TypeOK
<1>4. Tiling
  <2>1. /\ HEAP_START <= HEAP_START /\ hdr.size >= BLOCK_HEADER_SIZE
        /\ HEAP_START + hdr.size = HEAP_END /\ hdr.next = NULL /\ ~(HEAP_START < HEAP_START)
    BY HeapAssumption DEF HEAP_END, BLOCK_HEADER_SIZE
  <2> HIDE DEF hdr
  <2>2. QED
    BY <1>2, <2>1 DEF Tiling, Tiles
<1>5. NoAdjacentFree
  BY <1>2 DEF NoAdjacentFree, Mergeable
<1>6. QED
  BY <1>3, <1>4, <1>5 DEF ListInv

LEMMA AllocateKeepsList ==
  ASSUME ListInv, num_allocations < MaxAllocations,
         NEW n \in Nat, NEW b \in DOMAIN heap, NEW ptr \in Nat, NEW size \in Nat,
         Allocate(n, b, ptr, size)
  PROVE  ListInv'
<1>1. /\ IsHeap(heap') /\ Tiles(heap') /\ NoneMergeable(heap')
  BY AllocateStep DEF ListInv, TypeOK
<1>2. TypeOK'
  <2>1. b \in Nat /\ Align4(n) \in Nat
    BY Align4Bounds DEF ListInv, TypeOK, IsHeap
  <2>2. QED
    BY <1>1, <2>1, HeapAssumption DEF ListInv, TypeOK, Allocate
<1>3. QED
  BY <1>1, <1>2 DEF ListInv, Tiling, NoAdjacentFree, NoneMergeable

LEMMA FreeKeepsList ==
  ASSUME ListInv, NEW hdr, FreeAt(hdr),
         owned' \subseteq owned, freed' \subseteq Nat
  PROVE  ListInv'
<1>1. /\ IsHeap(heap') /\ Tiles(heap') /\ NoneMergeable(heap')
  BY FreeStep DEF ListInv, TypeOK
<1>2. hdr \in DOMAIN heap => heap[hdr].size - BLOCK_HEADER_SIZE \in Nat
  BY BlockFacts DEF ListInv, TypeOK, Tiling, BLOCK_HEADER_SIZE
<1>3. /\ total_allocated' \in Nat /\ total_freed' \in Nat
      /\ num_allocations' \in 0..MaxAllocations /\ panicked' \in BOOLEAN
  <2>1. /\ total_allocated \in Nat /\ total_freed \in Nat
        /\ num_allocations \in 0..MaxAllocations /\ panicked \in BOOLEAN
    BY DEF ListInv, TypeOK
  <2>2. /\ total_allocated' = total_allocated /\ num_allocations' = num_allocations
        /\ \/ total_freed' = total_freed
           \/ /\ hdr \in DOMAIN heap
              /\ total_freed' = total_freed + (heap[hdr].size - BLOCK_HEADER_SIZE)
        /\ panicked' = panicked \/ panicked' = TRUE
    BY DEF FreeAt, stats
  <2>3. total_freed' \in Nat
    BY <1>2, <2>1, <2>2
  <2>4. panicked' \in BOOLEAN
    BY <2>1, <2>2
  <2>5. QED
    BY <2>1, <2>2, <2>3, <2>4
<1>4. TypeOK'
  BY <1>1, <1>3 DEF ListInv, TypeOK
<1>5. QED
  BY <1>1, <1>4 DEF ListInv, Tiling, NoAdjacentFree, NoneMergeable

\* The pointer kmalloc_aligned returns is a natural number.
LEMMA AlignedPointer ==
  ASSUME NEW b \in Nat, NEW align \in Alignments
  PROVE  /\ RoundUp(b + BLOCK_HEADER_SIZE, align) \in Nat
         /\ b + BLOCK_HEADER_SIZE <= RoundUp(b + BLOCK_HEADER_SIZE, align)
         /\ RoundUp(b + BLOCK_HEADER_SIZE, align) <= b + BLOCK_HEADER_SIZE + align - 1
<1>1. b + BLOCK_HEADER_SIZE \in Nat /\ align \in Nat \ {0}
  BY HeapAssumption DEF BLOCK_HEADER_SIZE
<1>2. QED
  BY <1>1, RoundUpBounds

LEMMA ListInvStep == ListInv /\ [NextAgain]_vars => ListInv'
<1> SUFFICES ASSUME ListInv, [NextAgain]_vars PROVE ListInv'
  OBVIOUS
<1>1. CASE UNCHANGED vars
  BY <1>1 DEF ListInv, TypeOK, Tiling, NoAdjacentFree, vars, stats
<1>2. ASSUME NEW n \in Requests, kmalloc(n)
      PROVE  ListInv'
  <2>1. CASE ReturnsNull(n)
    BY <2>1, <1>1 DEF ReturnsNull
  <2>2. ASSUME NEW b \in DOMAIN heap, Allocate(n, b, b + BLOCK_HEADER_SIZE, n)
        PROVE  ListInv'
    <3>1. n \in Nat /\ b + BLOCK_HEADER_SIZE \in Nat
      BY HeapAssumption DEF ListInv, TypeOK, IsHeap, BLOCK_HEADER_SIZE
    <3>2. QED
      BY <3>1, <1>2, <2>2, AllocateKeepsList DEF kmalloc
  <2>3. QED
    BY <1>2, <2>1, <2>2 DEF kmalloc
<1>3. ASSUME NEW n \in Requests, NEW align \in Alignments, kmalloc_aligned(n, align)
      PROVE  ListInv'
  <2>1. CASE ReturnsNull(n + align)
    BY <2>1, <1>1 DEF ReturnsNull
  <2>2. ASSUME NEW b \in DOMAIN heap,
               Allocate(n + align, b, RoundUp(b + BLOCK_HEADER_SIZE, align), n)
        PROVE  ListInv'
    <3>1. n \in Nat /\ n + align \in Nat /\ b \in Nat
      BY HeapAssumption DEF ListInv, TypeOK, IsHeap
    <3>2. RoundUp(b + BLOCK_HEADER_SIZE, align) \in Nat
      BY <3>1, AlignedPointer
    <3>3. QED
      BY <3>1, <3>2, <1>3, <2>2, AllocateKeepsList DEF kmalloc_aligned
  <2>3. QED
    BY <1>3, <2>1, <2>2 DEF kmalloc_aligned
<1>4. ASSUME NEW a \in owned, kfree(a)
      PROVE  ListInv'
  <2>1. owned' \subseteq owned /\ freed' \subseteq Nat
    BY <1>4 DEF kfree, ListInv, TypeOK
  <2>2. QED
    BY <1>4, <2>1, FreeKeepsList DEF kfree
<1>5. ASSUME NEW p \in freed, kfree_again(p)
      PROVE  ListInv'
  <2>1. owned' \subseteq owned /\ freed' \subseteq Nat
    BY <1>5 DEF kfree_again, ListInv, TypeOK
  <2>2. QED
    BY <1>5, <2>1, FreeKeepsList DEF kfree_again
<1>6. QED
  BY <1>1, <1>2, <1>3, <1>4, <1>5 DEF NextAgain, Next

\* Type correctness of kmalloc.c's state, even for callers that free twice.
THEOREM HeapTypeCorrect == SpecAgain => []TypeOK
<1>1. SpecAgain => []ListInv
  BY ListInvInit, ListInvStep, PTL DEF SpecAgain
<1>2. ListInv => TypeOK
  BY DEF ListInv
<1>3. QED
  BY <1>1, <1>2, PTL

\* The block list of kmalloc.c tiles the arena for good, whatever its callers
\* ask for and however often they free.
THEOREM HeapTiling == SpecAgain => []Tiling
<1>1. SpecAgain => []ListInv
  BY ListInvInit, ListInvStep, PTL DEF SpecAgain
<1>2. ListInv => Tiling
  BY DEF ListInv
<1>3. QED
  BY <1>1, <1>2, PTL

\* merge_free_blocks leaves no two free neighbours, ever.
THEOREM HeapNoAdjacentFree == SpecAgain => []NoAdjacentFree
<1>1. SpecAgain => []ListInv
  BY ListInvInit, ListInvStep, PTL DEF SpecAgain
<1>2. ListInv => NoAdjacentFree
  BY DEF ListInv
<1>3. QED
  BY <1>1, <1>2, PTL

-----------------------------------------------------------------------------
\* The inductive invariant for callers that free each pointer once.
HeapInv == ListInv /\ OwnersHoldBlocks

LEMMA AllocateKeepsOwners ==
  ASSUME HeapInv, NEW n \in Nat, NEW b \in DOMAIN heap,
         NEW ptr \in Nat, NEW size \in Nat, Allocate(n, b, ptr, size),
         b + BLOCK_HEADER_SIZE <= ptr,
         ptr < b + BLOCK_HEADER_SIZE + n, ptr + size <= b + BLOCK_HEADER_SIZE + n
  PROVE  /\ OwnersHoldBlocks'
         /\ \A c \in owned : c.blk # b
<1> DEFINE r == [blk |-> b, ptr |-> ptr, size |-> size]
<1>1. /\ heap[b].is_free
      /\ IsHeap(heap') /\ Tiles(heap')
      /\ b \in DOMAIN heap' /\ ~heap'[b].is_free
      /\ heap'[b].size >= n + BLOCK_HEADER_SIZE
      /\ \A c \in DOMAIN heap \ {b} : c \in DOMAIN heap' /\ heap'[c] = heap[c]
  BY AllocateStep DEF HeapInv, ListInv, TypeOK
<1>2. owned' = owned \cup {r}
  BY DEF Allocate
<1>3. /\ r.blk \in DOMAIN heap' /\ ~heap'[r.blk].is_free
      /\ r.blk + BLOCK_HEADER_SIZE <= r.ptr
      /\ r.ptr < r.blk + heap'[r.blk].size
      /\ r.ptr + r.size <= r.blk + heap'[r.blk].size
  <2>1. b \in Nat /\ heap'[b].size \in Nat
    BY <1>1, BlockFacts DEF IsHeap
  <2>2. QED
    BY <1>1, <2>1 DEF BLOCK_HEADER_SIZE
<1>4. ASSUME NEW c \in owned
      PROVE  /\ c.blk # b
             /\ c.blk \in DOMAIN heap' /\ heap'[c.blk] = heap[c.blk]
  BY <1>1 DEF HeapInv, OwnersHoldBlocks
<1>5. r.blk = b
  OBVIOUS
<1> HIDE DEF r
<1>6. QED
  BY <1>2, <1>3, <1>4, <1>5 DEF HeapInv, OwnersHoldBlocks

\* kfree finds no block of the list below an owner's pointer but the owner's.
LEMMA HeaderOfOwner ==
  ASSUME HeapInv, NEW a \in owned, a.ptr - BLOCK_HEADER_SIZE \in DOMAIN heap
  PROVE  a.ptr - BLOCK_HEADER_SIZE = a.blk
<1> DEFINE hdr == a.ptr - BLOCK_HEADER_SIZE
<1>1. /\ a.blk \in DOMAIN heap /\ hdr \in DOMAIN heap
      /\ a.blk + BLOCK_HEADER_SIZE <= a.ptr
      /\ a.ptr < a.blk + heap[a.blk].size
      /\ a.ptr \in Nat /\ a.blk \in Nat
  BY DEF HeapInv, OwnersHoldBlocks, ListInv, TypeOK
<1>2. heap[a.blk].size \in Nat
  BY <1>1, BlockFacts DEF HeapInv, ListInv, TypeOK, Tiling
<1>3. a.blk < hdr => a.blk + heap[a.blk].size <= hdr
  BY <1>1 DEF HeapInv, ListInv, Tiling, Tiles
<1>4. QED
  BY <1>1, <1>2, <1>3 DEF BLOCK_HEADER_SIZE

LEMMA FreeKeepsOwners ==
  ASSUME HeapInv, NEW a \in owned, kfree(a)
  PROVE  OwnersHoldBlocks'
<1> DEFINE hdr == a.ptr - BLOCK_HEADER_SIZE
<1>1. \A c \in DOMAIN heap \ {hdr} :
        ~heap[c].is_free => c \in DOMAIN heap' /\ heap'[c] = heap[c]
  BY FreeStep DEF kfree, HeapInv, ListInv, TypeOK
<1>2. owned' \subseteq owned
  BY DEF kfree
<1>3. ASSUME NEW c \in owned', c.blk = hdr
      PROVE  FALSE
  <2>1. hdr \in DOMAIN heap /\ ~heap[hdr].is_free
    BY <1>2, <1>3 DEF HeapInv, OwnersHoldBlocks
  <2>2. c = a
    BY <2>1, <1>2, <1>3, HeaderOfOwner DEF HeapInv, OwnersHoldBlocks
  <2>3. ~panicked /\ panicked' = panicked
    BY <2>1 DEF kfree, FreeAt
  <2>4. owned' = owned \ {a}
    BY <2>3 DEF kfree
  <2>5. QED
    BY <2>2, <2>4
<1>4. ASSUME NEW c \in owned'
      PROVE  c.blk \in DOMAIN heap' /\ heap'[c.blk] = heap[c.blk]
  BY <1>1, <1>2, <1>3 DEF HeapInv, OwnersHoldBlocks
<1>5. QED
  BY <1>2, <1>4 DEF HeapInv, OwnersHoldBlocks

\* A step of Next allocates, takes back, or leaves the callers as they are.
\* An allocation names the block, the pointer and what lies between them.
LEMMA StepKinds ==
  ASSUME HeapInv, [Next]_vars
  PROVE  \/ UNCHANGED vars
         \/ \E n \in Nat, b \in DOMAIN heap, ptr \in Nat, size \in Requests :
              /\ Allocate(n, b, ptr, size)
              /\ b + BLOCK_HEADER_SIZE <= ptr
              /\ ptr < b + BLOCK_HEADER_SIZE + n
              /\ ptr + size <= b + BLOCK_HEADER_SIZE + n
         \/ \E a \in owned : kfree(a)
<1>1. ASSUME NEW n \in Requests, NEW b \in DOMAIN heap, n # 0,
             Allocate(n, b, b + BLOCK_HEADER_SIZE, n)
      PROVE  /\ n \in Nat /\ b + BLOCK_HEADER_SIZE \in Nat
             /\ b + BLOCK_HEADER_SIZE < b + BLOCK_HEADER_SIZE + n
  BY <1>1, HeapAssumption DEF HeapInv, ListInv, TypeOK, IsHeap, BLOCK_HEADER_SIZE
<1>2. ASSUME NEW n \in Requests, NEW align \in Alignments, NEW b \in DOMAIN heap
      PROVE  LET ptr == RoundUp(b + BLOCK_HEADER_SIZE, align)
             IN  /\ n + align \in Nat /\ ptr \in Nat
                 /\ b + BLOCK_HEADER_SIZE <= ptr
                 /\ ptr < b + BLOCK_HEADER_SIZE + (n + align)
                 /\ ptr + n <= b + BLOCK_HEADER_SIZE + (n + align)
  <2>1. b \in Nat /\ n \in Nat /\ align \in Nat
    BY HeapAssumption DEF HeapInv, ListInv, TypeOK, IsHeap
  <2>2. QED
    BY <2>1, AlignedPointer DEF BLOCK_HEADER_SIZE
<1>3. ASSUME NEW n \in Requests, kmalloc(n), ~UNCHANGED vars
      PROVE  \E b \in DOMAIN heap : n # 0 /\ Allocate(n, b, b + BLOCK_HEADER_SIZE, n)
  BY <1>3 DEF kmalloc, ReturnsNull
<1>4. ASSUME NEW n \in Requests, NEW align \in Alignments,
             kmalloc_aligned(n, align), ~UNCHANGED vars
      PROVE  \E b \in DOMAIN heap :
               Allocate(n + align, b, RoundUp(b + BLOCK_HEADER_SIZE, align), n)
  BY <1>4 DEF kmalloc_aligned, ReturnsNull
<1>5. CASE \E n \in Requests : kmalloc(n)
  <2>1. PICK n \in Requests : kmalloc(n)
    BY <1>5
  <2>2. CASE UNCHANGED vars
    BY <2>2
  <2>3. CASE ~UNCHANGED vars
    <3>1. PICK b \in DOMAIN heap : n # 0 /\ Allocate(n, b, b + BLOCK_HEADER_SIZE, n)
      BY <2>1, <2>3, <1>3
    <3>2. b + BLOCK_HEADER_SIZE <= b + BLOCK_HEADER_SIZE
      BY <1>1, <3>1
    <3>3. QED
      BY <1>1, <3>1, <3>2
  <2>4. QED
    BY <2>2, <2>3
<1>6. CASE \E n \in Requests, align \in Alignments : kmalloc_aligned(n, align)
  <2>1. PICK n \in Requests, align \in Alignments : kmalloc_aligned(n, align)
    BY <1>6
  <2>2. CASE UNCHANGED vars
    BY <2>2
  <2>3. CASE ~UNCHANGED vars
    <3>1. PICK b \in DOMAIN heap :
            Allocate(n + align, b, RoundUp(b + BLOCK_HEADER_SIZE, align), n)
      BY <2>1, <2>3, <1>4
    <3>2. QED
      BY <1>2, <3>1
  <2>4. QED
    BY <2>2, <2>3
<1>7. QED
  BY <1>5, <1>6 DEF Next

LEMMA HeapInvStep == HeapInv /\ [Next]_vars => HeapInv'
<1> SUFFICES ASSUME HeapInv, [Next]_vars PROVE HeapInv'
  OBVIOUS
<1>1. ListInv'
  BY ListInvStep DEF HeapInv, NextAgain
<1>2. CASE UNCHANGED vars
  BY <1>1, <1>2 DEF HeapInv, OwnersHoldBlocks, vars
<1>3. CASE \E n \in Nat, b \in DOMAIN heap, ptr \in Nat, size \in Requests :
              /\ Allocate(n, b, ptr, size)
              /\ b + BLOCK_HEADER_SIZE <= ptr
              /\ ptr < b + BLOCK_HEADER_SIZE + n
              /\ ptr + size <= b + BLOCK_HEADER_SIZE + n
  <2>1. Requests \subseteq Nat
    BY HeapAssumption
  <2>2. QED
    BY <1>1, <1>3, <2>1, AllocateKeepsOwners DEF HeapInv
<1>4. CASE \E a \in owned : kfree(a)
  BY <1>1, <1>4, FreeKeepsOwners DEF HeapInv
<1>5. QED
  BY <1>2, <1>3, <1>4, StepKinds

LEMMA HeapInvInit == Init => HeapInv
BY ListInvInit DEF HeapInv, Init, OwnersHoldBlocks

\* Memory in one block is apart from memory in another.
LEMMA BlocksApart ==
  ASSUME HeapInv, NEW b \in DOMAIN heap, NEW c \in DOMAIN heap, b # c
  PROVE  b + heap[b].size <= c \/ c + heap[c].size <= b
<1>1. b \in Nat /\ c \in Nat /\ (b < c \/ c < b)
  BY DEF HeapInv, ListInv, TypeOK, IsHeap
<1>2. QED
  BY <1>1 DEF HeapInv, ListInv, Tiling, Tiles

\* The state of a block an owner holds, as numbers.
LEMMA OwnerFacts ==
  ASSUME HeapInv, NEW a \in owned
  PROVE  /\ a.blk \in DOMAIN heap /\ ~heap[a.blk].is_free
         /\ a.blk \in Nat /\ a.ptr \in Nat /\ a.size \in Nat
         /\ heap[a.blk].size \in Nat
         /\ HEAP_START <= a.blk /\ a.blk + heap[a.blk].size <= HEAP_END
         /\ a.blk + 16 <= a.ptr /\ a.ptr < a.blk + heap[a.blk].size
         /\ a.ptr + a.size <= a.blk + heap[a.blk].size
<1>1. /\ a.blk \in DOMAIN heap /\ ~heap[a.blk].is_free
      /\ a.blk \in Nat /\ a.ptr \in Nat /\ a.size \in Nat
      /\ a.blk + 16 <= a.ptr /\ a.ptr < a.blk + heap[a.blk].size
      /\ a.ptr + a.size <= a.blk + heap[a.blk].size
  BY DEF HeapInv, OwnersHoldBlocks, ListInv, TypeOK, BLOCK_HEADER_SIZE
<1>2. QED
  BY <1>1, BlockFacts DEF HeapInv, ListInv, TypeOK, Tiling

LEMMA OwnersApart ==
  ASSUME HeapInv, NEW a \in owned, NEW c \in owned, a # c
  PROVE  /\ a.ptr + a.size <= c.ptr \/ c.ptr + c.size <= a.ptr
         /\ a.ptr # c.ptr
<1>1. a.blk # c.blk
  BY DEF HeapInv, OwnersHoldBlocks
<1>2. \/ a.blk + heap[a.blk].size <= c.blk
      \/ c.blk + heap[c.blk].size <= a.blk
  BY <1>1, OwnerFacts, BlocksApart
<1>3. QED
  BY <1>2, OwnerFacts

LEMMA HeapInvSafe == HeapInv => LiveMemorySafe
<1> SUFFICES ASSUME HeapInv, NEW a \in owned
             PROVE  /\ HEAP_START <= a.ptr /\ a.ptr + a.size <= HEAP_END
                    /\ \A b \in DOMAIN heap :
                         /\ b + 16 <= a.ptr \/ a.ptr + a.size <= b
                         /\ heap[b].is_free => \/ b + heap[b].size <= a.ptr
                                               \/ a.ptr + a.size <= b
                    /\ \A c \in owned \ {a} :
                         c.ptr + c.size <= a.ptr \/ a.ptr + a.size <= c.ptr
  BY DEF LiveMemorySafe, BLOCK_HEADER_SIZE
<1>1. HEAP_START <= a.ptr /\ a.ptr + a.size <= HEAP_END
  BY OwnerFacts, HeapAssumption DEF HEAP_END
<1>2. ASSUME NEW b \in DOMAIN heap
      PROVE  /\ b + 16 <= a.ptr \/ a.ptr + a.size <= b
             /\ heap[b].is_free => \/ b + heap[b].size <= a.ptr
                                   \/ a.ptr + a.size <= b
  <2>1. CASE b = a.blk
    BY <2>1, OwnerFacts
  <2>2. CASE b # a.blk
    <3>1. b \in Nat /\ heap[b].size \in Nat /\ heap[b].size >= 16
      BY BlockFacts DEF HeapInv, ListInv, TypeOK, Tiling
    <3>2. b + heap[b].size <= a.blk \/ a.blk + heap[a.blk].size <= b
      BY <2>2, OwnerFacts, BlocksApart
    <3>3. QED
      BY <3>1, <3>2, OwnerFacts
  <2>3. QED
    BY <2>1, <2>2
<1>3. \A c \in owned \ {a} : c.ptr + c.size <= a.ptr \/ a.ptr + a.size <= c.ptr
  BY OwnersApart
<1>4. QED
  BY <1>1, <1>2, <1>3

LEMMA HeapInvAlways == Spec => []HeapInv
BY HeapInvInit, HeapInvStep, PTL DEF Spec

\* Every owner keeps the block it was given, to itself (callers free once).
THEOREM HeapOwners == Spec => []OwnersHoldBlocks
<1>1. HeapInv => OwnersHoldBlocks
  BY DEF HeapInv
<1>2. QED
  BY <1>1, HeapInvAlways, PTL

\* Memory handed out by kmalloc and kmalloc_aligned stays in the arena and
\* overlaps no header, no free block and no other owner's memory.
THEOREM HeapLiveMemorySafe == Spec => []LiveMemorySafe
BY HeapInvSafe, HeapInvAlways, PTL

-----------------------------------------------------------------------------
Live == {[ptr |-> a.ptr, size |-> a.size] : a \in owned}

\* Every step of kmalloc.c is a step of the abstract allocator, or none.
LEMMA HeapStepRefines == HeapInv /\ HeapInv' /\ [Next]_vars => [A!Next]_Live
<1> SUFFICES ASSUME HeapInv, HeapInv', [Next]_vars PROVE [A!Next]_Live
  OBVIOUS
<1>1. CASE UNCHANGED vars
  BY <1>1 DEF vars, Live
<1>2. ASSUME NEW n \in Nat, NEW b \in DOMAIN heap, NEW ptr \in Nat, NEW size \in Requests,
             Allocate(n, b, ptr, size),
             b + BLOCK_HEADER_SIZE <= ptr, ptr < b + BLOCK_HEADER_SIZE + n,
             ptr + size <= b + BLOCK_HEADER_SIZE + n
      PROVE  A!Next
  <2> DEFINE r == [blk |-> b, ptr |-> ptr, size |-> size]
             x == [ptr |-> ptr, size |-> size]
  <2>1. owned' = owned \cup {r} /\ r \in owned' /\ size \in Nat
    BY <1>2, HeapAssumption DEF Allocate
  <2>2. Live' = Live \cup {x}
    <3>1. [ptr |-> r.ptr, size |-> r.size] = x
      OBVIOUS
    <3> HIDE DEF r, x
    <3>2. QED
      BY <2>1, <3>1 DEF Live
  <2>3. \A c \in owned : c # r
    BY <1>2, <2>1, AllocateKeepsOwners
  <2>4. /\ HEAP_START <= ptr /\ ptr + size <= HEAP_END
        /\ \A c \in owned : ptr + size <= c.ptr \/ c.ptr + c.size <= ptr
    <3>1. LiveMemorySafe'
      BY HeapInvSafe, PTL
    <3>2. QED
      BY <2>1, <2>3, <3>1 DEF LiveMemorySafe
  <2>5. \A c \in Live : A!Disjoint(x, c)
    BY <2>4 DEF Live, A!Disjoint
  <2>6. A!Give(x)
    BY <2>2, <2>4, <2>5 DEF A!Give, Live
  <2>7. ptr \in HEAP_START..HEAP_END
    BY <2>1, <2>4, HeapAssumption DEF HEAP_END
  <2>8. QED
    BY <2>6, <2>7 DEF A!Next
<1>3. ASSUME NEW a \in owned, kfree(a)
      PROVE  A!Next \/ Live' = Live
  <2>1. CASE owned' = owned
    BY <2>1 DEF Live
  <2>2. CASE owned' = owned \ {a}
    <3> DEFINE x == [ptr |-> a.ptr, size |-> a.size]
    <3>1. \A c \in owned \ {a} : c.ptr # a.ptr
      BY OwnersApart
    <3>2. x \in Live /\ Live' = Live \ {x}
      BY <2>2, <3>1 DEF Live
    <3>3. QED
      BY <3>2 DEF A!Next, A!TakeBack, Live
  <2>3. QED
    BY <1>3, <2>1, <2>2 DEF kfree
<1>4. QED
  BY <1>1, <1>2, <1>3, StepKinds

\* kmalloc.c implements the abstract allocator.
THEOREM HeapRefinesAllocator == Spec => RefinesAllocator
<1>1. Init => A!Init
  BY DEF Init, A!Init
<1>2. QED
  BY <1>1, HeapInvAlways, HeapStepRefines, PTL DEF Spec, RefinesAllocator, A!Spec, Live
=============================================================================
