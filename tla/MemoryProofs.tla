---------------------------- MODULE MemoryProofs ----------------------------
(***************************************************************************)
(* Proofs about the page tables of module AddressSpace and the list of the *)
(* virtual allocator of module Vmalloc, in the composition that module     *)
(* Memory makes.  For every number of processes and pages and every set of *)
(* blocks, no two entries share a frame, no entry outlives its page, and   *)
(* nothing is mapped above a break.  For every region, every pointer that  *)
(* is handed out and not freed has its own block in the list, the counts   *)
(* agree with the list, and until the first vfree no two areas overlap.    *)
(***************************************************************************)
EXTENDS Memory, SetInduction, FiniteSetTheorems

\* How many elements of S are not above b.
Rank(S, b) == Cardinality({c \in S : c <= b})

\* Ranks are positive and at most the number of elements, and a greater element
\* has a greater rank.
LEMMA RankIs ==
  ASSUME NEW S \in SUBSET Int, IsFiniteSet(S), NEW b \in S
  PROVE  /\ Rank(S, b) \in 1..Cardinality(S)
         /\ \A d \in S : b < d => Rank(S, b) < Rank(S, d)
<1> DEFINE Below(d) == {c \in S : c <= d}
<1>1. ASSUME NEW d \in S
      PROVE  IsFiniteSet(Below(d)) /\ Cardinality(Below(d)) \in Nat
             /\ Cardinality(Below(d)) <= Cardinality(S)
  <2>1. Below(d) \subseteq S
    OBVIOUS
  <2>2. QED
    BY <2>1, FS_Subset, FS_CardinalityType
<1>2. Cardinality(S) \in Nat
  BY FS_CardinalityType
<1>3. Cardinality(Below(b)) # 0
  <2>1. b \in Below(b)
    OBVIOUS
  <2>2. QED
    BY <1>1, <2>1, FS_EmptySet
<1>4. ASSUME NEW d \in S, b < d
      PROVE  Cardinality(Below(b)) < Cardinality(Below(d))
  <2>1. Below(b) \subseteq Below(d)
    <3>1. ASSUME NEW c \in S, c <= b
          PROVE  c <= d
      <4>1. c \in Int /\ b \in Int /\ d \in Int
        OBVIOUS
      <4>2. QED
        BY <1>4, <3>1, <4>1
    <3>2. QED
      BY <3>1, Zenon
  <2>2. d \in Below(d) /\ d \notin Below(b)
    BY <1>4
  <2>3. Cardinality(Below(b)) <= Cardinality(Below(d))
        /\ (Cardinality(Below(b)) = Cardinality(Below(d)) => Below(b) = Below(d))
    BY <1>1, <2>1, FS_Subset
  <2>4. QED
    BY <1>1, <2>2, <2>3
<1>5. QED
  BY <1>1, <1>2, <1>3, <1>4 DEF Rank

\* A finite set of natural numbers has an element of every rank up to its size.
LEMMA RankOnto ==
  ASSUME NEW S \in SUBSET Nat, IsFiniteSet(S), NEW i \in 1..Cardinality(S)
  PROVE  \E b \in S : Rank(S, b) = i
<1> DEFINE Good == {n \in Nat : \A X \in SUBSET Nat : IsFiniteSet(X) /\ Cardinality(X) = n =>
                      \A j \in 1..n : \E b \in X : Rank(X, b) = j}
<1>1. 0 \in Good
  OBVIOUS
<1>2. ASSUME NEW n \in Nat, n \in Good
      PROVE  n + 1 \in Good
  <2>1. SUFFICES ASSUME NEW X \in SUBSET Nat, IsFiniteSet(X), Cardinality(X) = n + 1,
                        NEW j \in 1..(n + 1)
                 PROVE  \E b \in X : Rank(X, b) = j
    OBVIOUS
  <2>2. X # {}
    BY <2>1, FS_EmptySet
  <2>3. PICK m \in X : \A k \in X : m <= k
    BY <2>2, LeastNat
  <2> DEFINE Y == X \ {m}
  <2>4. Y \in SUBSET Nat /\ IsFiniteSet(Y) /\ Cardinality(Y) = n
    <3>1. IsFiniteSet(Y) /\ Cardinality(Y) = Cardinality(X) - 1
      BY <2>1, FS_RemoveElement
    <3>2. QED
      BY <2>1, <3>1
  <2>5. CASE j = 1
    <3>1. {c \in X : c <= m} = {m}
      <4>1. ASSUME NEW c \in X PROVE c <= m <=> c = m
        <5>1. c \in Nat /\ m \in Nat /\ m <= c
          BY <2>3
        <5>2. QED
          BY <5>1
      <4>2. QED
        BY <4>1, Zenon
    <3>2. QED
      BY <2>5, <3>1, FS_Singleton, Zenon DEF Rank
  <2>6. CASE j # 1
    <3>1. j - 1 \in 1..n
      BY <2>6
    <3>2. PICK b \in Y : Rank(Y, b) = j - 1
      <4> HIDE DEF Y
      <4> QED
        BY <1>2, <2>4, <3>1
    <3>3. {c \in X : c <= b} = {c \in Y : c <= b} \cup {m} /\ m \notin {c \in Y : c <= b}
      BY <2>3
    <3>4. IsFiniteSet({c \in Y : c <= b})
      <4>1. {c \in Y : c <= b} \subseteq Y
        OBVIOUS
      <4>2. QED
        BY <2>4, <4>1, FS_Subset
    <3>5. Cardinality({c \in X : c <= b}) = Cardinality({c \in Y : c <= b}) + 1
      BY <3>3, <3>4, FS_AddElement
    <3>6. Rank(X, b) = (j - 1) + 1 /\ b \in X
      BY <3>2, <3>5 DEF Rank
    <3>7. QED
      BY <3>6
  <2>7. QED
    BY <2>5, <2>6
<1>3. Cardinality(S) \in Good
  <2> HIDE DEF Good
  <2>1. \A n \in Nat : n \in Good
    BY <1>1, <1>2, NatSetInduction
  <2>2. QED
    BY <2>1, FS_CardinalityType
<1>4. QED
  BY <1>3

-----------------------------------------------------------------------------
\* An entry keeps the upper bits of a pointer: never 0, less than a page below it.
LEMMA FrameIs ==
  ASSUME NEW b \in PageBlocks
  PROVE  Frame(b) \in Nat /\ Frame(b) # NotPresent /\ Frame(b) <= b /\ b < Frame(b) + PAGE_SIZE
<1>1. b \in Nat /\ b >= PAGE_SIZE /\ PAGE_SIZE \in Nat \ {0}
  BY PagePoolAssumption
<1>2. b % PAGE_SIZE \in 0..(PAGE_SIZE - 1)
  BY <1>1
<1>3. QED
  BY <1>1, <1>2 DEF Frame, NotPresent

\* Two blocks never lie in one frame, so that the frame tells them apart.
LEMMA FrameInjective ==
  ASSUME NEW b \in PageBlocks, NEW c \in PageBlocks, Frame(b) = Frame(c)
  PROVE  b = c
<1>1. b \in Nat /\ c \in Nat /\ PAGE_SIZE \in Nat
  BY PagePoolAssumption
<1>2. (b < c => b + PAGE_SIZE < c) /\ (c < b => c + PAGE_SIZE < b)
  BY PagePoolAssumption
<1>3. QED
  BY <1>1, <1>2, FrameIs

\* The frame of a block is a block's pointer only when that block is aligned.
LEMMA FrameBlock ==
  ASSUME NEW b \in PageBlocks, NEW c \in PageBlocks, b = Frame(c)
  PROVE  b = c
<1>1. b \in Nat /\ c \in Nat /\ PAGE_SIZE \in Nat
  BY PagePoolAssumption
<1>2. b < c => b + PAGE_SIZE < c
  BY PagePoolAssumption
<1>3. QED
  BY <1>1, <1>2, FrameIs

\* kmalloc hands out blocks that were free, each of them once, and no more than asked.
LEMMA KmallocIs ==
  ASSUME NEW n \in Nat
  PROVE  /\ kmalloc(n) \in Seq(PageBlocks \ allocated)
         /\ Len(kmalloc(n)) \in 0..n /\ DOMAIN kmalloc(n) = 1..Len(kmalloc(n))
         /\ \A i \in DOMAIN kmalloc(n) : kmalloc(n)[i] \in PageBlocks \ allocated
         /\ \A i, j \in DOMAIN kmalloc(n) : kmalloc(n)[i] = kmalloc(n)[j] => i = j
         /\ Range(kmalloc(n)) \subseteq PageBlocks \ allocated
<1> DEFINE free == PageBlocks \ allocated
           pick(i) == CHOOSE b \in free : Cardinality({c \in free : c <= b}) = i
           m == Min({n, Cardinality(free)})
<1>1. free \in SUBSET Nat /\ IsFiniteSet(free)
  BY PagePoolAssumption, FS_Subset
<1>2. Cardinality(free) \in Nat
  BY <1>1, FS_CardinalityType
<1> HIDE DEF free
<1>3. m \in 0..n /\ m <= Cardinality(free)
  <2>1. \E x \in {n, Cardinality(free)} : \A y \in {n, Cardinality(free)} : x <= y
    BY <1>2
  <2>2. m \in {n, Cardinality(free)} /\ m <= n /\ m <= Cardinality(free)
    BY <2>1 DEF Min
  <2>3. QED
    BY <1>2, <2>2
<1> HIDE DEF m
<1>4. kmalloc(n) = [i \in 1..m |-> pick(i)]
  BY DEF kmalloc, m, free
<1>5. ASSUME NEW i \in 1..m
      PROVE  pick(i) \in free /\ Rank(free, pick(i)) = i
  <2>1. i \in 1..Cardinality(free)
    BY <1>2, <1>3
  <2>2. \E b \in free : Rank(free, b) = i
    BY <1>1, <2>1, RankOnto
  <2>3. QED
    BY <2>2, Zenon DEF Rank
<1> HIDE DEF pick
<1>6. kmalloc(n) \in Seq(free) /\ Len(kmalloc(n)) = m /\ DOMAIN kmalloc(n) = 1..m
  BY <1>3, <1>4, <1>5
<1>7. \A i, j \in 1..m : kmalloc(n)[i] = kmalloc(n)[j] => i = j
  BY <1>4, <1>5
<1>8. \A i \in 1..m : kmalloc(n)[i] \in free
  BY <1>4, <1>5
<1>9. Range(kmalloc(n)) \subseteq free
  BY <1>6, <1>8 DEF Range
<1>10. QED
  BY <1>3, <1>6, <1>7, <1>8, <1>9 DEF free

-----------------------------------------------------------------------------
\* FramesDistinct and NoDanglingMapping of the tables dir of the processes us, on a
\* heap where the blocks alloc are in use.
Sound(us, dir, alloc) ==
  /\ \A p \in us, v \in Pages :
       dir[p][v] # NotPresent => \E b \in alloc : dir[p][v] = Frame(b)
  /\ \A p, q \in us, v, w \in Pages :
       dir[p][v] # NotPresent /\ dir[p][v] = dir[q][w] => p = q /\ v = w

\* From dir to new, every entry is cleared, kept, or set to the frame of one of the
\* blocks got, no two of them to the same; the frames F are freed, and no entry of
\* new holds one of them.
Remap(us, dir, alloc, us2, new, got, F) ==
  /\ alloc \subseteq PageBlocks /\ got \subseteq PageBlocks \ alloc
  /\ F \subseteq {Frame(b) : b \in PageBlocks}
  /\ \A p \in us2, v \in Pages :
       \/ new[p][v] = NotPresent
       \/ p \in us /\ new[p][v] = dir[p][v] /\ new[p][v] \notin F
       \/ new[p][v] \notin F /\ \E b \in got : new[p][v] = Frame(b)
  /\ \A p, q \in us2, v, w \in Pages : \A b \in got :
       new[p][v] = Frame(b) /\ new[q][w] = Frame(b) => p = q /\ v = w

\* Such a change of the tables keeps them sound: this is where it matters that a
\* frame that is freed and is the pointer of a block in use is that block's own.
LEMMA RemapSound ==
  ASSUME NEW us, NEW dir, NEW alloc, NEW us2, NEW new, NEW got, NEW F,
         Sound(us, dir, alloc), Remap(us, dir, alloc, us2, new, got, F)
  PROVE  Sound(us2, new, (alloc \cup got) \ F)
<1>1. ASSUME NEW p \in us2, NEW v \in Pages, new[p][v] # NotPresent
      PROVE  \E b \in alloc \cup got : new[p][v] = Frame(b) /\ new[p][v] \notin F
                /\ (b \in alloc => p \in us /\ new[p][v] = dir[p][v])
  BY <1>1 DEF Sound, Remap
<1>2. alloc \cup got \subseteq PageBlocks
  BY DEF Remap
<1>3. ASSUME NEW b \in alloc \cup got, Frame(b) \notin F
      PROVE  b \notin F
  <2>1. SUFFICES ASSUME b \in F PROVE FALSE
    OBVIOUS
  <2>2. PICK c \in PageBlocks : b = Frame(c)
    BY <2>1 DEF Remap
  <2>3. b = c
    BY <1>2, <2>2, FrameBlock
  <2>4. QED
    BY <1>3, <2>1, <2>2, <2>3, Zenon
<1>4. ASSUME NEW p \in us2, NEW v \in Pages, new[p][v] # NotPresent
      PROVE  \E b \in (alloc \cup got) \ F : new[p][v] = Frame(b)
  BY <1>1, <1>3, <1>4
<1>5. ASSUME NEW p \in us2, NEW q \in us2, NEW v \in Pages, NEW w \in Pages,
             new[p][v] # NotPresent, new[p][v] = new[q][w]
      PROVE  p = q /\ v = w
  <2>1. PICK b \in alloc \cup got : new[p][v] = Frame(b) /\ (b \in alloc => p \in us /\ new[p][v] = dir[p][v])
    BY <1>1, <1>5
  <2>2. PICK c \in alloc \cup got : new[q][w] = Frame(c) /\ (c \in alloc => q \in us /\ new[q][w] = dir[q][w])
    BY <1>1, <1>5
  <2>3. b = c
    BY <1>2, <1>5, <2>1, <2>2, FrameInjective, Zenon
  <2>4. CASE b \in alloc
    BY <1>5, <2>1, <2>2, <2>3, <2>4 DEF Sound
  <2>5. CASE b \in got
    <3>1. new[p][v] = Frame(b) /\ new[q][w] = Frame(b)
      BY <1>5, <2>1
    <3>2. \A r, s \in us2, x, y \in Pages : \A d \in got :
            new[r][x] = Frame(d) /\ new[s][y] = Frame(d) => r = s /\ x = y
      BY DEF Remap
    <3>3. QED
      BY <2>5, <3>1, <3>2
  <2>6. QED
    BY <2>4, <2>5
<1>6. QED
  BY <1>4, <1>5 DEF Sound

-----------------------------------------------------------------------------
\* The type invariant of the page tables and of cmd_mmap.
MemTypes ==
  /\ used \subseteq Procs /\ current \in used
  /\ allocated \subseteq PageBlocks
  /\ directory \in [Procs -> [Pages -> Nat]]
  /\ heap_end \in [Procs -> Pages]
  /\ mcall \in [at : {"idle", "mmap", "rollback"}, proc : Procs, addr : Nat, n : Nat,
                i : Nat, j : Nat, last : BOOLEAN]

\* cmd_mmap works on a process that exists, below the stack, and between its first
\* page and its last nothing but the pages it is about is above the break.
CallInv ==
  /\ mcall.at = "idle" => mcall = Idle
  /\ mcall.at = "mmap" => mcall.j = 0
  /\ mcall.at # "idle" =>
       /\ mcall.proc \in used
       /\ mcall.addr + mcall.n <= (IF mcall.last THEN 4 ELSE 3)
       /\ mcall.i <= mcall.n /\ mcall.j <= mcall.i
       /\ mcall.proc \notin misplaced =>
            \A v \in HeapPages : directory[mcall.proc][v] # NotPresent =>
              \/ v < heap_end[mcall.proc]
              \/ mcall.addr + mcall.j <= v /\ v < mcall.addr + mcall.i

\* The invariant that is inductive.
MemInv ==
  MemTypes /\ CallInv /\ Sound(used, directory, allocated) /\ NothingAboveBreak

\* Sound says of the state what the two properties say.
LEMMA SoundIs == Sound(used, directory, allocated) => FramesDistinct /\ NoDanglingMapping
<1>1. SUFFICES ASSUME Sound(used, directory, allocated)
               PROVE  FramesDistinct /\ NoDanglingMapping
  OBVIOUS
<1>2. ASSUME NEW m \in Mapped
      PROVE  /\ m[1] \in used /\ m[2] \in Pages /\ m = <<m[1], m[2]>>
             /\ directory[m[1]][m[2]] # NotPresent
  BY DEF Mapped
<1>3. FramesDistinct
  <2>1. SUFFICES ASSUME NEW m \in Mapped, NEW o \in Mapped,
                        directory[m[1]][m[2]] = directory[o[1]][o[2]]
                 PROVE  m = o
    BY DEF FramesDistinct
  <2>2. m[1] = o[1] /\ m[2] = o[2]
    BY <1>1, <1>2, <2>1 DEF Sound
  <2>3. QED
    BY <1>2, <2>2
<1>4. NoDanglingMapping
  BY <1>1, <1>2 DEF Sound, NoDanglingMapping
<1>5. QED
  BY <1>3, <1>4

\* The shell's process, with a stack page and an empty heap.
LEMMA MemInit == Init => MemInv
<1>1. SUFFICES ASSUME Init PROVE MemInv
  OBVIOUS
<1> DEFINE first == Min(PageBlocks)
<1>2. first \in PageBlocks
  <2>1. PageBlocks \in SUBSET Nat /\ PageBlocks # {}
    BY PagePoolAssumption
  <2>2. \E x \in PageBlocks : \A y \in PageBlocks : x <= y
    BY <2>1, LeastNat
  <2>3. QED
    BY <2>2 DEF Min
<1>3. Frame(first) \in Nat
  BY <1>2, FrameIs
<1> HIDE DEF first
<1>4. /\ used = {Shell} /\ current = Shell /\ allocated = {first} /\ mcall = Idle
      /\ directory = [p \in Procs |-> IF p = Shell THEN NewDirectory(first)
                                      ELSE [v \in Pages |-> NotPresent]]
      /\ heap_end = [p \in Procs |-> HEAP_PAGE]
  BY <1>1 DEF Init, AddressSpaceInit, first
<1>5. Shell \in Procs /\ HEAP_PAGE \in Pages /\ StackPage \in Pages /\ StackPage \notin HeapPages
  BY AddressSpaceAssumption DEF HEAP_PAGE, Pages, StackPage, HeapPages
<1>6. MemTypes
  BY <1>2, <1>3, <1>4, <1>5 DEF MemTypes, NewDirectory, NotPresent, Idle
<1>7. CallInv
  BY <1>4 DEF CallInv, Idle
<1>8. \A v \in Pages : directory[Shell][v] = IF v = StackPage THEN Frame(first) ELSE NotPresent
  BY <1>4, <1>5 DEF NewDirectory
<1>9. Sound(used, directory, allocated)
  BY <1>4, <1>8 DEF Sound
<1>10. NothingAboveBreak
  <2>1. \A v \in HeapPages : v \in Pages /\ v # StackPage
    BY AddressSpaceAssumption, <1>5 DEF HeapPages, Pages, StackPage
  <2>2. QED
    BY <1>4, <1>8, <2>1 DEF NothingAboveBreak
<1>11. QED
  BY <1>6, <1>7, <1>9, <1>10 DEF MemInv

\* vmalloc and vfree touch no table and only take pages.
LEMMA VmallocStep ==
  ASSUME MemInv, VNext, UNCHANGED asvars
  PROVE  MemInv'
<1>1. allocated \subseteq allocated' /\ allocated' \subseteq PageBlocks
  <2>1. ASSUME NEW n \in VRequests, vmalloc(n)
        PROVE  allocated \subseteq allocated' /\ allocated' \subseteq PageBlocks
    <3>1. PagesNeeded(n) \in Nat
      BY VmallocAssumption, PagePoolAssumption DEF PagesNeeded
    <3>2. Range(kmalloc(PagesNeeded(n))) \subseteq PageBlocks
      BY <3>1, KmallocIs
    <3>3. allocated' = allocated \/ allocated' = allocated \cup Range(kmalloc(PagesNeeded(n)))
      BY <2>1 DEF vmalloc
    <3>4. QED
      BY <3>2, <3>3 DEF MemInv, MemTypes
  <2>2. ASSUME NEW a \in vowned, vfree(a)
        PROVE  allocated' = allocated
    BY <2>2 DEF vfree
  <2>3. QED
    BY <2>1, <2>2 DEF VNext, MemInv, MemTypes
<1>2. UNCHANGED <<used, current, directory, heap_end, mcall, misplaced>>
  BY DEF asvars
<1>3. MemTypes'
  BY <1>1, <1>2 DEF MemInv, MemTypes
<1>4. CallInv'
  BY <1>2 DEF MemInv, CallInv
<1>5. Sound(used, directory, allocated)'
  BY <1>1, <1>2 DEF MemInv, Sound
<1>6. NothingAboveBreak'
  BY <1>2 DEF MemInv, NothingAboveBreak
<1>7. QED
  BY <1>3, <1>4, <1>5, <1>6 DEF MemInv

\* Before cmd_mmap and after it there is nothing to say of it.
LEMMA IdleCall == mcall = Idle => CallInv
  BY DEF CallInv, Idle

\* What every step that is about one process needs to know of the state.
LEMMA MemFacts ==
  ASSUME MemInv
  PROVE  /\ used \subseteq Procs /\ current \in used /\ current \in Procs
         /\ allocated \subseteq PageBlocks
         /\ \A p \in Procs : heap_end[p] \in Pages /\ directory[p] \in [Pages -> Nat]
         /\ DOMAIN directory = Procs /\ DOMAIN heap_end = Procs
         /\ Sound(used, directory, allocated)
  BY DEF MemInv, MemTypes

\* No entry holds the frame of a block that is not in use.
LEMMA FreeUnmapped ==
  ASSUME MemInv, NEW b \in PageBlocks \ allocated, NEW p \in used, NEW v \in Pages,
         directory[p][v] # NotPresent
  PROVE  directory[p][v] # Frame(b)
<1>1. PICK c \in allocated : directory[p][v] = Frame(c)
  BY DEF MemInv, Sound
<1>2. c \in PageBlocks
  BY MemFacts
<1>3. QED
  BY <1>1, <1>2, FrameInjective

\* mmap: new pages for the ones it maps, or everything as it was but for what was
\* mapped there before.
LEMMA MmapStep ==
  ASSUME MemInv, NEW addr \in HeapPages, NEW length \in Lengths, sys_mmap(addr, length)
  PROVE  MemInv'
<1> DEFINE p == current
           n == PagesNeeded(length)
           at == IF addr = 0 THEN heap_end[p] ELSE addr
           got == kmalloc(n)
           new == MapPages(directory[p], at, [k \in DOMAIN got |-> Frame(got[k])])
           undo == at..(at + Len(got) - 1)
<1>1. n \in Nat
  BY AddressSpaceAssumption, PagePoolAssumption DEF PagesNeeded
<1>2. p \in used /\ p \in Procs /\ at \in Nat /\ StackPage \in Nat /\ n > 0 /\ at + n <= StackPage
  BY MemFacts, AddressSpaceAssumption DEF sys_mmap, HeapPages, Pages, StackPage
<1>3. /\ Len(got) \in 0..n /\ DOMAIN got = 1..Len(got)
      /\ \A i \in DOMAIN got : got[i] \in PageBlocks \ allocated
      /\ \A i, j \in DOMAIN got : got[i] = got[j] => i = j
      /\ Range(got) \subseteq PageBlocks \ allocated
      /\ \A i \in DOMAIN got : got[i] \in Range(got)
  BY <1>1, KmallocIs DEF Range
<1>4. Len(got) = n =>
        /\ directory' = [directory EXCEPT ![p] = new]
        /\ allocated' = allocated \cup Range(got)
        /\ heap_end' = [heap_end EXCEPT ![p] = Max({@, at + n})]
  BY DEF sys_mmap
<1>5. Len(got) # n =>
        /\ directory' = [directory EXCEPT ![p] = UnmapPages(new, undo)]
        /\ allocated' = (allocated \cup Range(got)) \ {new[v] : v \in undo}
        /\ heap_end' = heap_end
  BY DEF sys_mmap, FreeFrames
<1>6. used' = used /\ current' = current /\ mcall' = Idle /\ misplaced' = misplaced /\ mcall = Idle
  BY DEF sys_mmap, InSyscall
<1>7. \A v \in Pages : new[v] = IF v - at + 1 \in DOMAIN got THEN Frame(got[v - at + 1])
                                ELSE directory[p][v]
  BY DEF MapPages
<1>8. \A i \in DOMAIN got : Frame(got[i]) \in Nat /\ Frame(got[i]) # NotPresent
  BY <1>3, FrameIs
<1> HIDE DEF got, at, n
<1>9. \A v \in Pages : v - at + 1 \in DOMAIN got <=> v \in undo
  BY <1>1, <1>2, <1>3, AddressSpaceAssumption DEF Pages, StackPage
<1>10. undo \subseteq Pages
  BY <1>1, <1>2, <1>3, AddressSpaceAssumption DEF Pages
<1>11. new \in [Pages -> Nat]
  BY <1>2, <1>7, <1>8, MemFacts DEF MapPages
<1>12. UnmapPages(new, undo) = [v \in Pages |-> IF v \in undo THEN NotPresent ELSE directory[p][v]]
  BY <1>7, <1>9 DEF UnmapPages
<1> HIDE DEF new, undo
<1>13. MemTypes'
  <2>1. directory' \in [Procs -> [Pages -> Nat]]
    <3>1. UnmapPages(new, undo) \in [Pages -> Nat]
      BY <1>2, <1>12, MemFacts DEF NotPresent
    <3>2. \E d \in [Pages -> Nat] : directory' = [directory EXCEPT ![p] = d]
      BY <1>4, <1>5, <1>11, <3>1
    <3>3. QED
      BY <1>2, <3>2 DEF MemInv, MemTypes
  <2>2. allocated' \subseteq PageBlocks
    BY <1>3, <1>4, <1>5, MemFacts
  <2>3. heap_end' \in [Procs -> Pages]
    <3>1. heap_end[p] \in Pages /\ at + n \in Pages
      BY <1>1, <1>2, MemFacts DEF Pages
    <3>2. Max({heap_end[p], at + n}) \in Pages
      <4>1. \E x \in {heap_end[p], at + n} : \A y \in {heap_end[p], at + n} : x >= y
        BY <3>1 DEF Pages
      <4>2. QED
        BY <3>1, <4>1 DEF Max
    <3>3. QED
      BY <1>2, <1>4, <1>5, <3>2, Zenon DEF MemInv, MemTypes
  <2>4. QED
    BY <1>6, <2>1, <2>2, <2>3 DEF MemInv, MemTypes
<1>14. CallInv'
  BY <1>6 DEF CallInv, Idle
<1>15. \A q \in Procs : q # p => directory'[q] = directory[q] /\ heap_end'[q] = heap_end[q]
  BY <1>4, <1>5, MemFacts
<1>16. \A v \in Pages : directory'[p][v] = IF v \in undo THEN IF Len(got) = n THEN Frame(got[v - at + 1])
                                                             ELSE NotPresent
                                           ELSE directory[p][v]
  BY <1>2, <1>4, <1>5, <1>7, <1>9, <1>12, MemFacts
<1>17. Sound(used', directory', allocated')
  <2> DEFINE F == IF Len(got) = n THEN {} ELSE {new[v] : v \in undo}
  <2>1. allocated' = (allocated \cup Range(got)) \ F
    BY <1>4, <1>5
  <2>2. \A f \in F : Len(got) # n /\ \E i \in DOMAIN got : f = Frame(got[i])
    BY <1>7, <1>9, <1>10
  <2> HIDE DEF F
  <2>3. ASSUME NEW q \in used, NEW v \in Pages
        PROVE  \/ directory'[q][v] = NotPresent
               \/ directory'[q][v] = directory[q][v] /\ directory'[q][v] \notin F
               \/ directory'[q][v] \notin F /\ \E b \in Range(got) : directory'[q][v] = Frame(b)
    <3>1. directory[q][v] # NotPresent => directory[q][v] \notin F
      BY <1>3, <2>2, FreeUnmapped
    <3>2. QED
      BY <1>3, <1>9, <1>15, <1>16, <2>2, <3>1, MemFacts, Zenon
  <2>4. ASSUME NEW q \in used, NEW r \in used, NEW v \in Pages, NEW w \in Pages, NEW b \in Range(got),
               directory'[q][v] = Frame(b), directory'[r][w] = Frame(b)
        PROVE  q = r /\ v = w
    <3>1. ASSUME NEW s \in used, NEW x \in Pages, directory'[s][x] = Frame(b)
          PROVE  s = p /\ x \in undo /\ b = got[x - at + 1]
      <4>1. b \in PageBlocks \ allocated /\ Frame(b) # NotPresent
        BY <1>3, FrameIs
      <4>2. directory'[s][x] # directory[s][x]
        BY <3>1, <4>1, FreeUnmapped
      <4>3. s = p /\ x \in undo /\ Frame(b) = Frame(got[x - at + 1])
        BY <1>15, <1>16, <3>1, <4>1, <4>2, MemFacts, Zenon
      <4>4. QED
        BY <1>3, <1>9, <4>1, <4>3, FrameInjective
    <3>2. q = p /\ v \in undo /\ b = got[v - at + 1]
      BY <2>4, <3>1
    <3>3. r = p /\ w \in undo /\ b = got[w - at + 1]
      BY <2>4, <3>1
    <3>4. v - at + 1 = w - at + 1
      BY <1>3, <1>9, <3>2, <3>3, Zenon
    <3>5. QED
      BY <1>2, <3>2, <3>3, <3>4 DEF Pages
  <2>5. F \subseteq {Frame(b) : b \in PageBlocks}
    BY <1>3, <2>2
  <2>6. Remap(used, directory, allocated, used, directory', Range(got), F)
    BY <1>3, <2>3, <2>4, <2>5, MemFacts DEF Remap
  <2>7. QED
    BY <1>6, <2>1, <2>6, MemFacts, RemapSound
<1>18. NothingAboveBreak'
  <2>1. SUFFICES ASSUME NEW q \in used \ misplaced, NEW v \in HeapPages, directory'[q][v] # NotPresent
                 PROVE  v < heap_end'[q]
    BY <1>6 DEF NothingAboveBreak
  <2>2. v \in Pages /\ v \in Nat /\ heap_end[q] \in Nat
    BY MemFacts, AddressSpaceAssumption DEF HeapPages, Pages, StackPage
  <2>3. directory[q][v] # NotPresent => v < heap_end[q]
    BY <1>6 DEF MemInv, NothingAboveBreak, Idle
  <2>4. CASE q # p
    BY <1>15, <2>1, <2>3, <2>4, MemFacts
  <2>5. CASE q = p /\ Len(got) # n
    BY <1>5, <1>16, <2>1, <2>2, <2>3, <2>5
  <2>6. CASE q = p /\ Len(got) = n
    <3>1. heap_end'[p] = Max({heap_end[p], at + n})
      BY <1>2, <1>4, <2>6, MemFacts
    <3>2. heap_end'[p] \in Nat /\ heap_end'[p] >= heap_end[p] /\ heap_end'[p] >= at + n
      <4>1. \E x \in {heap_end[p], at + n} : \A y \in {heap_end[p], at + n} : x >= y
        BY <1>1, <1>2, <2>2, <2>6
      <4>2. QED
        BY <1>1, <1>2, <2>2, <2>6, <3>1, <4>1 DEF Max
    <3>3. v \in undo => v < at + n
      BY <1>1, <1>2, <1>3, <2>2, <2>6 DEF undo
    <3>4. QED
      BY <1>1, <1>2, <1>16, <2>1, <2>2, <2>3, <2>6, <3>2, <3>3
  <2>7. QED
    BY <2>4, <2>5, <2>6
<1>19. QED
  BY <1>13, <1>14, <1>17, <1>18 DEF MemInv

\* brk: the pages above the new break go, and only they.
LEMMA BrkStep ==
  ASSUME MemInv, NEW new_brk \in HeapPages, sys_brk(new_brk)
  PROVE  MemInv'
<1> DEFINE p == current
           S == new_brk..(heap_end[p] - 1)
           F == {directory[p][v] : v \in S} \ {NotPresent}
<1>1. p \in used /\ p \in Procs /\ heap_end[p] \in Pages /\ new_brk < heap_end[p]
  BY MemFacts DEF sys_brk
<1>2. /\ allocated' = allocated \ F
      /\ directory' = [directory EXCEPT ![p] = UnmapPages(@, S)]
      /\ heap_end' = [heap_end EXCEPT ![p] = new_brk]
  BY DEF sys_brk, process_munmap, FreeFrames
<1>3. used' = used /\ current' = current /\ mcall' = Idle /\ misplaced' = misplaced /\ mcall = Idle
  BY DEF sys_brk, InSyscall
<1>4. S \subseteq Pages /\ \A v \in HeapPages : v \in S <=> new_brk <= v /\ v < heap_end[p]
  BY <1>1, AddressSpaceAssumption DEF Pages, StackPage, HeapPages
<1>5. new_brk \in Pages
  BY AddressSpaceAssumption DEF Pages, StackPage, HeapPages
<1>6. \A f \in F : f # NotPresent /\ \E v \in Pages : v \in S /\ f = directory[p][v]
  BY <1>4
<1> HIDE DEF S, F
<1>7. \A q \in Procs : q # p => directory'[q] = directory[q] /\ heap_end'[q] = heap_end[q]
  BY <1>2, MemFacts
<1>8. \A v \in Pages : directory'[p][v] = IF v \in S THEN NotPresent ELSE directory[p][v]
  BY <1>1, <1>2, MemFacts DEF UnmapPages
<1>9. MemTypes'
  <2>1. UnmapPages(directory[p], S) \in [Pages -> Nat]
    BY <1>1, MemFacts DEF UnmapPages, NotPresent
  <2>2. directory' \in [Procs -> [Pages -> Nat]]
    BY <1>1, <1>2, <2>1 DEF MemInv, MemTypes
  <2>3. QED
    BY <1>2, <1>3, <1>5, <2>2 DEF MemInv, MemTypes
<1>10. CallInv'
  BY <1>3 DEF CallInv, Idle
<1>11. Sound(used', directory', allocated')
  <2>1. \A f \in F : \E b \in PageBlocks : f = Frame(b)
    BY <1>1, <1>6, MemFacts DEF Sound
  <2>2. ASSUME NEW q \in used, NEW v \in Pages
        PROVE  \/ directory'[q][v] = NotPresent
               \/ directory'[q][v] = directory[q][v] /\ directory'[q][v] \notin F
    <3>1. CASE q = p /\ v \in S
      BY <1>8, <3>1
    <3>2. CASE ~ (q = p /\ v \in S)
      <4>1. directory'[q][v] = directory[q][v]
        BY <1>7, <1>8, <3>2, MemFacts
      <4>2. directory[q][v] # NotPresent => directory[q][v] \notin F
        BY <1>1, <1>6, <3>2, MemFacts DEF Sound
      <4>3. QED
        BY <4>1, <4>2
    <3>3. QED
      BY <3>1, <3>2
  <2>3. Remap(used, directory, allocated, used, directory', {}, F)
    BY <2>1, <2>2, MemFacts DEF Remap
  <2>4. Sound(used, directory', (allocated \cup {}) \ F)
    BY <2>3, MemFacts, RemapSound
  <2>5. allocated' = (allocated \cup {}) \ F
    BY <1>2
  <2>6. QED
    BY <1>3, <2>4, <2>5
<1>12. NothingAboveBreak'
  <2>1. SUFFICES ASSUME NEW q \in used \ misplaced, NEW v \in HeapPages, directory'[q][v] # NotPresent
                 PROVE  v < heap_end'[q]
    BY <1>3 DEF NothingAboveBreak
  <2>2. v \in Pages /\ v \in Nat /\ new_brk \in Nat /\ heap_end[q] \in Nat
    BY MemFacts, AddressSpaceAssumption DEF HeapPages, Pages, StackPage
  <2>3. directory[q][v] # NotPresent => v < heap_end[q]
    BY <1>3 DEF MemInv, NothingAboveBreak, Idle
  <2>4. CASE q # p
    BY <1>7, <2>1, <2>3, <2>4, MemFacts
  <2>5. CASE q = p
    <3>1. v \notin S /\ directory[p][v] # NotPresent
      BY <1>8, <2>1, <2>2, <2>5
    <3>2. heap_end'[p] = new_brk
      BY <1>1, <1>2, MemFacts
    <3>3. QED
      BY <1>4, <2>2, <2>3, <2>5, <3>1, <3>2
  <2>6. QED
    BY <2>4, <2>5
<1>13. QED
  BY <1>9, <1>10, <1>11, <1>12 DEF MemInv

\* fork: the child has a page of its own for every page of its parent, or there is
\* no child.
LEMMA ForkStep ==
  ASSUME MemInv, NEW child \in Procs, sys_fork(child)
  PROVE  MemInv'
<1> DEFINE p == current
           present == {v \in Pages : directory[p][v] # NotPresent}
           got == kmalloc(Cardinality(present))
           full == Len(got) = Cardinality(present)
           F == IF full \/ Len(got) < Cardinality(present \ {StackPage}) THEN {}
                ELSE {Frame(b) : b \in Range(got)}
<1>1. p \in used /\ p \in Procs /\ child \notin used
  BY MemFacts DEF sys_fork
<1>2. present \in SUBSET Int /\ IsFiniteSet(present)
  <2>1. IsFiniteSet(Pages)
    BY AddressSpaceAssumption, FS_Interval DEF Pages, StackPage
  <2>2. present \in SUBSET Pages
    OBVIOUS
  <2> HIDE DEF present
  <2>3. IsFiniteSet(present)
    BY <2>1, <2>2, FS_Subset
  <2>4. Pages \in SUBSET Int
    BY DEF Pages
  <2>5. QED
    BY <2>2, <2>3, <2>4
<1>3. Cardinality(present) \in Nat
  BY <1>2, FS_CardinalityType
<1>4. /\ DOMAIN got = 1..Len(got) /\ Len(got) \in Nat
      /\ \A i \in DOMAIN got : got[i] \in PageBlocks \ allocated
      /\ \A i, j \in DOMAIN got : got[i] = got[j] => i = j
      /\ Range(got) \subseteq PageBlocks \ allocated
      /\ \A i \in DOMAIN got : got[i] \in Range(got)
  <2> HIDE DEF present
  <2>0. PICK n \in Nat : got = kmalloc(n)
    BY <1>3
  <2> HIDE DEF got
  <2>1. Len(kmalloc(n)) \in 0..n /\ DOMAIN kmalloc(n) = 1..Len(kmalloc(n))
    BY KmallocIs
  <2>2. \A i \in DOMAIN kmalloc(n) : kmalloc(n)[i] \in PageBlocks \ allocated
    BY KmallocIs
  <2>3. \A i, j \in DOMAIN kmalloc(n) : kmalloc(n)[i] = kmalloc(n)[j] => i = j
    BY KmallocIs
  <2>4. Range(kmalloc(n)) \subseteq PageBlocks \ allocated
    BY KmallocIs
  <2>5. \A i \in DOMAIN got : got[i] \in Range(got)
    BY DEF Range
  <2>6. QED
    BY <2>0, <2>1, <2>2, <2>3, <2>4, <2>5
<1>5. full => /\ used' = used \cup {child}
              /\ directory' = [directory EXCEPT ![child] = CloneEntries(directory[p], got)]
              /\ heap_end' = [heap_end EXCEPT ![child] = heap_end[p]]
              /\ misplaced' = IF p \in misplaced THEN misplaced \cup {child} ELSE misplaced
  BY DEF sys_fork
<1>6. ~ full => UNCHANGED <<used, directory, heap_end, misplaced>>
  BY DEF sys_fork
<1>7. allocated' = (allocated \cup Range(got)) \ F
  BY Zenon DEF sys_fork
<1>8. current' = current /\ mcall' = Idle /\ mcall = Idle
  BY DEF sys_fork, InSyscall
<1>9. F = {} \/ (~ full /\ F = {Frame(b) : b \in Range(got)})
  BY Zenon
<1>10. ASSUME full, NEW v \in Pages
       PROVE  CloneEntries(directory[p], got)[v] =
                IF directory[p][v] = NotPresent THEN NotPresent
                ELSE Frame(got[Rank(present, v)])
  <2>1. {u \in Pages : u <= v /\ directory[p][u] # NotPresent} = {c \in present : c <= v}
    OBVIOUS
  <2>2. QED
    BY <2>1 DEF CloneEntries, Rank
<1>11. ASSUME full, NEW v \in Pages, directory[p][v] # NotPresent
       PROVE  /\ Rank(present, v) \in DOMAIN got
              /\ \A w \in Pages : directory[p][w] # NotPresent
                   /\ Rank(present, w) = Rank(present, v) => w = v
  <2>1. v \in present
    BY <1>11
  <2>2. Rank(present, v) \in 1..Cardinality(present)
    BY <1>2, <2>1, RankIs
  <2>3. ASSUME NEW w \in present, Rank(present, w) = Rank(present, v)
        PROVE  w = v
    <3>1. v < w => Rank(present, v) < Rank(present, w)
      BY <1>2, <2>1, RankIs
    <3>2. w < v => Rank(present, w) < Rank(present, v)
      BY <1>2, <2>1, RankIs
    <3>3. v \in Int /\ w \in Int /\ Rank(present, v) \in Int
      BY <1>2, <1>3, <2>1, <2>2
    <3>4. QED
      BY <2>3, <3>1, <3>2, <3>3
  <2>4. QED
    BY <1>4, <1>11, <2>2, <2>3
<1> HIDE DEF present, got, full, F
<1>12. full => \A v \in Pages : directory'[child][v] =
                 IF directory[p][v] = NotPresent THEN NotPresent
                 ELSE Frame(got[Rank(present, v)])
  BY <1>5, <1>10, MemFacts
<1>13. \A q \in used : directory'[q] = directory[q] /\ heap_end'[q] = heap_end[q]
  BY <1>1, <1>5, <1>6, MemFacts
<1>14. MemTypes'
  <2>1. directory' \in [Procs -> [Pages -> Nat]]
    <3>1. CASE full
      <4>1. \A v \in Pages : CloneEntries(directory[p], got)[v] \in Nat
        BY <1>4, <1>10, <1>11, <3>1, FrameIs DEF NotPresent
      <4>2. CloneEntries(directory[p], got) \in [Pages -> Nat]
        BY <4>1 DEF CloneEntries
      <4>3. QED
        BY <1>5, <3>1, <4>2 DEF MemInv, MemTypes
    <3>2. QED
      BY <1>6, <3>1 DEF MemInv, MemTypes
  <2>2. heap_end' \in [Procs -> Pages] /\ used' \subseteq Procs
    BY <1>1, <1>5, <1>6, Zenon DEF MemInv, MemTypes
  <2>3. allocated' \subseteq PageBlocks
    BY <1>4, <1>7, MemFacts
  <2>4. current' \in used'
    BY <1>1, <1>5, <1>6, <1>8
  <2>5. QED
    BY <1>8, <2>1, <2>2, <2>3, <2>4 DEF MemInv, MemTypes
<1>15. CallInv'
  BY <1>8 DEF CallInv, Idle
<1>16. Sound(used', directory', allocated')
  <2>1. \A f \in F : ~ full /\ \E b \in Range(got) : f = Frame(b)
    BY <1>9
  <2>2. ASSUME NEW q \in used', NEW v \in Pages
        PROVE  \/ directory'[q][v] = NotPresent
               \/ q \in used /\ directory'[q][v] = directory[q][v] /\ directory'[q][v] \notin F
               \/ directory'[q][v] \notin F /\ \E b \in Range(got) : directory'[q][v] = Frame(b)
    <3>1. CASE q \in used
      <4>1. directory[q][v] # NotPresent => directory[q][v] \notin F
        BY <1>4, <2>1, <3>1, FreeUnmapped
      <4>2. QED
        BY <1>13, <3>1, <4>1
    <3>2. CASE q \notin used
      <4>1. full /\ q = child
        BY <1>5, <1>6, <3>2
      <4>2. QED
        BY <1>4, <1>11, <1>12, <2>1, <4>1
    <3>3. QED
      BY <3>1, <3>2
  <2>3. ASSUME NEW q \in used', NEW r \in used', NEW v \in Pages, NEW w \in Pages, NEW b \in Range(got),
               directory'[q][v] = Frame(b), directory'[r][w] = Frame(b)
        PROVE  q = r /\ v = w
    <3>1. b \in PageBlocks \ allocated /\ Frame(b) # NotPresent
      BY <1>4, FrameIs
    <3>2. ASSUME NEW s \in used', NEW x \in Pages, directory'[s][x] = Frame(b)
          PROVE  /\ full /\ s = child /\ directory[p][x] # NotPresent
                 /\ b = got[Rank(present, x)]
      <4>1. s \notin used
        BY <1>13, <3>1, <3>2, FreeUnmapped
      <4>2. full /\ s = child
        BY <1>5, <1>6, <4>1
      <4>3. directory[p][x] # NotPresent /\ Frame(b) = Frame(got[Rank(present, x)])
        BY <1>12, <3>1, <3>2, <4>2
      <4>4. got[Rank(present, x)] \in PageBlocks
        BY <1>4, <1>11, <4>2, <4>3
      <4>5. QED
        BY <3>1, <4>2, <4>3, <4>4, FrameInjective
    <3>3. full /\ q = child /\ directory[p][v] # NotPresent /\ b = got[Rank(present, v)]
      BY <2>3, <3>2
    <3>4. r = child /\ directory[p][w] # NotPresent /\ b = got[Rank(present, w)]
      BY <2>3, <3>2
    <3>5. Rank(present, v) = Rank(present, w)
      BY <1>4, <1>11, <3>3, <3>4, Zenon
    <3>6. QED
      BY <1>11, <3>3, <3>4, <3>5
  <2>4. F \subseteq {Frame(b) : b \in PageBlocks}
    BY <1>4, <2>1
  <2>5. allocated \subseteq PageBlocks /\ Range(got) \subseteq PageBlocks \ allocated
    BY <1>4, MemFacts
  <2>6. Remap(used, directory, allocated, used', directory', Range(got), F)
    <3>1. \A q \in used', v \in Pages :
            \/ directory'[q][v] = NotPresent
            \/ q \in used /\ directory'[q][v] = directory[q][v] /\ directory'[q][v] \notin F
            \/ directory'[q][v] \notin F /\ \E b \in Range(got) : directory'[q][v] = Frame(b)
      BY <2>2, Zenon
    <3>2. \A q, r \in used', v, w \in Pages : \A b \in Range(got) :
            directory'[q][v] = Frame(b) /\ directory'[r][w] = Frame(b) => q = r /\ v = w
      BY <2>3
    <3>3. QED
      BY <2>4, <2>5, <3>1, <3>2, Zenon DEF Remap
  <2>7. QED
    BY <1>7, <2>6, MemFacts, RemapSound
<1>17. NothingAboveBreak'
  <2>1. SUFFICES ASSUME NEW q \in used' \ misplaced', NEW v \in HeapPages, directory'[q][v] # NotPresent
                 PROVE  v < heap_end'[q]
    BY <1>8 DEF NothingAboveBreak
  <2>2. \A s \in used \ misplaced : directory[s][v] # NotPresent => v < heap_end[s]
    BY <1>8 DEF MemInv, NothingAboveBreak, Idle
  <2>3. v \in Pages /\ misplaced \subseteq misplaced'
    BY <1>5, <1>6, AddressSpaceAssumption DEF HeapPages, Pages, StackPage
  <2>4. CASE q \in used
    BY <1>13, <2>1, <2>2, <2>3, <2>4
  <2>5. CASE q \notin used
    <3>1. full /\ q = child
      BY <1>5, <1>6, <2>1, <2>5
    <3>2. p \notin misplaced /\ heap_end'[child] = heap_end[p]
      BY <1>5, <2>1, <3>1, MemFacts
    <3>3. directory[p][v] # NotPresent
      BY <1>12, <2>1, <2>3, <3>1
    <3>4. QED
      BY <1>1, <2>2, <3>1, <3>2, <3>3
  <2>6. QED
    BY <2>4, <2>5
<1>18. QED
  BY <1>14, <1>15, <1>16, <1>17 DEF MemInv

\* One page at a time, as cmd_mmap takes them.
LEMMA OnePage ==
  ASSUME kmalloc(1) # <<>>
  PROVE  /\ kmalloc(1)[1] \in PageBlocks \ allocated
         /\ Range(kmalloc(1)) = {kmalloc(1)[1]}
<1> DEFINE got == kmalloc(1)
<1>1. /\ got \in Seq(PageBlocks \ allocated)
      /\ Len(got) \in 0..1 /\ DOMAIN got = 1..Len(got)
      /\ \A i \in DOMAIN got : got[i] \in PageBlocks \ allocated
  BY KmallocIs, Zenon
<1> HIDE DEF got
<1>2. Len(got) # 0
  <2>1. got # <<>>
    BY DEF got
  <2>2. QED
    BY <1>1, <2>1
<1>3. DOMAIN got = {1}
  BY <1>1, <1>2
<1>4. QED
  BY <1>1, <1>3 DEF got, Range

\* cmd_mmap starts with a new process that has a stack page.
LEMMA CmdMmapStep ==
  ASSUME MemInv, NEW p \in Procs, cmd_mmap(p)
  PROVE  MemInv'
<1> DEFINE b == kmalloc(1)[1]
<1>1. b \in PageBlocks \ allocated /\ Range(kmalloc(1)) = {b}
  BY OnePage DEF cmd_mmap
<1>2. Frame(b) \in Nat /\ Frame(b) # NotPresent
  BY <1>1, FrameIs
<1>3. /\ p \notin used /\ used' = used \cup {p} /\ current' = current /\ misplaced' = misplaced
      /\ allocated' = allocated \cup {b}
      /\ directory' = [directory EXCEPT ![p] = NewDirectory(b)]
      /\ heap_end' = [heap_end EXCEPT ![p] = HEAP_PAGE]
      /\ mcall = Idle
      /\ mcall' = [Idle EXCEPT !.at = "mmap", !.proc = p, !.addr = HEAP_PAGE, !.n = 2]
  BY <1>1 DEF cmd_mmap, InSyscall
<1> HIDE DEF b
<1>4. HEAP_PAGE \in Pages /\ StackPage \notin HeapPages /\ HeapPages \subseteq Pages
  BY AddressSpaceAssumption DEF HEAP_PAGE, Pages, StackPage, HeapPages
<1>5. \A v \in Pages : directory'[p][v] = IF v = StackPage THEN Frame(b) ELSE NotPresent
  BY <1>3, MemFacts DEF NewDirectory
<1>6. \A q \in used : directory'[q] = directory[q] /\ heap_end'[q] = heap_end[q]
  BY <1>3, MemFacts
<1>7. MemTypes'
  <2>1. NewDirectory(b) \in [Pages -> Nat]
    BY <1>2 DEF NewDirectory, NotPresent
  <2>2. directory' \in [Procs -> [Pages -> Nat]]
    BY <1>3, <2>1 DEF MemInv, MemTypes
  <2>3. heap_end' \in [Procs -> Pages]
    BY <1>3, <1>4 DEF MemInv, MemTypes
  <2>4. mcall' = [at |-> "mmap", proc |-> p, addr |-> 1, n |-> 2, i |-> 0, j |-> 0, last |-> FALSE]
    BY <1>3, Zenon DEF Idle, HEAP_PAGE
  <2>5. mcall' \in [at : {"idle", "mmap", "rollback"}, proc : Procs, addr : Nat, n : Nat,
                    i : Nat, j : Nat, last : BOOLEAN]
    BY <2>4
  <2>6. used' \subseteq Procs /\ current' \in used' /\ allocated' \subseteq PageBlocks
    BY <1>1, <1>3, MemFacts
  <2>7. QED
    BY <2>2, <2>3, <2>5, <2>6 DEF MemTypes
<1>8. CallInv'
  <2>1. \A v \in HeapPages : directory'[p][v] = NotPresent
    BY <1>4, <1>5
  <2>2. QED
    BY <1>3, <2>1 DEF CallInv, Idle, HEAP_PAGE
<1>9. Sound(used', directory', allocated')
  <2>1. ASSUME NEW q \in used', NEW v \in Pages
        PROVE  \/ directory'[q][v] = NotPresent
               \/ q \in used /\ directory'[q][v] = directory[q][v]
               \/ directory'[q][v] = Frame(b)
    BY <1>3, <1>5, <1>6
  <2>2. ASSUME NEW q \in used', NEW v \in Pages, directory'[q][v] = Frame(b)
        PROVE  q = p /\ v = StackPage
    <3>1. q \notin used
      BY <1>1, <1>2, <1>6, <2>2, FreeUnmapped
    <3>2. QED
      BY <1>2, <1>3, <1>5, <2>2, <3>1
  <2>3. Remap(used, directory, allocated, used', directory', {b}, {})
    <3>1. allocated \subseteq PageBlocks /\ {b} \subseteq PageBlocks \ allocated
      BY <1>1, MemFacts
    <3>2. QED
      BY <2>1, <2>2, <3>1, Zenon DEF Remap
  <2>4. Sound(used', directory', (allocated \cup {b}) \ {})
    BY <2>3, MemFacts, RemapSound
  <2>5. QED
    BY <1>3, <2>4
<1>10. NothingAboveBreak'
  <2>1. \A v \in HeapPages : directory'[p][v] = NotPresent
    BY <1>4, <1>5
  <2>2. \A q \in used \ misplaced : \A v \in HeapPages : directory[q][v] # NotPresent => v < heap_end[q]
    BY <1>3 DEF MemInv, NothingAboveBreak, Idle
  <2>3. QED
    BY <1>3, <1>6, <2>1, <2>2 DEF NothingAboveBreak
<1>11. QED
  BY <1>7, <1>8, <1>9, <1>10 DEF MemInv

\* What is known of cmd_mmap while it runs.
LEMMA CallFacts ==
  ASSUME MemInv, mcall.at # "idle"
  PROVE  /\ mcall.proc \in used /\ mcall.proc \in Procs
         /\ mcall.addr \in Nat /\ mcall.n \in Nat /\ mcall.i \in Nat /\ mcall.j \in Nat
         /\ mcall.last \in BOOLEAN
         /\ mcall.addr + mcall.n <= 4 /\ (~ mcall.last => mcall.addr + mcall.n <= 3)
         /\ 4 <= StackPage /\ StackPage \in Nat
         /\ mcall.i <= mcall.n /\ mcall.j <= mcall.i
         /\ mcall.at = "mmap" => mcall.j = 0
         /\ mcall.proc \notin misplaced =>
              \A v \in HeapPages : directory[mcall.proc][v] # NotPresent =>
                \/ v < heap_end[mcall.proc]
                \/ mcall.addr + mcall.j <= v /\ v < mcall.addr + mcall.i
  BY AddressSpaceAssumption DEF MemInv, MemTypes, CallInv, StackPage

\* The next page of cmd_mmap, or the end of memory.
LEMMA MmapPageStep ==
  ASSUME MemInv, mmap_page
  PROVE  MemInv'
<1> DEFINE p == mcall.proc
           at == mcall.addr + mcall.i
           b == kmalloc(1)[1]
<1>1. mcall.at = "mmap" /\ mcall.i < mcall.n /\ used' = used /\ current' = current
      /\ heap_end' = heap_end /\ misplaced' = misplaced
  BY DEF mmap_page
<1>2. p \in used /\ p \in Procs /\ at \in Pages
  BY <1>1, CallFacts, SMTT(20) DEF Pages
<1>3. CASE kmalloc(1) = <<>>
  <2>1. directory' = directory /\ allocated' = allocated /\ mcall' = [mcall EXCEPT !.at = "rollback"]
    BY <1>3 DEF mmap_page
  <2>2. MemTypes'
    BY <1>1, <2>1 DEF MemInv, MemTypes
  <2>3. CallInv'
    BY <1>1, <2>1 DEF MemInv, MemTypes, CallInv
  <2>4. Sound(used', directory', allocated')
    BY <1>1, <2>1 DEF MemInv
  <2>5. NothingAboveBreak'
    BY <1>1, <2>1 DEF MemInv, MemTypes, NothingAboveBreak
  <2>6. QED
    BY <2>2, <2>3, <2>4, <2>5 DEF MemInv
<1>4. CASE kmalloc(1) # <<>>
  <2>1. b \in PageBlocks \ allocated /\ Range(kmalloc(1)) = {b}
    BY <1>4, OnePage
  <2>2. Frame(b) \in Nat /\ Frame(b) # NotPresent
    BY <2>1, FrameIs
  <2>3. /\ directory' = [directory EXCEPT ![p][at] = Frame(b)]
        /\ allocated' = allocated \cup {b}
        /\ mcall' = [mcall EXCEPT !.i = @ + 1]
    BY <1>4, <2>1 DEF mmap_page
  <2> HIDE DEF b
  <2>4. mcall'.at = "mmap" /\ mcall'.proc = p /\ mcall'.i = mcall.i + 1 /\ mcall'.j = mcall.j
        /\ mcall'.addr = mcall.addr /\ mcall'.n = mcall.n /\ mcall'.last = mcall.last
    BY <1>1, <2>3 DEF MemInv, MemTypes
  <2>5. \A q \in Procs : q # p => directory'[q] = directory[q]
    BY <2>3, MemFacts
  <2>6. \A v \in Pages : directory'[p][v] = IF v = at THEN Frame(b) ELSE directory[p][v]
    BY <1>2, <2>3, MemFacts
  <2>7. MemTypes'
    <3>1. [directory[p] EXCEPT ![at] = Frame(b)] \in [Pages -> Nat]
      BY <1>2, <2>2, MemFacts
    <3>2. directory' \in [Procs -> [Pages -> Nat]]
      BY <1>2, <2>3, <3>1 DEF MemInv, MemTypes
    <3>3. QED
      BY <1>1, <2>1, <2>3, <3>2 DEF MemInv, MemTypes
  <2>8. CallInv'
    <3>1. ASSUME p \notin misplaced, NEW v \in HeapPages, directory'[p][v] # NotPresent
          PROVE  v < heap_end[p] \/ (mcall.addr + mcall.j <= v /\ v < mcall.addr + (mcall.i + 1))
      <4>1. v \in Pages /\ v \in Nat /\ heap_end[p] \in Nat
        <5>1. v \in Pages /\ v \in Nat
          BY AddressSpaceAssumption DEF HeapPages, Pages, StackPage
        <5>2. heap_end[p] \in Pages
          BY <1>2, MemFacts
        <5>3. heap_end[p] \in Nat
          BY <5>2, AddressSpaceAssumption DEF Pages, StackPage
        <5>4. QED
          BY <5>1, <5>3
      <4>2. CASE v = at
        BY <1>1, <4>2, CallFacts
      <4>3. CASE v # at
        BY <1>1, <2>6, <3>1, <4>1, <4>3, CallFacts
      <4>4. QED
        BY <4>2, <4>3
    <3>2. mcall.i + 1 <= mcall.n /\ mcall.j <= mcall.i + 1 /\ mcall.j = 0
      BY <1>1, CallFacts
    <3>3. mcall.addr + mcall.n <= (IF mcall.last THEN 4 ELSE 3)
      BY <1>1, CallFacts
    <3>4. QED
      BY <1>1, <1>2, <2>4, <3>1, <3>2, <3>3 DEF CallInv
  <2>9. Sound(used', directory', allocated')
    <3>1. ASSUME NEW q \in used, NEW v \in Pages
          PROVE  \/ directory'[q][v] = directory[q][v]
                 \/ directory'[q][v] = Frame(b) /\ q = p /\ v = at
      BY <2>5, <2>6, MemFacts
    <3>2. ASSUME NEW q \in used, NEW v \in Pages, directory'[q][v] = Frame(b)
          PROVE  q = p /\ v = at
      BY <2>1, <2>2, <3>1, <3>2, FreeUnmapped
    <3>3. Remap(used, directory, allocated, used, directory', {b}, {})
      <4>1. allocated \subseteq PageBlocks /\ {b} \subseteq PageBlocks \ allocated
        BY <2>1, MemFacts
      <4>2. ASSUME NEW q \in used, NEW v \in Pages
            PROVE  \/ directory'[q][v] = directory[q][v]
                   \/ \E c \in {b} : directory'[q][v] = Frame(c)
        BY <3>1, Zenon
      <4>3. \A x : x \notin {}
        OBVIOUS
      <4>4. ASSUME NEW q \in used, NEW r \in used, NEW v \in Pages, NEW w \in Pages,
                   directory'[q][v] = Frame(b), directory'[r][w] = Frame(b)
            PROVE  q = r /\ v = w
        BY <3>2, <4>4, Zenon
      <4>5. QED
        BY <4>1, <4>2, <4>3, <4>4 DEF Remap
    <3>4. Sound(used, directory', (allocated \cup {b}) \ {})
      BY <3>3, MemFacts, RemapSound
    <3>5. QED
      BY <1>1, <2>3, <3>4
  <2>10. NothingAboveBreak'
    BY <1>1, <2>4, <2>5, MemFacts DEF MemInv, NothingAboveBreak
  <2>11. QED
    BY <2>7, <2>8, <2>9, <2>10 DEF MemInv
<1>5. QED
  BY <1>3, <1>4

\* The break moves above the pages that were mapped.
LEMMA MmapDoneStep ==
  ASSUME MemInv, mmap_done
  PROVE  MemInv'
<1> DEFINE p == mcall.proc
           end == mcall.addr + mcall.n
           top == Max({heap_end[p], end})
<1>1. /\ mcall.at = "mmap" /\ mcall.i = mcall.n
      /\ used' = used /\ current' = current /\ directory' = directory /\ allocated' = allocated
      /\ misplaced' = misplaced
      /\ heap_end' = [heap_end EXCEPT ![p] = top]
      /\ mcall' = IF mcall.last THEN Idle
                  ELSE [mcall EXCEPT !.addr = end, !.n = 1, !.i = 0, !.last = TRUE]
  BY DEF mmap_done
<1>2. p \in used /\ p \in Procs /\ end \in Pages /\ heap_end[p] \in Pages /\ end \in Nat
  BY <1>1, CallFacts, MemFacts DEF Pages
<1>3. top \in Pages /\ top \in Nat /\ heap_end[p] <= top /\ end <= top /\ heap_end[p] \in Nat
  <2>1. heap_end[p] \in Nat /\ StackPage \in Nat
    BY <1>2, AddressSpaceAssumption DEF Pages, StackPage
  <2>2. \E x \in {heap_end[p], end} : \A y \in {heap_end[p], end} : x >= y
    BY <1>2, <2>1
  <2>3. top \in {heap_end[p], end} /\ top >= heap_end[p] /\ top >= end
    BY <2>2 DEF Max
  <2>4. QED
    BY <1>2, <2>1, <2>3
<1> HIDE DEF top
<1>4. ~ mcall.last => /\ mcall'.at = "mmap" /\ mcall'.proc = p /\ mcall'.i = 0 /\ mcall'.j = 0
                      /\ mcall'.addr = end /\ mcall'.n = 1 /\ mcall'.last = TRUE
  BY <1>1, CallFacts DEF MemInv, MemTypes
<1>5. heap_end'[p] = top /\ \A q \in Procs : q # p => heap_end'[q] = heap_end[q]
  BY <1>1, <1>2, MemFacts
<1>6. ASSUME p \notin misplaced, NEW v \in HeapPages, directory[p][v] # NotPresent
      PROVE  v < top
  <2>1. v \in Nat
    BY DEF HeapPages
  <2>2. QED
    BY <1>1, <1>2, <1>3, <1>6, <2>1, CallFacts
<1>7. MemTypes'
  <2>1. heap_end' \in [Procs -> Pages]
    BY <1>1, <1>2, <1>3 DEF MemInv, MemTypes
  <2>2. mcall' \in [at : {"idle", "mmap", "rollback"}, proc : Procs, addr : Nat, n : Nat,
                    i : Nat, j : Nat, last : BOOLEAN]
    BY <1>1, <1>2, AddressSpaceAssumption, Zenon DEF MemInv, MemTypes, Idle
  <2>3. QED
    BY <1>1, <2>1, <2>2 DEF MemInv, MemTypes
<1>8. CallInv'
  <2>1. CASE mcall.last
    BY <1>1, <2>1 DEF CallInv, Idle
  <2>2. CASE ~ mcall.last
    <3>1. end + 1 <= 4
      BY <1>1, <2>2, CallFacts
    <3>2. QED
      BY <1>1, <1>2, <1>4, <1>5, <1>6, <2>2, <3>1 DEF CallInv
  <2>3. QED
    BY <2>1, <2>2
<1>9. NothingAboveBreak'
  <2>1. SUFFICES ASSUME NEW q \in used \ misplaced, NEW v \in HeapPages, directory[q][v] # NotPresent
                 PROVE  v < heap_end'[q]
    BY <1>1 DEF NothingAboveBreak
  <2>2. CASE q = p
    BY <1>5, <1>6, <2>1, <2>2
  <2>3. CASE q # p
    BY <1>5, <2>1, <2>3, MemFacts DEF MemInv, NothingAboveBreak
  <2>4. QED
    BY <2>2, <2>3
<1>10. QED
  BY <1>1, <1>7, <1>8, <1>9 DEF MemInv

\* The roll-back, in whichever directory is loaded: another process may lose a page
\* by it, but no entry is left without its page.
LEMMA RollbackStep ==
  ASSUME MemInv, mmap_rollback
  PROVE  MemInv'
<1> DEFINE p == mcall.proc
           v == mcall.addr + mcall.j
           f == directory[current][v]
<1>1. mcall.at = "rollback" /\ used' = used /\ current' = current /\ heap_end' = heap_end
  BY DEF mmap_rollback
<1>2. p \in used /\ p \in Procs /\ current \in used /\ current \in Procs
  BY <1>1, CallFacts, MemFacts
<1>3. CASE mcall.j = mcall.i
  <2>1. mcall' = Idle /\ directory' = directory /\ allocated' = allocated /\ misplaced' = misplaced
    BY <1>3 DEF mmap_rollback
  <2>2. MemTypes'
    BY <1>1, <2>1, AddressSpaceAssumption DEF MemInv, MemTypes, Idle
  <2>3. CallInv'
    BY <2>1 DEF CallInv, Idle
  <2>4. NothingAboveBreak'
    <3>1. SUFFICES ASSUME NEW q \in used \ misplaced, NEW w \in HeapPages, directory[q][w] # NotPresent
                   PROVE  w < heap_end[q]
      BY <1>1, <2>1 DEF NothingAboveBreak
    <3>2. CASE q = p
      <4>1. w \in Nat /\ heap_end[p] \in Nat
        BY <1>2, MemFacts DEF HeapPages, Pages
      <4>2. QED
        BY <1>1, <1>3, <3>1, <3>2, <4>1, CallFacts
    <3>3. CASE q # p
      BY <3>1, <3>3 DEF MemInv, NothingAboveBreak
    <3>4. QED
      BY <3>2, <3>3
  <2>5. QED
    BY <1>1, <2>1, <2>2, <2>3, <2>4 DEF MemInv
<1>4. CASE mcall.j # mcall.i
  <2>1. v \in Pages /\ mcall.j < mcall.i
    BY <1>1, <1>4, CallFacts DEF Pages
  <2>2. /\ directory' = [directory EXCEPT ![current][v] = NotPresent]
        /\ misplaced' = IF current = p THEN misplaced ELSE misplaced \cup {p}
        /\ mcall' = [mcall EXCEPT !.j = @ + 1]
    BY <1>4 DEF mmap_rollback
  <2>3. allocated' = allocated \ ({f} \ {NotPresent})
    BY <1>4 DEF mmap_rollback, kfree_frame
  <2>4. mcall'.at = "rollback" /\ mcall'.proc = p /\ mcall'.i = mcall.i /\ mcall'.j = mcall.j + 1
        /\ mcall'.addr = mcall.addr /\ mcall'.n = mcall.n /\ mcall'.last = mcall.last
    BY <1>1, <2>2 DEF MemInv, MemTypes
  <2>5. \A q \in Procs : q # current => directory'[q] = directory[q]
    BY <2>2, MemFacts
  <2>6. \A w \in Pages : directory'[current][w] = IF w = v THEN NotPresent ELSE directory[current][w]
    BY <1>2, <2>1, <2>2, MemFacts
  <2>7. MemTypes'
    <3>1. [directory[current] EXCEPT ![v] = NotPresent] \in [Pages -> Nat]
      BY <1>2, <2>1, MemFacts DEF NotPresent
    <3>2. directory' \in [Procs -> [Pages -> Nat]]
      BY <1>2, <2>2, <3>1 DEF MemInv, MemTypes
    <3>3. QED
      BY <1>1, <2>2, <2>3, <3>2 DEF MemInv, MemTypes
  <2>8. CallInv'
    <3>1. ASSUME p \notin misplaced', NEW w \in HeapPages, directory'[p][w] # NotPresent
          PROVE  w < heap_end[p] \/ (mcall.addr + (mcall.j + 1) <= w /\ w < mcall.addr + mcall.i)
      <4>1. current = p /\ p \notin misplaced
        BY <2>2, <3>1
      <4>2. w \in Pages /\ w \in Nat /\ heap_end[p] \in Nat
        BY <1>2, MemFacts, AddressSpaceAssumption DEF HeapPages, Pages, StackPage
      <4>3. w # v /\ directory[p][w] # NotPresent
        BY <2>6, <3>1, <4>1, <4>2
      <4>4. w < heap_end[p] \/ (mcall.addr + mcall.j <= w /\ w < mcall.addr + mcall.i)
        BY <1>1, <4>1, <4>3, CallFacts
      <4>5. PICK a \in Nat, i \in Nat, j \in Nat :
              a = mcall.addr /\ i = mcall.i /\ j = mcall.j /\ v = a + j
        BY <1>1, CallFacts, Zenon
      <4>6. (a + j <= w /\ w # a + j) => a + (j + 1) <= w
        BY <4>2
      <4>7. QED
        BY <4>3, <4>4, <4>5, <4>6, Zenon
    <3>2. mcall.j + 1 <= mcall.i /\ mcall.i <= mcall.n
      BY <1>1, <2>1, CallFacts
    <3>3. mcall.addr + mcall.n <= (IF mcall.last THEN 4 ELSE 3)
      BY <1>1, CallFacts
    <3>4. QED
      BY <1>1, <1>2, <2>4, <3>1, <3>2, <3>3 DEF CallInv
  <2>9. Sound(used', directory', allocated')
    <3> DEFINE F == {f} \ {NotPresent}
    <3>1. \A g \in F : g = directory[current][v] /\ g # NotPresent
      OBVIOUS
    <3> HIDE DEF F
    <3>2. \A g \in F : \E b \in PageBlocks : g = Frame(b)
      BY <1>2, <2>1, <3>1, MemFacts DEF Sound
    <3>3. ASSUME NEW q \in used, NEW w \in Pages
          PROVE  \/ directory'[q][w] = NotPresent
                 \/ directory'[q][w] = directory[q][w] /\ directory'[q][w] \notin F
      <4>1. CASE q = current /\ w = v
        BY <2>6, <4>1
      <4>2. CASE ~ (q = current /\ w = v)
        <5>1. directory'[q][w] = directory[q][w]
          BY <2>5, <2>6, <4>2, MemFacts
        <5>2. directory[q][w] # NotPresent => directory[q][w] \notin F
          BY <1>2, <2>1, <3>1, <4>2, MemFacts DEF Sound
        <5>3. QED
          BY <5>1, <5>2
      <4>3. QED
        BY <4>1, <4>2
    <3>4. Remap(used, directory, allocated, used, directory', {}, F)
      BY <3>2, <3>3, MemFacts DEF Remap
    <3>5. Sound(used, directory', (allocated \cup {}) \ F)
      BY <3>4, MemFacts, RemapSound
    <3>6. allocated' = (allocated \cup {}) \ F
      BY <2>3 DEF F
    <3>7. QED
      BY <1>1, <3>5, <3>6
  <2>10. NothingAboveBreak'
    <3>1. SUFFICES ASSUME NEW q \in used \ misplaced', NEW w \in HeapPages, directory'[q][w] # NotPresent,
                          q # p
                   PROVE  w < heap_end[q]
      BY <1>1, <2>4 DEF NothingAboveBreak
    <3>2. q \notin misplaced /\ w \in Pages
      BY <2>2, <3>1, AddressSpaceAssumption DEF HeapPages, Pages, StackPage
    <3>3. directory[q][w] # NotPresent
      BY <2>5, <2>6, <3>1, <3>2, MemFacts
    <3>4. QED
      BY <3>1, <3>2, <3>3 DEF MemInv, NothingAboveBreak
  <2>11. QED
    BY <2>7, <2>8, <2>9, <2>10 DEF MemInv
<1>5. QED
  BY <1>3, <1>4

\* Every step of the calls, of the timer and of cmd_memtest preserves the invariant.
LEMMA MemStep == MemInv /\ [Next]_vars => MemInv'
<1>1. SUFFICES ASSUME MemInv, [Next]_vars PROVE MemInv'
  OBVIOUS
<1>2. CASE VNext /\ UNCHANGED asvars
  BY <1>1, <1>2, VmallocStep
<1>3. ASSUME NEW addr \in HeapPages, NEW length \in Lengths, sys_mmap(addr, length)
      PROVE  MemInv'
  BY <1>1, <1>3, MmapStep
<1>4. ASSUME NEW new_brk \in HeapPages, sys_brk(new_brk)
      PROVE  MemInv'
  BY <1>1, <1>4, BrkStep
<1>5. ASSUME NEW p \in Procs, sys_fork(p)
      PROVE  MemInv'
  BY <1>1, <1>5, ForkStep
<1>6. ASSUME NEW p \in Procs, cmd_mmap(p)
      PROVE  MemInv'
  BY <1>1, <1>6, CmdMmapStep
<1>7. ASSUME NEW p \in Procs, process_switch(p)
      PROVE  MemInv'
  <2>1. p \in used /\ current' = p
        /\ UNCHANGED <<used, directory, heap_end, mcall, misplaced, allocated>>
    BY <1>7 DEF process_switch
  <2>2. MemTypes' /\ CallInv' /\ NothingAboveBreak'
    BY <1>1, <2>1 DEF MemInv, MemTypes, CallInv, NothingAboveBreak
  <2>3. QED
    BY <1>1, <2>1, <2>2 DEF MemInv
<1>8. CASE mmap_page
  BY <1>1, <1>8, MmapPageStep
<1>9. CASE mmap_done
  BY <1>1, <1>9, MmapDoneStep
<1>10. CASE mmap_rollback
  BY <1>1, <1>10, RollbackStep
<1>11. CASE UNCHANGED vars
  <2>1. UNCHANGED <<used, current, directory, heap_end, mcall, misplaced, allocated>>
    BY <1>11 DEF vars, asvars
  <2>2. MemTypes' /\ CallInv' /\ NothingAboveBreak'
    BY <1>1, <2>1 DEF MemInv, MemTypes, CallInv, NothingAboveBreak
  <2>3. QED
    BY <1>1, <2>1, <2>2 DEF MemInv
<1>12. QED
  BY <1>1, <1>2, <1>3, <1>4, <1>5, <1>6, <1>7, <1>8, <1>9, <1>10, <1>11
  DEF Next, AddressSpaceNext

\* For every number of processes, pages and blocks, no two page table entries hold
\* the same frame, whatever was cloned, rolled back or freed before.
THEOREM MemoryFramesDistinct == Spec => []FramesDistinct
<1>1. MemInv => FramesDistinct
  BY SoundIs DEF MemInv
<1>2. QED
  BY <1>1, MemInit, MemStep, PTL DEF Spec

\* Every entry's page is allocated: neither a failed mmap, nor a fork that runs out
\* of memory, nor a roll-back in the wrong directory leaves one behind.
THEOREM MemoryNoDangling == Spec => []NoDanglingMapping
<1>1. MemInv => NoDanglingMapping
  BY SoundIs DEF MemInv
<1>2. QED
  BY <1>1, MemInit, MemStep, PTL DEF Spec

\* Nothing stays mapped above a process's break once its mmap or brk is over, but
\* for the processes whose roll-back the timer diverted and their children.
THEOREM MemoryNothingAboveBreak == Spec => []NothingAboveBreak
<1>1. MemInv => NothingAboveBreak
  BY DEF MemInv
<1>2. QED
  BY <1>1, MemInit, MemStep, PTL DEF Spec

-----------------------------------------------------------------------------
\* The list of vmalloc.c is reasoned about by sums over its blocks: each block b has a
\* weight w[b], and SumIs(list, w, x) says that the weights of the list add up to x.
VBlock == [virt_addr : Nat, size : Nat \ {0}, is_free : BOOLEAN]

Totals(list, w, f) ==
  /\ f \in [0..Len(list) -> Int] /\ f[0] = 0
  /\ \A n \in 1..Len(list) : f[n] = f[n - 1] + w[list[n]]

SumIs(list, w, x) == \E f : Totals(list, w, f) /\ f[Len(list)] = x

\* A block of the list has a weight.
LEMMA WeightIs ==
  ASSUME NEW list \in Seq(VBlock), NEW w \in [VBlock -> Int]
  PROVE  /\ \A n \in 1..Len(list) : list[n] \in VBlock /\ w[list[n]] \in Int
         /\ \A b \in VBlock : w[b] \in Int
<1>1. \A n \in 1..Len(list) : list[n] \in VBlock
  OBVIOUS
<1>2. \A b \in VBlock : w[b] \in Int
  OBVIOUS
<1>3. QED
  BY <1>1, <1>2, Zenon

\* A list has one sum.
LEMMA SumUnique ==
  ASSUME NEW list \in Seq(VBlock), NEW w \in [VBlock -> Int], NEW x, NEW y,
         SumIs(list, w, x), SumIs(list, w, y)
  PROVE  x = y /\ x \in Int
<1>1. PICK f : Totals(list, w, f) /\ f[Len(list)] = x
  BY Zenon DEF SumIs
<1>2. PICK g : Totals(list, w, g) /\ g[Len(list)] = y
  BY Zenon DEF SumIs
<1>a. Len(list) \in Nat
  OBVIOUS
<1>b. \A i, m \in Nat : /\ i + 1 \in Nat
                       /\ i + 1 <= m => i + 1 \in 1..m /\ (i + 1) - 1 = i /\ i <= m
  OBVIOUS
<1> DEFINE Same == {n \in Nat : n <= Len(list) => f[n] = g[n]}
<1>c. \A n : n \in Same <=> n \in Nat /\ (n <= Len(list) => f[n] = g[n])
  BY Zenon
<1>d. Same \in SUBSET Nat
  BY Zenon
<1>3. 0 \in Same
  BY <1>1, <1>2 DEF Totals
<1> HIDE DEF Same
<1>4. ASSUME NEW n \in Same PROVE n + 1 \in Same
  <2>1. n \in Nat /\ n + 1 \in Nat
    BY <1>4, <1>b, <1>c
  <2>2. ASSUME n + 1 <= Len(list)
        PROVE  n + 1 \in 1..Len(list) /\ (n + 1) - 1 = n /\ f[n] = g[n]
    <3>1. n + 1 \in 1..Len(list) /\ (n + 1) - 1 = n /\ n <= Len(list)
      BY <1>a, <1>b, <2>1, <2>2, Zenon
    <3>2. QED
      BY <1>4, <1>c, <3>1, Zenon
  <2>3. ASSUME n + 1 <= Len(list) PROVE f[n + 1] = g[n + 1]
    <3>1. /\ f[n + 1] = f[(n + 1) - 1] + w[list[n + 1]]
          /\ g[n + 1] = g[(n + 1) - 1] + w[list[n + 1]]
      BY <1>1, <1>2, <2>2, <2>3, Zenon DEF Totals
    <3>2. QED
      BY <2>2, <2>3, <3>1, Zenon
  <2>4. QED
    BY <1>c, <2>1, <2>3, Zenon
<1>5. Len(list) \in Same
  <2>1. Same = Nat
    BY <1>3, <1>4, <1>d, NatSetInduction, Zenon
  <2>2. QED
    BY <1>a, <2>1, Zenon
<1>6. f[Len(list)] = g[Len(list)]
  BY <1>a, <1>c, <1>5
<1>7. QED
  BY <1>1, <1>2, <1>6 DEF Totals

\* One block replaced.
LEMMA SumExcept ==
  ASSUME NEW list \in Seq(VBlock), NEW w \in [VBlock -> Int], NEW k \in 1..Len(list),
         NEW b \in VBlock, NEW x, SumIs(list, w, x)
  PROVE  SumIs([list EXCEPT ![k] = b], w, (x - w[list[k]]) + w[b])
<1>1. PICK f : Totals(list, w, f) /\ f[Len(list)] = x
  BY Zenon DEF SumIs
<1>2. PICK old \in Int, new \in Int : old = w[list[k]] /\ new = w[b]
  BY Zenon, WeightIs
<1>3. PICK changed : changed = [list EXCEPT ![k] = b]
  BY Zenon
<1>4. PICK m \in Nat : m = Len(list)
  OBVIOUS
<1>5. /\ Len(changed) = m
      /\ \A n \in 1..m : changed[n] = IF n = k THEN b ELSE list[n]
  BY <1>3, <1>4
<1>6. k \in 1..m /\ f \in [0..m -> Int] /\ f[0] = 0 /\ f[m] = x
  BY <1>1, <1>4, Zenon DEF Totals
<1>7. \A n \in 1..m : f[n] = f[n - 1] + w[list[n]] /\ w[list[n]] \in Int
  BY <1>1, <1>4, WeightIs, Zenon DEF Totals
<1> DEFINE g == [n \in 0..m |-> IF n < k THEN f[n] ELSE (f[n] - old) + new]
<1>8. ASSUME NEW n \in 1..m PROVE g[n] = g[n - 1] + w[changed[n]]
  <2>1. n \in 0..m /\ n - 1 \in 0..m
    BY <1>4
  <2>2. f[n] \in Int /\ f[n - 1] \in Int
    BY <1>6, <2>1, Zenon
  <2>3. CASE n < k
    <3>1. g[n] = f[n] /\ g[n - 1] = f[n - 1] /\ changed[n] = list[n]
      BY <1>4, <1>5, <1>6, <2>1, <2>3
    <3>2. QED
      BY <1>7, <3>1
  <2>4. CASE n = k
    <3>1. g[n] = (f[n] - old) + new /\ g[n - 1] = f[n - 1] /\ changed[n] = b
      BY <1>4, <1>5, <1>6, <2>1, <2>4
    <3>2. f[n] = f[n - 1] + old
      BY <1>2, <1>7, <2>4, Zenon
    <3>3. (f[n] - old) + new = f[n - 1] + new
      BY <2>2, <3>2
    <3>4. QED
      BY <1>2, <3>1, <3>3, Zenon
  <2>5. CASE n > k
    <3>1. g[n] = (f[n] - old) + new /\ g[n - 1] = (f[n - 1] - old) + new
          /\ changed[n] = list[n]
      BY <1>4, <1>5, <1>6, <2>1, <2>5
    <3>2. PICK u \in Int, v \in Int : u = f[n - 1] /\ v = w[list[n]] /\ f[n] = u + v
      BY <1>7, <2>2, Zenon
    <3>3. ((u + v) - old) + new = ((u - old) + new) + v
      OBVIOUS
    <3>4. QED
      BY <3>1, <3>2, <3>3, Zenon
  <2>6. QED
    BY <1>6, <2>3, <2>4, <2>5
<1>9. g \in [0..m -> Int] /\ g[0] = 0 /\ g[m] = (x - old) + new
  BY <1>4, <1>6
<1>10. Totals(changed, w, g)
  BY <1>5, <1>8, <1>9, Zenon DEF Totals
<1>11. QED
  BY <1>2, <1>3, <1>5, <1>9, <1>10, Zenon DEF SumIs

\* The list longer is list with block b after block k.
Inserted(longer, list, k, b) ==
  /\ Len(longer) = Len(list) + 1
  /\ \A n \in 1..(Len(list) + 1) :
       longer[n] = IF n <= k THEN list[n] ELSE IF n = k + 1 THEN b ELSE list[n - 1]

\* One block more, after block k.
LEMMA SumInsert ==
  ASSUME NEW list \in Seq(VBlock), NEW w \in [VBlock -> Int], NEW k \in 0..Len(list),
         NEW b \in VBlock, NEW x, SumIs(list, w, x), NEW longer, Inserted(longer, list, k, b)
  PROVE  SumIs(longer, w, x + w[b])
<1>1. PICK f : Totals(list, w, f) /\ f[Len(list)] = x
  BY Zenon DEF SumIs
<1>2. PICK new \in Int : new = w[b]
  BY Zenon, WeightIs
<1>3. PICK m \in Nat : m = Len(list)
  OBVIOUS
<1>4. k \in 0..m /\ f \in [0..m -> Int] /\ f[0] = 0 /\ f[m] = x
  BY <1>1, <1>3, Zenon DEF Totals
<1>5. \A n \in 1..m : f[n] = f[n - 1] + w[list[n]] /\ w[list[n]] \in Int
  BY <1>1, <1>3, WeightIs, Zenon DEF Totals
<1>6. /\ Len(longer) = m + 1
      /\ \A n \in 1..(m + 1) :
           longer[n] = IF n <= k THEN list[n] ELSE IF n = k + 1 THEN b ELSE list[n - 1]
  BY <1>3, Zenon DEF Inserted
<1> DEFINE g == [n \in 0..(m + 1) |-> IF n <= k THEN f[n] ELSE f[n - 1] + new]
<1>7. ASSUME NEW n \in 1..(m + 1) PROVE g[n] = g[n - 1] + w[longer[n]]
  <2>1. n \in 0..(m + 1) /\ n - 1 \in 0..(m + 1) /\ n - 1 \in 0..m
    BY <1>3
  <2>2. f[n - 1] \in Int
    BY <1>4, <2>1, Zenon
  <2>3. CASE n <= k
    <3>1. g[n] = f[n] /\ g[n - 1] = f[n - 1] /\ longer[n] = list[n] /\ n \in 1..m
      BY <1>3, <1>4, <1>6, <2>1, <2>3, SMTT(30)
    <3>2. QED
      BY <1>5, <3>1, Zenon
  <2>4. CASE n = k + 1
    <3>1. g[n] = f[n - 1] + new /\ g[n - 1] = f[n - 1] /\ longer[n] = b
      BY <1>3, <1>4, <1>6, <2>1, <2>4
    <3>2. QED
      BY <1>2, <3>1, Zenon
  <2>5. CASE n > k + 1
    <3>1. /\ g[n] = f[n - 1] + new /\ g[n - 1] = f[(n - 1) - 1] + new
          /\ longer[n] = list[n - 1] /\ n - 1 \in 1..m /\ (n - 1) - 1 \in 0..m
      BY <1>3, <1>4, <1>6, <2>1, <2>5
    <3>2. f[(n - 1) - 1] \in Int
      BY <1>4, <3>1, Zenon
    <3>3. PICK u \in Int, v \in Int :
            u = f[(n - 1) - 1] /\ v = w[list[n - 1]] /\ f[n - 1] = u + v
      BY <1>5, <3>1, <3>2, Zenon
    <3>4. (u + v) + new = (u + new) + v
      OBVIOUS
    <3>5. QED
      BY <3>1, <3>3, <3>4, Zenon
  <2>6. n <= k \/ n = k + 1 \/ n > k + 1
    BY <1>4
  <2>7. QED
    BY <2>3, <2>4, <2>5, <2>6, Zenon
<1>8. g \in [0..(m + 1) -> Int] /\ g[0] = 0 /\ g[m + 1] = x + new
  <2>1. ASSUME NEW n \in 0..(m + 1)
        PROVE  (n <= k => f[n] \in Int) /\ (~(n <= k) => f[n - 1] + new \in Int)
    <3>1. (n <= k => n \in 0..m) /\ (~(n <= k) => n - 1 \in 0..m)
      BY <1>3, <1>4
    <3>2. QED
      BY <1>4, <3>1
  <2>2. g \in [0..(m + 1) -> Int]
    BY <2>1, Zenon
  <2>3. g[0] = 0
    BY <1>3, <1>4
  <2>4. m + 1 \in 0..(m + 1) /\ ~(m + 1 <= k) /\ (m + 1) - 1 = m
    BY <1>3, <1>4
  <2>5. g[m + 1] = x + new
    BY <1>4, <2>4, Zenon
  <2>6. QED
    BY <2>2, <2>3, <2>5, Zenon
<1>9. Totals(longer, w, g)
  BY <1>6, <1>7, <1>8, Zenon DEF Totals
<1>10. QED
  BY <1>2, <1>6, <1>8, <1>9, Zenon DEF SumIs

\* The list with a block linked in, as vmalloc's split does it.
LEMMA LinkAfterIs ==
  ASSUME NEW list \in Seq(VBlock), NEW k \in 1..Len(list), NEW b \in VBlock
  PROVE  /\ LinkAfter(list, k, b) \in Seq(VBlock)
         /\ Inserted(LinkAfter(list, k, b), list, k, b)
<1>1. PICK m \in Nat : m = Len(list)
  OBVIOUS
<1>2. PICK head : head = SubSeq(list, 1, k)
  BY Zenon
<1>3. PICK rest : rest = SubSeq(list, k + 1, m)
  BY Zenon
<1>4. /\ head \in Seq(VBlock) /\ Len(head) = k
      /\ \A n \in 1..k : head[n] = list[n]
  BY <1>1, <1>2
<1>5. /\ rest \in Seq(VBlock) /\ Len(rest) = m - k
      /\ \A n \in 1..(m - k) : rest[n] = list[n + k]
  BY <1>1, <1>3
<1>6. PICK mid : mid = head \o <<b>>
  BY Zenon
<1>7. /\ mid \in Seq(VBlock) /\ Len(mid) = k + 1
      /\ \A n \in 1..(k + 1) : mid[n] = IF n <= k THEN list[n] ELSE b
  BY <1>4, <1>6
<1>8. PICK linked : linked = mid \o rest
  BY Zenon
<1>9. LinkAfter(list, k, b) = linked
  BY <1>1, <1>2, <1>3, <1>6, <1>8, Zenon DEF LinkAfter
<1>10. k \in Nat /\ k <= m
  BY <1>1
<1>11. /\ linked \in Seq(VBlock) /\ Len(linked) = Len(mid) + Len(rest)
       /\ \A n \in 1..(Len(mid) + Len(rest)) :
            linked[n] = IF n <= Len(mid) THEN mid[n] ELSE rest[n - Len(mid)]
  <2>1. mid \in Seq(VBlock) /\ rest \in Seq(VBlock)
    BY <1>5, <1>7, Zenon
  <2>2. QED
    BY <1>8, <2>1
<1>12. Len(mid) + Len(rest) = m + 1
  BY <1>5, <1>7, <1>10
<1>13. ASSUME NEW n \in 1..(m + 1)
       PROVE  linked[n] = IF n <= k THEN list[n] ELSE IF n = k + 1 THEN b ELSE list[n - 1]
  <2>1. CASE n <= k + 1
    <3>1. linked[n] = mid[n] /\ n \in 1..(k + 1)
      BY <1>7, <1>10, <1>11, <1>12, <2>1
    <3>2. mid[n] = IF n <= k THEN list[n] ELSE b
      BY <1>7, <3>1, Zenon
    <3>3. ~(n <= k) => n = k + 1
      BY <1>10, <2>1
    <3>4. QED
      BY <3>1, <3>2, <3>3, Zenon
  <2>2. CASE n > k + 1
    <3>1. /\ n - (k + 1) \in 1..(m - k) /\ (n - (k + 1)) + k = n - 1
          /\ ~(n <= k) /\ n # k + 1 /\ ~(n <= k + 1)
      BY <1>10, <2>2
    <3>2. linked[n] = rest[n - (k + 1)]
      BY <1>7, <1>11, <1>12, <3>1, Zenon
    <3>3. rest[n - (k + 1)] = list[n - 1]
      BY <1>5, <3>1
    <3>4. QED
      BY <3>1, <3>2, <3>3, Zenon
  <2>3. QED
    BY <1>10, <2>1, <2>2
<1>14. QED
  BY <1>1, <1>9, <1>11, <1>12, <1>13, Zenon DEF Inserted

\* Weights that count nothing of a free block.
Weights == {w \in [VBlock -> Int] : \A b \in VBlock : b.is_free => w[b] = 0}

\* One pass of vfree's merge loop: block b is joined to the last one when both are free.
MergeBlock(done, b) ==
  IF Len(done) # 0 /\ done[Len(done)].is_free /\ b.is_free
  THEN [done EXCEPT ![Len(done)].size = @ + b.size]
  ELSE Append(done, b)

\* A pass adds the block's weight: joining blocks adds nothing, both being free.
LEMMA MergeBlockIs ==
  ASSUME NEW done \in Seq(VBlock), NEW b \in VBlock
  PROVE  /\ MergeBlock(done, b) \in Seq(VBlock)
         /\ \A w \in Weights : \A x :
              SumIs(done, w, x) => SumIs(MergeBlock(done, b), w, x + w[b])
<1>1. PICK m \in Nat : m = Len(done)
  OBVIOUS
<1>2. CASE m # 0 /\ done[m].is_free /\ b.is_free
  <2>1. m \in 1..Len(done) /\ done[m] \in VBlock
    BY <1>1, <1>2
  <2>2. PICK old \in VBlock : old = done[m]
    BY <2>1
  <2>3. PICK joined : joined = [old EXCEPT !.size = @ + b.size]
    BY Zenon
  <2>4. joined \in VBlock /\ joined.is_free = old.is_free
    <3>1. PICK s \in Nat \ {0} : s = old.size + b.size
      BY DEF VBlock
    <3>2. joined = [old EXCEPT !.size = s]
      BY <2>3, <3>1, Zenon
    <3>3. QED
      BY <3>2, Zenon DEF VBlock
  <2>5. MergeBlock(done, b) = [done EXCEPT ![m] = joined]
    BY <1>1, <1>2, <2>1, <2>2, <2>3 DEF MergeBlock
  <2>6. [done EXCEPT ![m] = joined] \in Seq(VBlock)
    BY <2>1, <2>4
  <2>7. ASSUME NEW w \in Weights, NEW x, SumIs(done, w, x)
        PROVE  SumIs(MergeBlock(done, b), w, x + w[b])
    <3>1. w \in [VBlock -> Int] /\ w[old] = 0 /\ w[b] = 0 /\ w[joined] = 0
      BY <1>2, <2>2, <2>4 DEF Weights
    <3>2. SumIs([done EXCEPT ![m] = joined], w, (x - w[done[m]]) + w[joined])
      BY <2>1, <2>4, <2>7, <3>1, SumExcept
    <3>3. x \in Int
      BY <2>7, <3>1, SumUnique
    <3>4. (x - 0) + 0 = x + 0
      BY <3>3
    <3>5. QED
      BY <2>2, <2>5, <3>1, <3>2, <3>4, Zenon
  <2>8. QED
    BY <2>5, <2>6, <2>7, Zenon
<1>3. CASE ~(m # 0 /\ done[m].is_free /\ b.is_free)
  <2>1. MergeBlock(done, b) = Append(done, b)
    BY <1>1, <1>3, Zenon DEF MergeBlock
  <2>2. PICK longer : longer = Append(done, b)
    BY Zenon
  <2>3. longer \in Seq(VBlock) /\ Inserted(longer, done, m, b)
    <3>1. /\ longer \in Seq(VBlock) /\ Len(longer) = m + 1
          /\ \A n \in 1..(m + 1) :
               longer[n] = IF n <= m THEN done[n] ELSE IF n = m + 1 THEN b ELSE done[n - 1]
      BY <1>1, <2>2
    <3>2. QED
      BY <1>1, <3>1, Zenon DEF Inserted
  <2>4. ASSUME NEW w \in Weights, NEW x, SumIs(done, w, x) PROVE SumIs(longer, w, x + w[b])
    <3>1. w \in [VBlock -> Int] /\ m \in 0..Len(done)
      BY <1>1 DEF Weights
    <3>2. QED
      BY <1>1, <2>3, <2>4, <3>1, SumInsert, Zenon
  <2>5. QED
    BY <2>1, <2>2, <2>3, <2>4, Zenon
<1>4. QED
  BY <1>2, <1>3

\* The empty list weighs nothing.
LEMMA SumEmpty ==
  ASSUME NEW w PROVE SumIs(<<>>, w, 0)
<1> DEFINE f == [n \in 0..0 |-> 0]
<1>1. Totals(<<>>, w, f) /\ f[Len(<<>>)] = 0
  BY DEF Totals
<1>2. QED
  BY <1>1, Zenon DEF SumIs

\* vfree's merge loop over the whole list keeps every sum in which free blocks do not count.
LEMMA MergeFreeIs ==
  ASSUME NEW list \in Seq(VBlock), NEW freed
  PROVE  /\ MergeFree(list, freed) \in Seq(VBlock)
         /\ \A w \in Weights : \A x : SumIs(list, w, x) => SumIs(MergeFree(list, freed), w, x)
<1> DEFINE n == Len(list)
           V == Seq(VBlock)
           pass == [k \in Nat |-> [done \in V |-> IF k \in 1..n THEN MergeBlock(done, list[k])
                                                  ELSE done]]
           step(f) == [k \in 0..n |-> IF k = 0 THEN <<>> ELSE MergeBlock(f[k - 1], list[k])]
<1>1. n \in Nat /\ \A k \in 1..n : list[k] \in VBlock
  OBVIOUS
<1>2. pass \in [Nat -> [V -> V]]
  <2>1. ASSUME NEW k \in 1..n, NEW done \in V PROVE MergeBlock(done, list[k]) \in V
    BY <1>1, MergeBlockIs, Zenon
  <2> HIDE DEF V
  <2>2. QED
    BY <2>1
<1>3. PICK f \in [0..n -> V] : f[0] = <<>> /\ \A k \in 1..n : f[k] = pass[k][f[k - 1]]
  <2>1. <<>> \in V
    OBVIOUS
  <2> HIDE DEF pass, n, V
  <2>2. \E f \in [0..n -> V] : IsWalk(f, <<>>, pass, n)
    BY <1>1, <1>2, <2>1, Iterates, Zenon
  <2>3. QED
    BY <2>2, Zenon DEF IsWalk
<1>4. \A k \in 0..n : f[k] = IF k = 0 THEN <<>> ELSE MergeBlock(f[k - 1], list[k])
  <2>1. \A k \in 0..n : k # 0 => k \in 1..n /\ k \in Nat /\ k - 1 \in 0..n
    BY <1>1
  <2> HIDE DEF n, V
  <2>2. QED
    BY <1>3, <2>1, Zenon
<1>5. f = step(f)
  <2> HIDE DEF n, V, pass
  <2> QED
    BY <1>3, <1>4, Zenon
<1> DEFINE g == CHOOSE h : h = step(h)
<1>6. MergeFree(list, freed) = g[n]
  BY DEF MergeFree, MergeBlock
<1>7. g = step(g)
  <2> HIDE DEF step
  <2> QED
    BY <1>5
<1>8. \A k \in 0..n : g[k] = IF k = 0 THEN <<>> ELSE MergeBlock(g[k - 1], list[k])
  <2> HIDE DEF g
  <2> QED
    BY <1>7
<1> HIDE DEF g, n, pass, step, V
<1> DEFINE Summed(k) == \A w \in Weights : \A h : Totals(list, w, h) => SumIs(g[k], w, h[k])
           Good == {k \in Nat : k <= n => g[k] \in V /\ Summed(k)}
<1>9. 0 \in Good
  <2>1. g[0] = <<>> /\ <<>> \in V
    BY <1>1, <1>8 DEF V
  <2>2. Summed(0)
    BY <2>1, SumEmpty, Zenon DEF Totals
  <2>3. QED
    BY <2>1, <2>2
<1>10. ASSUME NEW k \in Nat, k \in Good PROVE k + 1 \in Good
  <2>1. SUFFICES ASSUME k + 1 <= n PROVE g[k + 1] \in V /\ Summed(k + 1)
    OBVIOUS
  <2>2. k + 1 \in 0..n /\ k + 1 \in 1..n /\ k + 1 # 0 /\ (k + 1) - 1 = k /\ k <= n
    BY <1>1, <2>1
  <2>3. g[k + 1] = MergeBlock(g[k], list[k + 1]) /\ list[k + 1] \in VBlock
    BY <1>1, <1>8, <2>2, Zenon
  <2>4. g[k] \in V /\ Summed(k)
    BY <1>10, <2>2
  <2>5. g[k + 1] \in V
    BY <2>3, <2>4, MergeBlockIs, Zenon DEF V
  <2>6. ASSUME NEW w \in Weights, NEW h, Totals(list, w, h) PROVE SumIs(g[k + 1], w, h[k + 1])
    <3>1. h[k + 1] = h[k] + w[list[k + 1]]
      BY <2>2, <2>6, Zenon DEF Totals, n
    <3>2. SumIs(g[k], w, h[k])
      BY <2>4, <2>6, Zenon
    <3>3. QED
      BY <2>3, <2>4, <3>1, <3>2, MergeBlockIs, Zenon DEF V
  <2>7. QED
    BY <2>5, <2>6, Zenon
<1>11. \A k \in Nat : k \in Good
  <2> HIDE DEF Good
  <2> QED
    BY <1>9, <1>10, NatSetInduction, Zenon
<1>12. g[n] \in V /\ Summed(n)
  <2>1. n \in Good /\ n <= n
    BY <1>1, <1>11
  <2>2. QED
    BY <2>1, Zenon
<1>13. ASSUME NEW w \in Weights, NEW x, SumIs(list, w, x) PROVE SumIs(g[n], w, x)
  <2>1. PICK h : Totals(list, w, h) /\ h[n] = x
    BY <1>13, Zenon DEF SumIs, n
  <2>2. QED
    BY <1>12, <2>1, Zenon
<1>14. QED
  BY <1>6, <1>12, <1>13, Zenon DEF V

\* What an allocated block holds.
Held == [b \in VBlock |-> IF b.is_free THEN 0 ELSE b.size]

\* InUse is the sum of what the allocated blocks hold.
LEMMA InUseIs ==
  ASSUME NEW list \in Seq(VBlock)
  PROVE  SumIs(list, Held, InUse(list))
<1> DEFINE n == Len(list)
           add == [k \in Nat |-> [x \in Int |-> IF k \in 1..n THEN x + Held[list[k]] ELSE x]]
           step(f) == [k \in 0..n |-> IF k = 0 THEN 0
                        ELSE f[k - 1] + IF list[k].is_free THEN 0 ELSE list[k].size]
<1>1. n \in Nat /\ \A k \in 1..n : list[k] \in VBlock
  OBVIOUS
<1>2. \A k \in 1..n : /\ Held[list[k]] \in Int
                      /\ Held[list[k]] = IF list[k].is_free THEN 0 ELSE list[k].size
  BY <1>1 DEF Held, VBlock
<1>3. add \in [Nat -> [Int -> Int]]
  BY <1>2
<1>4. PICK f \in [0..n -> Int] : f[0] = 0 /\ \A k \in 1..n : f[k] = add[k][f[k - 1]]
  <2> HIDE DEF add, n
  <2>1. \E f \in [0..n -> Int] : IsWalk(f, 0, add, n)
    <3>1. 0 \in Int
      OBVIOUS
    <3>2. QED
      BY <1>1, <1>3, <3>1, Iterates, Zenon
  <2>2. QED
    BY <2>1, Zenon DEF IsWalk
<1>5. \A k \in 0..n : f[k] = IF k = 0 THEN 0
                             ELSE f[k - 1] + IF list[k].is_free THEN 0 ELSE list[k].size
  <2>1. \A k \in 0..n : k # 0 => k \in 1..n /\ k \in Nat /\ k - 1 \in 0..n
    BY <1>1
  <2> HIDE DEF n
  <2>2. QED
    BY <1>2, <1>4, <2>1, Zenon
<1>6. f = step(f)
  <2> HIDE DEF n, add
  <2> QED
    BY <1>4, <1>5, Zenon
<1> DEFINE g == CHOOSE h : h = step(h)
<1>7. InUse(list) = g[n]
  BY DEF InUse
<1>8. g = step(g)
  <2> HIDE DEF step
  <2> QED
    BY <1>6
<1>9. /\ g = [k \in 0..n |-> g[k]]
      /\ \A k \in 0..n : g[k] = IF k = 0 THEN 0
                                ELSE g[k - 1] + IF list[k].is_free THEN 0 ELSE list[k].size
  <2> HIDE DEF g
  <2> QED
    BY <1>8, Zenon
<1> HIDE DEF g, n, add, step
<1>10. g[0] = 0 /\ \A k \in 1..n : g[k] = g[k - 1] + Held[list[k]]
  <2>1. 0 \in 0..n /\ \A k \in 1..n : k \in 0..n /\ k # 0
    BY <1>1
  <2>2. QED
    BY <1>2, <1>9, <2>1, Zenon
<1> DEFINE Good == {k \in Nat : k <= n => g[k] \in Int}
<1>11. 0 \in Good
  BY <1>10
<1>12. ASSUME NEW k \in Nat, k \in Good PROVE k + 1 \in Good
  <2>1. SUFFICES ASSUME k + 1 <= n PROVE g[k + 1] \in Int
    OBVIOUS
  <2>2. k + 1 \in 1..n /\ (k + 1) - 1 = k /\ g[k] \in Int
    BY <1>1, <1>12, <2>1
  <2>3. g[k + 1] = g[k] + Held[list[k + 1]] /\ Held[list[k + 1]] \in Int
    BY <1>2, <1>10, <2>2, Zenon
  <2>4. QED
    BY <2>2, <2>3
<1>13. \A k \in Nat : k \in Good
  <2> HIDE DEF Good
  <2> QED
    BY <1>11, <1>12, NatSetInduction, Zenon
<1>14. g \in [0..n -> Int]
  <2>1. \A k \in 0..n : g[k] \in Int
    BY <1>1, <1>13
  <2>2. QED
    BY <1>9, <2>1
<1>15. QED
  BY <1>7, <1>10, <1>14, Zenon DEF SumIs, Totals, n

\* The allocated blocks at address p, as weights.
At(p) == [b \in VBlock |-> IF b.virt_addr = p /\ ~b.is_free THEN 1 ELSE 0]

\* Both are weights.
LEMMA WeightsAre == Held \in Weights /\ \A p : At(p) \in Weights
<1>1. Held \in Weights
  <2>1. \A b \in VBlock : (IF b.is_free THEN 0 ELSE b.size) \in Int
    BY DEF VBlock
  <2>2. QED
    BY <2>1 DEF Held, Weights
<1>2. ASSUME NEW p PROVE At(p) \in Weights
  BY DEF At, Weights
<1>3. QED
  BY <1>1, <1>2

\* The number of allocated blocks at an address is the sum of those weights.
LEMMA CountIs ==
  ASSUME NEW list \in Seq(VBlock), NEW p, NEW x, SumIs(list, At(p), x)
  PROVE  Cardinality({k \in DOMAIN list : list[k].virt_addr = p /\ ~list[k].is_free}) = x
<1> DEFINE S(n) == {k \in 1..n : list[k].virt_addr = p /\ ~list[k].is_free}
<1>1. PICK m \in Nat : m = Len(list) /\ DOMAIN list = 1..m
  OBVIOUS
<1>2. PICK f : Totals(list, At(p), f) /\ f[m] = x
  BY <1>1, Zenon DEF SumIs
<1>3. f[0] = 0 /\ \A n \in 1..m : f[n] = f[n - 1] + At(p)[list[n]]
  BY <1>1, <1>2, Zenon DEF Totals
<1>4. \A n \in 1..m : At(p)[list[n]] = IF list[n].virt_addr = p /\ ~list[n].is_free THEN 1 ELSE 0
  <2>1. \A n \in 1..m : list[n] \in VBlock
    BY <1>1
  <2>2. QED
    BY <2>1, Zenon DEF At
<1> DEFINE Good == {n \in Nat : n <= m => IsFiniteSet(S(n)) /\ Cardinality(S(n)) = f[n]}
<1>5. 0 \in Good
  <2>1. S(0) = {}
    OBVIOUS
  <2>2. QED
    BY <1>3, <2>1, FS_EmptySet
<1>6. ASSUME NEW n \in Nat, n \in Good PROVE n + 1 \in Good
  <2>1. SUFFICES ASSUME n + 1 <= m PROVE IsFiniteSet(S(n + 1)) /\ Cardinality(S(n + 1)) = f[n + 1]
    OBVIOUS
  <2>2. n + 1 \in 1..m /\ (n + 1) - 1 = n /\ n <= m /\ ~(n + 1 \in 1..n)
    BY <1>1, <2>1
  <2>3. IsFiniteSet(S(n)) /\ Cardinality(S(n)) = f[n] /\ n + 1 \notin S(n)
    BY <1>6, <2>2
  <2>4. f[n + 1] = f[n] + At(p)[list[n + 1]]
    BY <1>3, <2>2, Zenon
  <2>5. Cardinality(S(n)) \in Nat
    BY <2>3, FS_CardinalityType, Zenon
  <2>6. CASE list[n + 1].virt_addr = p /\ ~list[n + 1].is_free
    <3>1. S(n + 1) = S(n) \cup {n + 1}
      BY <2>2, <2>6
    <3>2. At(p)[list[n + 1]] = 1
      BY <1>4, <2>2, <2>6, Zenon
    <3> HIDE DEF S
    <3>3. IsFiniteSet(S(n) \cup {n + 1}) /\ Cardinality(S(n) \cup {n + 1}) = Cardinality(S(n)) + 1
      BY <2>3, FS_AddElement
    <3>4. QED
      BY <2>3, <2>4, <3>1, <3>2, <3>3, Zenon
  <2>7. CASE ~(list[n + 1].virt_addr = p /\ ~list[n + 1].is_free)
    <3>1. S(n + 1) = S(n)
      BY <2>2, <2>7
    <3>2. At(p)[list[n + 1]] = 0
      BY <1>4, <2>2, <2>7, Zenon
    <3> HIDE DEF S
    <3>3. f[n + 1] = f[n]
      BY <2>3, <2>4, <2>5, <3>2
    <3>4. QED
      BY <2>3, <3>1, <3>3, Zenon
  <2>8. QED
    BY <2>6, <2>7
<1>7. \A n \in Nat : n \in Good
  <2> HIDE DEF Good
  <2> QED
    BY <1>5, <1>6, NatSetInduction, Zenon
<1>8. m <= m
  BY <1>1
<1>9. QED
  BY <1>1, <1>2, <1>7, <1>8, Zenon

\* vmalloc's split: the free block becomes an allocated one, and what is linked in after it
\* is free.
LEMMA SplitIs ==
  ASSUME vmem_list \in Seq(VBlock), NEW k \in 1..Len(vmem_list), vmem_list[k].is_free,
         NEW size \in Nat \ {0}, NEW header,
         NEW b, b = [virt_addr |-> vmem_list[k].virt_addr, size |-> size, is_free |-> FALSE]
  PROVE  /\ b \in VBlock
         /\ Split(k, size, header) \in Seq(VBlock)
         /\ \A w \in Weights : \A x :
              SumIs(vmem_list, w, x) => SumIs(Split(k, size, header), w, x + w[b])
<1>1. vmem_list[k] \in VBlock /\ b \in VBlock
  <2>1. vmem_list[k] \in VBlock
    OBVIOUS
  <2>2. vmem_list[k].virt_addr \in Nat
    BY <2>1 DEF VBlock
  <2>3. b \in VBlock
    BY <2>2, Zenon DEF VBlock
  <2>4. QED
    BY <2>1, <2>3
<1>2. PICK taken : taken = [vmem_list EXCEPT ![k] = b]
  BY Zenon
<1>3. taken \in Seq(VBlock) /\ Len(taken) = Len(vmem_list)
  BY <1>1, <1>2
<1>4. ASSUME NEW w \in Weights, NEW x, SumIs(vmem_list, w, x) PROVE SumIs(taken, w, x + w[b])
  <2>1. w \in [VBlock -> Int] /\ w[vmem_list[k]] = 0
    BY <1>1 DEF Weights
  <2>2. SumIs(taken, w, (x - w[vmem_list[k]]) + w[b])
    BY <1>1, <1>2, <1>4, <2>1, SumExcept, Zenon
  <2>3. x \in Int
    BY <1>4, <2>1, SumUnique, Zenon
  <2>4. x - 0 = x
    BY <2>3
  <2>5. QED
    BY <2>1, <2>2, <2>4, Zenon
<1>5. PICK rest : rest = [virt_addr |-> b.virt_addr + size, size |-> VMEM_SIZE - size, is_free |-> TRUE]
  BY Zenon
<1>6. Split(k, size, header) = IF header /\ size < VMEM_SIZE THEN LinkAfter(taken, k, rest) ELSE taken
  <2>1. [vmem_list[k] EXCEPT !.is_free = FALSE, !.size = size] = b
    <3>1. PICK old \in VBlock : old = vmem_list[k]
      BY <1>1
    <3>2. [old EXCEPT !.is_free = FALSE, !.size = size]
            = [virt_addr |-> old.virt_addr, size |-> size, is_free |-> FALSE]
      <4>1. PICK c : c = [old EXCEPT !.is_free = FALSE, !.size = size]
        BY Zenon
      <4>2. /\ c \in VBlock
            /\ c.virt_addr = old.virt_addr /\ c.size = size /\ c.is_free = FALSE
        BY <4>1, Zenon DEF VBlock
      <4>3. QED
        BY <4>1, <4>2, Zenon DEF VBlock
    <3>3. QED
      BY <3>1, <3>2, Zenon
  <2>2. QED
    BY <1>2, <1>5, <2>1, Zenon DEF Split
<1>7. CASE header /\ size < VMEM_SIZE
  <2>1. rest \in VBlock /\ rest.is_free
    BY <1>1, <1>5, <1>7, VmallocAssumption DEF VBlock
  <2>2. k \in 1..Len(taken)
    BY <1>3
  <2>3. PICK linked : linked = LinkAfter(taken, k, rest)
    BY Zenon
  <2>4. linked \in Seq(VBlock) /\ Inserted(linked, taken, k, rest)
    BY <1>3, <2>1, <2>2, <2>3, LinkAfterIs, Zenon
  <2>5. ASSUME NEW w \in Weights, NEW x, SumIs(taken, w, x) PROVE SumIs(linked, w, x)
    <3>1. w \in [VBlock -> Int] /\ w[rest] = 0 /\ k \in 0..Len(taken)
      BY <2>1, <2>2 DEF Weights
    <3>2. SumIs(linked, w, x + w[rest])
      BY <1>3, <2>1, <2>4, <2>5, <3>1, SumInsert, Zenon
    <3>3. x \in Int
      BY <1>3, <2>5, <3>1, SumUnique, Zenon
    <3>4. x + 0 = x
      BY <3>3
    <3>5. QED
      BY <3>1, <3>2, <3>4, Zenon
  <2>6. QED
    BY <1>1, <1>4, <1>6, <1>7, <2>3, <2>4, <2>5, Zenon
<1>8. CASE ~(header /\ size < VMEM_SIZE)
  BY <1>1, <1>3, <1>4, <1>6, <1>8, Zenon
<1>9. QED
  BY <1>7, <1>8, Zenon

\* The owners of address p.
OwnersAt(owned, p) == {a \in owned : a.ptr = p}

\* A caller more, or one less, at an address.
LEMMA OwnerCount ==
  ASSUME NEW owned, IsFiniteSet(owned), NEW c, NEW p
  PROVE  /\ Cardinality(OwnersAt(owned, p)) \in Nat
         /\ c \notin owned => Cardinality(OwnersAt(owned \cup {c}, p)) =
              Cardinality(OwnersAt(owned, p)) + IF c.ptr = p THEN 1 ELSE 0
         /\ c \in owned => Cardinality(OwnersAt(owned \ {c}, p)) =
              Cardinality(OwnersAt(owned, p)) - IF c.ptr = p THEN 1 ELSE 0
<1>1. PICK S : S = OwnersAt(owned, p)
  BY Zenon
<1>2. IsFiniteSet(S)
  <2>1. S \subseteq owned
    BY <1>1 DEF OwnersAt
  <2>2. QED
    BY <2>1, FS_Subset
<1>3. Cardinality(S) \in Nat
  BY <1>2, FS_CardinalityType
<1>4. ASSUME c \notin owned
      PROVE  Cardinality(OwnersAt(owned \cup {c}, p)) = Cardinality(S) + IF c.ptr = p THEN 1 ELSE 0
  <2>1. CASE c.ptr = p
    <3>1. OwnersAt(owned \cup {c}, p) = S \cup {c} /\ c \notin S
      BY <1>1, <1>4, <2>1 DEF OwnersAt
    <3>2. QED
      BY <1>2, <2>1, <3>1, FS_AddElement, Zenon
  <2>2. CASE c.ptr # p
    <3>1. OwnersAt(owned \cup {c}, p) = S
      BY <1>1, <1>4, <2>2 DEF OwnersAt
    <3>2. QED
      BY <1>3, <2>2, <3>1
  <2>3. QED
    BY <2>1, <2>2
<1>5. ASSUME c \in owned
      PROVE  Cardinality(OwnersAt(owned \ {c}, p)) = Cardinality(S) - IF c.ptr = p THEN 1 ELSE 0
  <2>1. CASE c.ptr = p
    <3>1. OwnersAt(owned \ {c}, p) = S \ {c} /\ c \in S
      BY <1>1, <1>5, <2>1 DEF OwnersAt
    <3>2. QED
      BY <1>2, <2>1, <3>1, FS_RemoveElement, Zenon
  <2>2. CASE c.ptr # p
    <3>1. OwnersAt(owned \ {c}, p) = S
      BY <1>1, <1>5, <2>2 DEF OwnersAt
    <3>2. QED
      BY <1>3, <2>2, <3>1
  <2>3. QED
    BY <2>1, <2>2
<1>6. QED
  BY <1>1, <1>3, <1>4, <1>5, Zenon

\* The walk for a block ends at one that passes, at 0 only when there is none.
LEMMA FirstBlockIs ==
  ASSUME NEW passing \in SUBSET (Nat \ {0})
  PROVE  IF passing = {} THEN FirstBlock(passing) = 0 ELSE FirstBlock(passing) \in passing
<1>1. CASE passing = {}
  BY <1>1, Zenon DEF FirstBlock
<1>2. CASE passing # {}
  <2>1. \E m \in passing : \A k \in passing : m <= k
    BY <1>2, LeastNat
  <2>2. Min(passing) \in passing
    BY <2>1, Zenon DEF Min
  <2>3. QED
    BY <1>2, <2>2, Zenon DEF FirstBlock
<1>3. QED
  BY <1>1, <1>2

\* A request is rounded up to at least a page.
LEMMA PagesAre ==
  ASSUME NEW n \in Nat, n > 0
  PROVE  PagesNeeded(n) * PAGE_SIZE \in Nat \ {0}
<1>1. PAGE_SIZE \in Nat /\ PAGE_SIZE > 0
  BY PagePoolAssumption
<1>2. PICK a \in Nat : a = n + PAGE_SIZE - 1 /\ a >= PAGE_SIZE
  BY <1>1
<1>3. PICK q \in Nat, r \in Nat : q = a \div PAGE_SIZE /\ r < PAGE_SIZE /\ a = PAGE_SIZE * q + r
  <2>1. a \div PAGE_SIZE \in Nat /\ a % PAGE_SIZE \in Nat /\ a % PAGE_SIZE < PAGE_SIZE
    BY <1>1
  <2>2. a % PAGE_SIZE = a - PAGE_SIZE * (a \div PAGE_SIZE)
    BY <1>1
  <2>3. PICK p \in Int : p = PAGE_SIZE * (a \div PAGE_SIZE)
    BY <1>1, <2>1
  <2>4. a = p + (a % PAGE_SIZE)
    BY <2>1, <2>2, <2>3
  <2>5. QED
    BY <2>1, <2>3, <2>4
<1>4. q # 0
  BY <1>1, <1>2, <1>3
<1>5. q * PAGE_SIZE \in Nat \ {0}
  BY <1>1, <1>4
<1>6. QED
  BY <1>2, <1>3, <1>5, Zenon DEF PagesNeeded

-----------------------------------------------------------------------------
\* The state of vmalloc.c is typed; calls have different numbers.
VTypes ==
  /\ vmem_list \in Seq(VBlock)
  /\ vmem_allocated \in Nat /\ vmem_freed \in Nat /\ vcalls \in Nat
  /\ vowned \subseteq [ptr : Nat, size : Nat \ {0}, id : Nat] /\ IsFiniteSet(vowned)
  /\ \A a \in vowned : a.id <= vcalls

\* Each address has as many allocated blocks as owners, and the statistics are the sum of
\* what the allocated blocks hold.
VAccounts ==
  /\ \A p \in Nat : SumIs(vmem_list, At(p), Cardinality(OwnersAt(vowned, p)))
  /\ SumIs(vmem_list, Held, vmem_allocated - vmem_freed)

\* Until the first vfree only the last block may be free, and what is owned lies before it.
Unfreed ==
  vmem_freed = 0 =>
    /\ Len(vmem_list) > 0
    /\ \A k \in 1..(Len(vmem_list) - 1) :
         /\ vmem_list[k + 1].virt_addr = vmem_list[k].virt_addr + vmem_list[k].size
         /\ ~vmem_list[k].is_free
    /\ \A a, b \in vowned : a # b => ~Overlap(a, b)
    /\ vmem_list[Len(vmem_list)].is_free =>
         \A a \in vowned : a.ptr + a.size <= vmem_list[Len(vmem_list)].virt_addr

\* The inductive invariant of the virtual allocator.
VInv == VTypes /\ VAccounts /\ Unfreed

\* The list new is the list with its last block, number m, replaced by b of size
\* size, and perhaps one block more after it.
LastSplit(new, list, m, b, size) ==
  /\ Len(new) \in {m, m + 1}
  /\ \A n \in 1..(m - 1) : new[n] = list[n]
  /\ new[m] = b
  /\ Len(new) = m + 1 => new[m + 1].virt_addr = b.virt_addr + size

\* The split of the last block.
LEMMA SplitLast ==
  ASSUME vmem_list \in Seq(VBlock), NEW m \in Nat \ {0}, m = Len(vmem_list),
         NEW size \in Nat \ {0}, NEW header,
         NEW b, b = [virt_addr |-> vmem_list[m].virt_addr, size |-> size, is_free |-> FALSE],
         NEW new, new = Split(m, size, header)
  PROVE  LastSplit(new, vmem_list, m, b, size)
<1>1. vmem_list[m] \in VBlock /\ b \in VBlock
  <2>1. vmem_list[m] \in VBlock
    OBVIOUS
  <2>2. vmem_list[m].virt_addr \in Nat
    BY <2>1 DEF VBlock
  <2>3. b \in VBlock
    BY <2>2, Zenon DEF VBlock
  <2>4. QED
    BY <2>1, <2>3
<1>2. PICK taken : taken = [vmem_list EXCEPT ![m] = b]
  BY Zenon
<1>3. /\ taken \in Seq(VBlock) /\ Len(taken) = m
      /\ \A n \in 1..m : taken[n] = IF n = m THEN b ELSE vmem_list[n]
  BY <1>1, <1>2
<1>4. PICK rest : rest = [virt_addr |-> b.virt_addr + size, size |-> VMEM_SIZE - size, is_free |-> TRUE]
  BY Zenon
<1>5. new = IF header /\ size < VMEM_SIZE THEN LinkAfter(taken, m, rest) ELSE taken
  <2>1. [vmem_list[m] EXCEPT !.is_free = FALSE, !.size = size] = b
    <3>1. PICK old \in VBlock : old = vmem_list[m]
      BY <1>1
    <3>2. PICK c : c = [old EXCEPT !.is_free = FALSE, !.size = size]
      BY Zenon
    <3>3. /\ c \in VBlock
          /\ c.virt_addr = old.virt_addr /\ c.size = size /\ c.is_free = FALSE
      BY <3>2, Zenon DEF VBlock
    <3>4. c = [virt_addr |-> old.virt_addr, size |-> size, is_free |-> FALSE]
      BY <3>3, Zenon DEF VBlock
    <3>5. QED
      BY <3>1, <3>2, <3>4, Zenon
  <2>2. QED
    BY <1>2, <1>4, <2>1, Zenon DEF Split
<1>6. ASSUME NEW n \in 1..(m - 1) PROVE n \in 1..m /\ n # m /\ n <= m /\ n \in 1..(m + 1)
  OBVIOUS
<1>7. m \in 1..m /\ m \in 1..(m + 1) /\ m + 1 \in 1..(m + 1) /\ ~(m + 1 <= m) /\ m <= m
  OBVIOUS
<1>8. CASE header /\ size < VMEM_SIZE
  <2>1. rest \in VBlock /\ rest.virt_addr = b.virt_addr + size
    BY <1>1, <1>4, <1>8, VmallocAssumption DEF VBlock
  <2>2. /\ Len(LinkAfter(taken, m, rest)) = m + 1
        /\ \A n \in 1..(m + 1) :
             LinkAfter(taken, m, rest)[n] =
               IF n <= m THEN taken[n] ELSE IF n = m + 1 THEN rest ELSE taken[n - 1]
    <3>1. m \in 1..Len(taken)
      BY <1>3, <1>7, Zenon
    <3>2. Inserted(LinkAfter(taken, m, rest), taken, m, rest)
      BY <1>3, <2>1, <3>1, LinkAfterIs, Zenon
    <3>3. QED
      BY <1>3, <3>2, Zenon DEF Inserted
  <2>3. new = LinkAfter(taken, m, rest)
    BY <1>5, <1>8, Zenon
  <2>4. Len(new) = m + 1 /\ new[m] = b /\ new[m + 1] = rest
    BY <1>3, <1>7, <2>2, <2>3, Zenon
  <2>5. \A n \in 1..(m - 1) : new[n] = vmem_list[n]
    BY <1>3, <1>6, <2>2, <2>3, Zenon
  <2>6. QED
    BY <2>1, <2>4, <2>5, Zenon DEF LastSplit
<1>9. CASE ~(header /\ size < VMEM_SIZE)
  <2>1. new = taken
    BY <1>5, <1>9, Zenon
  <2>2. Len(new) = m /\ new[m] = b /\ m # m + 1
    BY <1>3, <1>7, <2>1, Zenon
  <2>3. \A n \in 1..(m - 1) : new[n] = vmem_list[n]
    BY <1>3, <1>6, <2>1, Zenon
  <2>4. QED
    BY <2>2, <2>3, Zenon DEF LastSplit
<1>10. QED
  BY <1>8, <1>9, Zenon

\* The list starts as one free block.
LEMMA VStart == vmalloc_init => VInv
<1>1. SUFFICES ASSUME vmalloc_init PROVE VInv
  OBVIOUS
<1>2. PICK first : first = [virt_addr |-> VMEM_START, size |-> VMEM_SIZE, is_free |-> TRUE]
  BY Zenon
<1>3. /\ vmem_list = <<first>> /\ first \in VBlock /\ first.is_free
      /\ vmem_allocated = 0 /\ vmem_freed = 0 /\ vowned = {} /\ vcalls = 0
  BY <1>1, <1>2, VmallocAssumption DEF vmalloc_init, VBlock
<1>4. VTypes
  BY <1>3, FS_EmptySet DEF VTypes
<1>5. ASSUME NEW w \in Weights PROVE SumIs(vmem_list, w, 0)
  <2>1. Len(vmem_list) = 1 /\ vmem_list[1] = first /\ w[first] = 0
    BY <1>3 DEF Weights
  <2> DEFINE f == [n \in 0..1 |-> 0]
  <2>2. Totals(vmem_list, w, f) /\ f[Len(vmem_list)] = 0
    BY <2>1 DEF Totals
  <2>3. QED
    BY <2>2, Zenon DEF SumIs
<1>6. VAccounts
  <2>1. \A p : Cardinality(OwnersAt(vowned, p)) = 0
    <3>1. \A p : OwnersAt(vowned, p) = {}
      BY <1>3 DEF OwnersAt
    <3>2. QED
      BY <3>1, FS_EmptySet
  <2>2. vmem_allocated - vmem_freed = 0
    BY <1>3
  <2>3. QED
    BY <1>5, <2>1, <2>2, WeightsAre, Zenon DEF VAccounts
<1>7. Unfreed
  BY <1>3 DEF Unfreed
<1>8. QED
  BY <1>4, <1>6, <1>7 DEF VInv

\* What changes nothing of the list and of what is owned keeps the invariant.
LEMMA VQuiet ==
  ASSUME VInv, UNCHANGED <<vmem_list, vmem_allocated, vmem_freed, vowned>>,
         vcalls' \in {vcalls, vcalls + 1}
  PROVE  VInv'
<1>1. /\ vmem_list' = vmem_list /\ vmem_allocated' = vmem_allocated
      /\ vmem_freed' = vmem_freed /\ vowned' = vowned
  OBVIOUS
<1>2. VTypes'
  <2>1. vcalls' \in Nat /\ \A a \in vowned : a.id <= vcalls'
    BY DEF VInv, VTypes
  <2>2. QED
    BY <1>1, <2>1 DEF VInv, VTypes
<1>3. VAccounts'
  BY <1>1, Zenon DEF VInv, VAccounts
<1>4. Unfreed'
  BY <1>1, Zenon DEF VInv, Unfreed
<1>5. QED
  BY <1>2, <1>3, <1>4, Zenon DEF VInv

\* vmalloc: the block it takes was free, so its address gets one allocated block and one
\* owner more; before the first vfree it is the last block.
LEMMA VAlloc ==
  ASSUME VInv, NEW n \in VRequests, vmalloc(n)
  PROVE  VInv'
<1> DEFINE size == PagesNeeded(n) * PAGE_SIZE
           k == find_free_vmem_block(size)
<1>1. n \in Nat /\ n > 0 /\ size \in Nat \ {0}
  <2>1. n \in Nat /\ n > 0
    BY VmallocAssumption DEF vmalloc
  <2>2. QED
    BY <2>1, PagesAre
<1>2. /\ vmem_list \in Seq(VBlock)
      /\ vmem_allocated \in Nat /\ vmem_freed \in Nat /\ vcalls \in Nat
      /\ vowned \subseteq [ptr : Nat, size : Nat \ {0}, id : Nat] /\ IsFiniteSet(vowned)
      /\ \A a \in vowned : a.id <= vcalls
  BY DEF VInv, VTypes
<1>3. PICK m \in Nat : m = Len(vmem_list) /\ DOMAIN vmem_list = 1..m
  BY <1>2
<1>4. k # 0 => k \in 1..m /\ vmem_list[k].is_free
  <2> DEFINE S == {j \in DOMAIN vmem_list : vmem_list[j].is_free /\ vmem_list[j].size >= size}
  <2>1. S \in SUBSET (Nat \ {0})
    BY <1>3
  <2>2. k = FirstBlock(S)
    BY Zenon DEF find_free_vmem_block
  <2> HIDE DEF k
  <2>3. k # 0 => k \in S
    BY <2>1, <2>2, FirstBlockIs, Zenon
  <2>4. QED
    BY <1>3, <2>3
<1>5. vcalls' = vcalls + 1 /\ vmem_freed' = vmem_freed
  BY Zenon DEF vmalloc
<1>6. CASE UNCHANGED <<vmem_list, vmem_allocated, vowned>>
  BY <1>5, <1>6, VQuiet
<1>7. ASSUME k # 0, NEW header,
             vmem_list' = Split(k, size, header), vmem_allocated' = vmem_allocated + size,
             vowned' = vowned \cup {[ptr |-> vmem_list[k].virt_addr, size |-> size, id |-> vcalls']}
      PROVE  VInv'
  <2> HIDE DEF k, size
  <2>1. PICK c : c = [ptr |-> vmem_list[k].virt_addr, size |-> size, id |-> vcalls + 1]
    BY Zenon
  <2>2. PICK b : b = [virt_addr |-> vmem_list[k].virt_addr, size |-> size, is_free |-> FALSE]
    BY Zenon
  <2>3. k \in 1..m /\ vmem_list[k].is_free /\ k \in 1..Len(vmem_list)
    BY <1>3, <1>4, <1>7
  <2>4. /\ vmem_list[k] \in VBlock /\ vmem_list[k].virt_addr \in Nat
        /\ b.virt_addr = vmem_list[k].virt_addr /\ b.size = size /\ b.is_free = FALSE
        /\ c.ptr = vmem_list[k].virt_addr /\ c.size = size /\ c.id = vcalls + 1
    <3>1. vmem_list[k] \in VBlock
      BY <1>2, <2>3
    <3>2. vmem_list[k].virt_addr \in Nat
      BY <3>1 DEF VBlock
    <3>3. QED
      BY <2>1, <2>2, <3>1, <3>2, Zenon
  <2>5. c \in [ptr : Nat, size : Nat \ {0}, id : Nat] /\ c \notin vowned
    <3>1. vcalls + 1 \in Nat /\ \A a \in vowned : a.id # vcalls + 1
      BY <1>2
    <3>2. QED
      BY <1>1, <2>1, <2>4, <3>1, Zenon
  <2>6. vowned' = vowned \cup {c}
    BY <1>5, <1>7, <2>1, Zenon
  <2>7. /\ b \in VBlock /\ vmem_list' \in Seq(VBlock)
        /\ \A w \in Weights : \A x :
              SumIs(vmem_list, w, x) => SumIs(vmem_list', w, x + w[b])
    <3>1. /\ b \in VBlock /\ Split(k, size, header) \in Seq(VBlock)
          /\ \A w \in Weights : \A x :
               SumIs(vmem_list, w, x) => SumIs(Split(k, size, header), w, x + w[b])
      BY <1>1, <1>2, <2>2, <2>3, SplitIs, Zenon
    <3>2. QED
      BY <1>7, <3>1, Zenon
  <2>8. VTypes'
    <3>1. vowned' \subseteq [ptr : Nat, size : Nat \ {0}, id : Nat]
      BY <1>2, <2>5, <2>6, Zenon
    <3>2. IsFiniteSet(vowned')
      BY <1>2, <2>6, FS_AddElement, Zenon
    <3>3. \A a \in vowned' : a.id <= vcalls'
      <4>1. c.id <= vcalls'
        BY <1>2, <1>5, <2>4
      <4>2. \A a \in vowned : a.id <= vcalls'
        <5>1. \A a \in vowned : a.id \in Nat
          BY <1>2
        <5>2. QED
          BY <1>2, <1>5, <5>1
      <4>3. QED
        BY <2>6, <4>1, <4>2, Zenon
    <3>4. vmem_allocated' \in Nat /\ vmem_freed' \in Nat /\ vcalls' \in Nat
      BY <1>1, <1>2, <1>5, <1>7
    <3>5. QED
      BY <2>7, <3>1, <3>2, <3>3, <3>4, Zenon DEF VTypes
  <2>9. VAccounts'
    <3>1. ASSUME NEW p \in Nat
          PROVE  SumIs(vmem_list', At(p), Cardinality(OwnersAt(vowned', p)))
      <4>1. At(p)[b] = IF c.ptr = p THEN 1 ELSE 0
        BY <2>4, <2>7, Zenon DEF At
      <4>2. Cardinality(OwnersAt(vowned', p)) = Cardinality(OwnersAt(vowned, p)) + At(p)[b]
        <5>1. IsFiniteSet(vowned) /\ c \notin vowned
          BY <1>2, <2>5
        <5>2. Cardinality(OwnersAt(vowned \cup {c}, p)) =
                Cardinality(OwnersAt(vowned, p)) + IF c.ptr = p THEN 1 ELSE 0
          BY <5>1, OwnerCount
        <5>3. QED
          BY <2>6, <4>1, <5>2, Zenon
      <4>3. SumIs(vmem_list, At(p), Cardinality(OwnersAt(vowned, p)))
        BY Zenon DEF VInv, VAccounts
      <4>4. QED
        BY <2>7, <4>2, <4>3, WeightsAre, Zenon
    <3>2. SumIs(vmem_list', Held, vmem_allocated' - vmem_freed')
      <4>1. Held[b] = size
        BY <2>4, <2>7, Zenon DEF Held
      <4>2. vmem_allocated' - vmem_freed' = (vmem_allocated - vmem_freed) + size
        BY <1>1, <1>2, <1>5, <1>7
      <4>3. SumIs(vmem_list, Held, vmem_allocated - vmem_freed)
        BY Zenon DEF VInv, VAccounts
      <4>4. QED
        BY <2>7, <4>1, <4>2, <4>3, WeightsAre, Zenon
    <3>3. QED
      BY <3>1, <3>2 DEF VAccounts
  <2>10. Unfreed'
    <3>1. SUFFICES ASSUME vmem_freed = 0
                   PROVE  /\ Len(vmem_list') > 0
                          /\ \A j \in 1..(Len(vmem_list') - 1) :
                               /\ vmem_list'[j + 1].virt_addr = vmem_list'[j].virt_addr + vmem_list'[j].size
                               /\ ~vmem_list'[j].is_free
                          /\ \A a, d \in vowned' : a # d => ~Overlap(a, d)
                          /\ vmem_list'[Len(vmem_list')].is_free =>
                               \A a \in vowned' :
                                 a.ptr + a.size <= vmem_list'[Len(vmem_list')].virt_addr
      BY <1>5 DEF Unfreed, Overlap
    <3>2. /\ m > 0
          /\ \A j \in 1..(m - 1) :
               /\ vmem_list[j + 1].virt_addr = vmem_list[j].virt_addr + vmem_list[j].size
               /\ ~vmem_list[j].is_free
          /\ \A a, d \in vowned : a # d => ~Overlap(a, d)
          /\ vmem_list[m].is_free => \A a \in vowned : a.ptr + a.size <= vmem_list[m].virt_addr
      BY <1>3, <3>1 DEF VInv, Unfreed
    <3>3. k = m
      BY <1>3, <2>3, <3>2
    <3>4. /\ Len(vmem_list') \in {m, m + 1}
          /\ \A j \in 1..(m - 1) : vmem_list'[j] = vmem_list[j]
          /\ vmem_list'[m] = b
          /\ Len(vmem_list') = m + 1 => vmem_list'[m + 1].virt_addr = b.virt_addr + size
      <4>1. m \in Nat \ {0} /\ m = Len(vmem_list)
        BY <1>3, <3>2
      <4>2. b = [virt_addr |-> vmem_list[m].virt_addr, size |-> size, is_free |-> FALSE]
            /\ vmem_list' = Split(m, size, header)
        BY <1>7, <2>2, <3>3, Zenon
      <4>3. QED
        <5>1. size \in Nat \ {0} /\ vmem_list \in Seq(VBlock)
          BY <1>1, <1>2
        <5>2. QED
          <6>1. LastSplit(vmem_list', vmem_list, m, b, size)
            BY <4>1, <4>2, <5>1, SplitLast, Zenon
          <6>2. QED
            BY <6>1, Zenon DEF LastSplit
    <3>5. ASSUME NEW a \in vowned
          PROVE  /\ a.ptr \in Nat /\ a.size \in Nat /\ a.size > 0
                 /\ a.ptr + a.size <= b.virt_addr
      <4>1. a \in [ptr : Nat, size : Nat \ {0}, id : Nat]
        BY <1>2
      <4>2. a.ptr \in Nat /\ a.size \in Nat /\ a.size > 0
        BY <4>1
      <4>3. a.ptr + a.size <= b.virt_addr
        BY <2>3, <2>4, <3>2, <3>3, Zenon
      <4>4. QED
        BY <4>2, <4>3
    <3>6. b.virt_addr \in Nat /\ c.ptr = b.virt_addr /\ c.size = size
      BY <2>4
    <3>7. ASSUME NEW a \in vowned PROVE ~Overlap(a, c) /\ ~Overlap(c, a)
      BY <1>1, <3>5, <3>6 DEF Overlap
    <3>8. \A a, d \in vowned' : a # d => ~Overlap(a, d)
      BY <2>6, <3>2, <3>7, Zenon
    <3>9. \A j \in 1..m :
            /\ j < m => vmem_list'[j + 1].virt_addr = vmem_list'[j].virt_addr + vmem_list'[j].size
            /\ ~vmem_list'[j].is_free
      <4>1. ~vmem_list'[m].is_free
        BY <2>4, <3>4
      <4>2. ASSUME NEW j \in 1..m, j < m
            PROVE  /\ vmem_list'[j + 1].virt_addr = vmem_list'[j].virt_addr + vmem_list'[j].size
                   /\ ~vmem_list'[j].is_free
        <5>1. j \in 1..(m - 1) /\ (j + 1 = m \/ j + 1 \in 1..(m - 1))
          BY <1>3, <4>2
        <5>2. vmem_list'[j] = vmem_list[j]
          BY <3>4, <5>1, Zenon
        <5>3. vmem_list'[j + 1].virt_addr = vmem_list[j + 1].virt_addr
          BY <2>4, <3>3, <3>4, <5>1, Zenon
        <5>4. QED
          BY <3>2, <5>1, <5>2, <5>3, Zenon
      <4>3. QED
        BY <1>3, <4>1, <4>2
    <3>10. CASE Len(vmem_list') = m
      <4>1. m > 0
        BY <3>2, Zenon
      <4>2. m \in 1..m /\ \A j \in 1..(m - 1) : j \in 1..m /\ j < m
        BY <4>1
      <4>3. QED
        BY <3>8, <3>9, <3>10, <4>1, <4>2, Zenon
    <3>11. CASE Len(vmem_list') = m + 1
      <4>1. vmem_list'[m + 1].virt_addr = b.virt_addr + size /\ vmem_list'[m] = b
            /\ b.size = size
        BY <2>4, <3>4, <3>11
      <4>2. \A j \in 1..((m + 1) - 1) :
              /\ vmem_list'[j + 1].virt_addr = vmem_list'[j].virt_addr + vmem_list'[j].size
              /\ ~vmem_list'[j].is_free
        <5>1. (m + 1) - 1 = m /\ \A j \in 1..m : j < m \/ j = m
          BY <1>3
        <5>2. QED
          BY <3>9, <4>1, <5>1, Zenon
      <4>3. \A a \in vowned' : a.ptr + a.size <= b.virt_addr + size
        <5>1. \A a \in vowned : a.ptr + a.size <= b.virt_addr + size
          BY <1>1, <3>5, <3>6
        <5>2. c.ptr + c.size <= b.virt_addr + size
          BY <1>1, <3>6
        <5>3. QED
          BY <2>6, <5>1, <5>2, Zenon
      <4>4. m + 1 > 0
        BY <1>3
      <4>5. QED
        BY <3>8, <3>11, <4>1, <4>2, <4>3, <4>4, Zenon
    <3>12. QED
      BY <3>4, <3>10, <3>11
  <2>11. QED
    BY <2>8, <2>9, <2>10, Zenon DEF VInv
<1>8. QED
  BY <1>6, <1>7, Zenon DEF vmalloc

\* vfree: the owner's address has a block to give back, since it has as many as owners; the
\* merge changes no sum.
LEMMA VFree ==
  ASSUME VInv, NEW a \in vowned, vfree(a)
  PROVE  VInv'
<1> DEFINE k == BlockAt(a.ptr)
           S == {j \in DOMAIN vmem_list : vmem_list[j].virt_addr = a.ptr /\ ~vmem_list[j].is_free}
<1>1. /\ vmem_list \in Seq(VBlock)
      /\ vmem_allocated \in Nat /\ vmem_freed \in Nat /\ vcalls \in Nat
      /\ vowned \subseteq [ptr : Nat, size : Nat \ {0}, id : Nat] /\ IsFiniteSet(vowned)
      /\ \A c \in vowned : c.id <= vcalls
  BY DEF VInv, VTypes
<1>2. PICK m \in Nat : m = Len(vmem_list) /\ DOMAIN vmem_list = 1..m
  BY <1>1
<1>3. k \in S
  <2>1. a.ptr \in Nat
    BY <1>1
  <2>2. SumIs(vmem_list, At(a.ptr), Cardinality(OwnersAt(vowned, a.ptr)))
    BY <2>1, Zenon DEF VInv, VAccounts
  <2>3. Cardinality(S) = Cardinality(OwnersAt(vowned, a.ptr))
    BY <1>1, <2>2, CountIs
  <2>4. Cardinality(OwnersAt(vowned, a.ptr)) # 0
    <3>1. a \in OwnersAt(vowned, a.ptr) /\ OwnersAt(vowned, a.ptr) \subseteq vowned
      BY DEF OwnersAt
    <3>2. IsFiniteSet(OwnersAt(vowned, a.ptr))
      BY <1>1, <3>1, FS_Subset
    <3>3. QED
      BY <3>1, <3>2, FS_EmptySet
  <2>5. S # {}
    BY <2>3, <2>4, FS_EmptySet
  <2>6. S \in SUBSET (Nat \ {0}) /\ k = FirstBlock(S)
    BY <1>2 DEF BlockAt
  <2> HIDE DEF k, S
  <2>7. QED
    BY <2>5, <2>6, FirstBlockIs, Zenon
<1>4. /\ k # 0 /\ k \in 1..Len(vmem_list) /\ vmem_list[k] \in VBlock
      /\ vmem_list[k].virt_addr = a.ptr /\ ~vmem_list[k].is_free
      /\ vmem_list[k].size \in Nat /\ vmem_list[k].size > 0
  <2> HIDE DEF k
  <2>1. k \in 1..m /\ vmem_list[k].virt_addr = a.ptr /\ ~vmem_list[k].is_free
    BY <1>2, <1>3
  <2>2. vmem_list[k] \in VBlock
    BY <1>1, <1>2, <2>1
  <2>3. vmem_list[k].size \in Nat /\ vmem_list[k].size > 0
    BY <2>2 DEF VBlock
  <2>4. k # 0
    BY <1>2, <2>1
  <2>5. QED
    BY <1>2, <2>1, <2>2, <2>3, <2>4, Zenon
<1>5. /\ vowned' = vowned \ {a}
      /\ vmem_list' = MergeFree([vmem_list EXCEPT ![k].is_free = TRUE], k)
      /\ vmem_freed' = vmem_freed + vmem_list[k].size
      /\ vmem_allocated' = vmem_allocated /\ vcalls' = vcalls
  BY <1>4, Zenon DEF vfree
<1> HIDE DEF k, S
<1>6. PICK old \in VBlock : old = vmem_list[k]
  BY <1>4
<1>7. PICK d : d = [old EXCEPT !.is_free = TRUE]
  BY Zenon
<1>8. d \in VBlock /\ d.is_free
  BY <1>7, Zenon DEF VBlock
<1>9. PICK cleared : cleared = [vmem_list EXCEPT ![k] = d]
  BY Zenon
<1>10. cleared \in Seq(VBlock) /\ vmem_list' = MergeFree(cleared, k)
  <2>1. [vmem_list EXCEPT ![k].is_free = TRUE] = [vmem_list EXCEPT ![k] = d]
    BY <1>1, <1>4, <1>6, <1>7
  <2>2. cleared \in Seq(VBlock)
    BY <1>1, <1>4, <1>8, <1>9
  <2>3. QED
    BY <1>5, <1>9, <2>1, <2>2, Zenon
<1>11. /\ vmem_list' \in Seq(VBlock)
       /\ \A w \in Weights : \A x : SumIs(cleared, w, x) => SumIs(vmem_list', w, x)
  BY <1>10, MergeFreeIs, Zenon
<1>12. ASSUME NEW w \in Weights, NEW x, SumIs(vmem_list, w, x)
       PROVE  SumIs(vmem_list', w, x - w[old])
  <2>1. w \in [VBlock -> Int] /\ w[d] = 0 /\ w[old] \in Int
    BY <1>8 DEF Weights
  <2>2. SumIs(cleared, w, (x - w[old]) + w[d])
    BY <1>1, <1>4, <1>6, <1>8, <1>9, <1>12, <2>1, SumExcept, Zenon
  <2>3. x \in Int
    BY <1>1, <1>12, <2>1, SumUnique, Zenon
  <2>4. (x - w[old]) + 0 = x - w[old]
    BY <2>1, <2>3
  <2>5. QED
    BY <1>11, <2>1, <2>2, <2>4, Zenon
<1>13. VTypes'
  <2>1. vowned' \subseteq vowned /\ IsFiniteSet(vowned')
    BY <1>1, <1>5, FS_RemoveElement
  <2>2. vmem_freed' \in Nat
    BY <1>1, <1>4, <1>5
  <2>3. QED
    BY <1>1, <1>5, <1>11, <2>1, <2>2 DEF VTypes
<1>14. VAccounts'
  <2>1. ASSUME NEW p \in Nat
        PROVE  SumIs(vmem_list', At(p), Cardinality(OwnersAt(vowned', p)))
    <3>1. At(p)[old] = IF a.ptr = p THEN 1 ELSE 0
      BY <1>4, <1>6, Zenon DEF At
    <3>2. Cardinality(OwnersAt(vowned \ {a}, p)) =
            Cardinality(OwnersAt(vowned, p)) - IF a.ptr = p THEN 1 ELSE 0
      BY <1>1, OwnerCount
    <3>3. Cardinality(OwnersAt(vowned', p)) = Cardinality(OwnersAt(vowned, p)) - At(p)[old]
      BY <1>5, <3>1, <3>2, Zenon
    <3>4. SumIs(vmem_list, At(p), Cardinality(OwnersAt(vowned, p)))
      BY Zenon DEF VInv, VAccounts
    <3>5. QED
      BY <1>12, <3>3, <3>4, WeightsAre, Zenon
  <2>2. SumIs(vmem_list', Held, vmem_allocated' - vmem_freed')
    <3>1. Held[old] = old.size
      BY <1>4, <1>6, Zenon DEF Held
    <3>2. vmem_allocated' - vmem_freed' = (vmem_allocated - vmem_freed) - old.size
      BY <1>1, <1>4, <1>5, <1>6
    <3>3. SumIs(vmem_list, Held, vmem_allocated - vmem_freed)
      BY Zenon DEF VInv, VAccounts
    <3>4. QED
      BY <1>12, <3>1, <3>2, <3>3, WeightsAre, Zenon
  <2>3. QED
    BY <2>1, <2>2 DEF VAccounts
<1>15. Unfreed'
  <2>1. vmem_freed' # 0
    BY <1>1, <1>4, <1>5
  <2>2. QED
    BY <2>1 DEF Unfreed
<1>16. QED
  BY <1>13, <1>14, <1>15, Zenon DEF VInv

\* Every step of the composition keeps the invariant of the virtual allocator.
LEMMA VStep == VInv /\ [Next]_vars => VInv'
<1>1. SUFFICES ASSUME VInv, [Next]_vars PROVE VInv'
  OBVIOUS
<1>2. CASE VNext
  BY <1>1, <1>2, VAlloc, VFree, Zenon DEF VNext
<1>3. CASE UNCHANGED vvars
  BY <1>1, <1>3, VQuiet DEF vvars
<1>4. QED
  BY <1>1, <1>2, <1>3 DEF Next, vars

\* For every request and every number of pages, a pointer that vmalloc handed out can be
\* given back: each address has as many allocated blocks as owners, merges included.
THEOREM VmallocOwners == Spec => []OwnersListed
<1>1. VInv => OwnersListed
  <2>1. SUFFICES ASSUME VInv,
                        NEW p \in {a.ptr : a \in vowned} \cup {b.virt_addr : b \in Range(vmem_list)}
                 PROVE  Cardinality({a \in vowned : a.ptr = p}) =
                        Cardinality({k \in DOMAIN vmem_list :
                                       vmem_list[k].virt_addr = p /\ ~vmem_list[k].is_free})
    BY Zenon DEF OwnersListed
  <2>2. vmem_list \in Seq(VBlock) /\ vowned \subseteq [ptr : Nat, size : Nat \ {0}, id : Nat]
    BY <2>1 DEF VInv, VTypes
  <2>3. p \in Nat
    <3>1. Range(vmem_list) \subseteq VBlock
      BY <2>2 DEF Range
    <3>2. \A b \in VBlock : b.virt_addr \in Nat
      BY DEF VBlock
    <3>3. \A a \in vowned : a.ptr \in Nat
      BY <2>2
    <3>4. QED
      BY <2>1, <3>1, <3>2, <3>3
  <2>4. SumIs(vmem_list, At(p), Cardinality(OwnersAt(vowned, p)))
    BY <2>1, <2>3, Zenon DEF VInv, VAccounts
  <2>5. QED
    BY <2>2, <2>4, CountIs, Zenon DEF OwnersAt
<1>2. QED
  BY <1>1, VStart, VStep, PTL DEF Spec, Init

\* "Currently used" of vmalloc_stats is what the allocated blocks hold.
THEOREM VmallocStats == Spec => []VStatsExact
<1>1. VInv => VStatsExact
  <2>1. SUFFICES ASSUME VInv PROVE VStatsExact
    OBVIOUS
  <2>2. vmem_list \in Seq(VBlock) /\ SumIs(vmem_list, Held, vmem_allocated - vmem_freed)
    BY <2>1, Zenon DEF VInv, VTypes, VAccounts
  <2>3. Held \in [VBlock -> Int] /\ SumIs(vmem_list, Held, InUse(vmem_list))
    BY <2>2, InUseIs, WeightsAre DEF Weights
  <2>4. QED
    BY <2>2, <2>3, SumUnique, Zenon DEF VStatsExact
<1>2. QED
  BY <1>1, VStart, VStep, PTL DEF Spec, Init

\* Until the first vfree the blocks of vmalloc.c follow each other and what callers own
\* never overlaps.
THEOREM VmallocDisjoint == Spec => []DisjointUntilFree
<1>1. VInv => DisjointUntilFree
  BY Zenon DEF VInv, Unfreed, DisjointUntilFree
<1>2. QED
  BY <1>1, VStart, VStep, PTL DEF Spec, Init
=============================================================================
