---------------------------- MODULE VarLists_proofs ----------------------------
(***************************************************************************)
(* Theorems about the lists of variables and the heap that they are cut    *)
(* from, for any names, functions, sizes of lists and blocks: chunks in    *)
(* use never overlap, lists stay sorted and no variable is ever lost.      *)
(***************************************************************************)
EXTENDS VarLists, InductionLemmas, SequenceTheorems

-------------------------------------------------------------------------------
(* SimpleHeap *)

Heap == [sBlockCount : Nat, mFreeMarker : 0 .. BLOCK_SIZE,
         sMostRecentlyAllocated : Chunk \union {NULL}, live : SUBSET Chunk]

\* What is in use of the last block ends at the marker.
BelowMarker(h) ==
  /\ h.mFreeMarker % 4 = 0
  /\ h.sBlockCount = 0 => h.mFreeMarker = BLOCK_SIZE
  /\ \A c \in h.live : c.block = h.sBlockCount => c.at + c.size <= h.mFreeMarker

\* The chunk that Delete can give back is the last one of the last block.
RecentIsLast(h) ==
  LET r == h.sMostRecentlyAllocated
  IN r # NULL =>
       /\ r.block = h.sBlockCount /\ r.at % 4 = 0 /\ r.at <= h.mFreeMarker
       /\ \A c \in h.live \ {r} : c.block = h.sBlockCount => c.at + c.size <= r.at

HeapInv(h) == h \in Heap /\ ChunksApart(h) /\ BelowMarker(h) /\ RecentIsLast(h)

LEMMA ConsumedFits ==
  ASSUME NEW marker \in 0 .. BLOCK_SIZE, marker % 4 = 0,
         NEW size \in 1 .. BLOCK_SIZE, marker + size <= BLOCK_SIZE
  PROVE  /\ marker + Consumed(size) \in 0 .. BLOCK_SIZE
         /\ (marker + Consumed(size)) % 4 = 0
         /\ marker + size <= marker + Consumed(size)
         /\ marker \in 0 .. BLOCK_SIZE - 1
<1>1. BLOCK_SIZE \in Nat /\ BLOCK_SIZE % 4 = 0
  BY BlockAssumption
<1>2. CASE size % 4 = 0
  <2>1. Consumed(size) = size
    BY <1>2 DEF Consumed
  <2> QED BY <1>1, <1>2, <2>1
<1>3. CASE size % 4 # 0
  <2>1. Consumed(size) = size + (4 - (size % 4))
    BY <1>3 DEF Consumed
  <2> QED BY <1>1, <1>3, <2>1
<1> QED BY <1>2, <1>3

LEMMA EmptyHeapSound == HeapInv(EmptyHeap)
<1>1. BLOCK_SIZE \in Nat /\ BLOCK_SIZE % 4 = 0
  BY BlockAssumption
<1> QED BY <1>1 DEF HeapInv, Heap, EmptyHeap, ChunksApart, BelowMarker, RecentIsLast

LEMMA CreateBlockSound ==
  ASSUME NEW h, HeapInv(h)
  PROVE  /\ CreateBlock(h) \in Heap /\ ChunksApart(CreateBlock(h))
         /\ BelowMarker(CreateBlock(h))
         /\ CreateBlock(h).mFreeMarker = 0
         /\ CreateBlock(h).sBlockCount \in Nat \ {0}
         /\ \A c \in CreateBlock(h).live : c.block # CreateBlock(h).sBlockCount
<1> DEFINE n == CreateBlock(h)
<1>1. /\ n.sBlockCount = h.sBlockCount + 1 /\ n.mFreeMarker = 0
      /\ n.live = h.live /\ n.sMostRecentlyAllocated = h.sMostRecentlyAllocated
      /\ h.sBlockCount \in Nat /\ h.live \subseteq Chunk
  BY DEF CreateBlock, HeapInv, Heap
<1>2. n \in Heap
  <2>1. 0 \in 0 .. BLOCK_SIZE /\ h \in Heap
    BY BlockAssumption DEF HeapInv
  <2>2. n = [[h EXCEPT !.sBlockCount = h.sBlockCount + 1] EXCEPT !.mFreeMarker = 0]
    BY <2>1 DEF CreateBlock, Heap
  <2>3. h.sBlockCount + 1 \in Nat /\ h.live \in SUBSET Chunk
        /\ h.sMostRecentlyAllocated \in Chunk \union {NULL}
    BY <2>1 DEF Heap
  <2> DEFINE o == [h EXCEPT !.sBlockCount = h.sBlockCount + 1]
  <2>4. o \in Heap
    BY <2>1, <2>3 DEF Heap
  <2> HIDE DEF o
  <2>5. [o EXCEPT !.mFreeMarker = 0] \in Heap
    BY <2>1, <2>4 DEF Heap
  <2> QED BY <2>2, <2>5 DEF o
<1> HIDE DEF n
<1>3. \A c \in n.live : c.block \in 1 .. h.sBlockCount
  BY <1>1 DEF HeapInv, ChunksApart
<1>4. \A c \in n.live : c.block \in 1 .. n.sBlockCount /\ c.block # n.sBlockCount
  BY <1>1, <1>3
<1>5. ChunksApart(n)
  BY <1>1, <1>4 DEF HeapInv, ChunksApart
<1>6. BelowMarker(n)
  BY <1>1, <1>4 DEF BelowMarker
<1> QED BY <1>1, <1>2, <1>4, <1>5, <1>6 DEF n

\* Whatever is asked for, Malloc leaves a sound heap, and what it returns is
\* what Delete would give back.
LEMMA MallocSound ==
  ASSUME NEW h, HeapInv(h), NEW size, NEW oom \in BOOLEAN
  PROVE  LET m == Malloc(h, size, oom)
         IN /\ HeapInv(m.heap)
            /\ m.ptr \in Chunk \union {NULL}
            /\ ~oom /\ size \in 1 .. BLOCK_SIZE => m.ptr \in Chunk
<1> DEFINE m == Malloc(h, size, oom)
<1>1. CASE size \notin 1 .. BLOCK_SIZE \/ (oom /\ size > mSpaceAvailable(h))
  BY <1>1 DEF Malloc
<1>2. CASE ~(size \notin 1 .. BLOCK_SIZE \/ (oom /\ size > mSpaceAvailable(h)))
  <2> DEFINE last  == IF size > mSpaceAvailable(h) THEN CreateBlock(h) ELSE h
             chunk == [block |-> last.sBlockCount, at |-> last.mFreeMarker,
                       size |-> size]
             new   == [last EXCEPT !.mFreeMarker = @ + Consumed(size),
                                   !.sMostRecentlyAllocated = chunk,
                                   !.live = @ \union {chunk}]
  <2>1. m = [heap |-> new, ptr |-> chunk]
    BY <1>2 DEF Malloc
  <2>2. size \in 1 .. BLOCK_SIZE /\ BLOCK_SIZE \in Nat
    BY <1>2, BlockAssumption
  <2>3. /\ last \in Heap /\ ChunksApart(last) /\ BelowMarker(last)
        /\ last.mFreeMarker + size <= BLOCK_SIZE
        /\ last.sBlockCount \in Nat \ {0}
    <3>1. CASE size > mSpaceAvailable(h)
      BY <2>2, <3>1, CreateBlockSound
    <3>2. CASE ~(size > mSpaceAvailable(h))
      BY <2>2, <3>2 DEF mSpaceAvailable, HeapInv, Heap, BelowMarker
    <3> QED BY <3>1, <3>2
  <2> HIDE DEF last
  <2>4. /\ last.mFreeMarker \in 0 .. BLOCK_SIZE /\ last.mFreeMarker % 4 = 0
        /\ last.live \subseteq Chunk
    BY <2>3 DEF Heap, BelowMarker
  <2>5. /\ last.mFreeMarker + Consumed(size) \in 0 .. BLOCK_SIZE
        /\ (last.mFreeMarker + Consumed(size)) % 4 = 0
        /\ last.mFreeMarker + size <= last.mFreeMarker + Consumed(size)
        /\ last.mFreeMarker \in 0 .. BLOCK_SIZE - 1
    BY <2>2, <2>3, <2>4, ConsumedFits
  <2>6. /\ chunk \in Chunk /\ chunk.block = last.sBlockCount
        /\ chunk.at = last.mFreeMarker /\ chunk.size = size
    BY <2>2, <2>3, <2>5 DEF Chunk
  <2> HIDE DEF chunk
  <2>7. /\ new \in Heap
        /\ new.mFreeMarker = last.mFreeMarker + Consumed(size)
        /\ new.sMostRecentlyAllocated = chunk
        /\ new.live = last.live \union {chunk}
        /\ new.sBlockCount = last.sBlockCount
    BY <2>3, <2>5, <2>6 DEF Heap
  <2> HIDE DEF new
  <2>8. \A c \in last.live : /\ c \in Chunk
                             /\ c.block = last.sBlockCount => c.at + c.size <= chunk.at
    BY <2>3, <2>4, <2>6 DEF BelowMarker
  <2>9. ChunksApart(new)
    <3>1. /\ chunk.block \in 1 .. new.sBlockCount /\ chunk.at % 4 = 0
          /\ chunk.at + chunk.size <= BLOCK_SIZE
      BY <2>3, <2>4, <2>6, <2>7
    <3>2. ASSUME NEW c \in last.live, NEW d \in last.live \ {c}
          PROVE  d.block # c.block \/ d.at + d.size <= c.at \/ c.at + c.size <= d.at
      BY <2>3 DEF ChunksApart
    <3>3. ASSUME NEW c \in last.live
          PROVE  /\ c.block \in 1 .. new.sBlockCount
                 /\ c.at % 4 = 0 /\ c.at + c.size <= BLOCK_SIZE
      BY <2>3, <2>7 DEF ChunksApart
    <3> QED BY <2>6, <2>7, <2>8, <3>1, <3>2, <3>3 DEF ChunksApart
  <2>10. BelowMarker(new)
    <3>1. ASSUME NEW c \in last.live, c.block = last.sBlockCount
          PROVE  c.at + c.size <= new.mFreeMarker
      <4>1. c.at \in Nat /\ c.size \in Nat
        BY <2>8 DEF Chunk
      <4>2. c.at + c.size <= chunk.at
        BY <2>8, <3>1
      <4> QED BY <2>2, <2>4, <2>5, <2>6, <2>7, <4>1, <4>2
    <3> QED BY <2>3, <2>5, <2>6, <2>7, <3>1 DEF BelowMarker
  <2>11. RecentIsLast(new)
    <3>1. chunk.at <= new.mFreeMarker
      BY <2>2, <2>4, <2>5, <2>6, <2>7
    <3> QED BY <2>4, <2>6, <2>7, <2>8, <3>1 DEF RecentIsLast
  <2> QED BY <2>1, <2>6, <2>7, <2>9, <2>10, <2>11 DEF HeapInv
<1> QED BY <1>1, <1>2, NullAssumption

\* Whatever chunk is given back, and whether it is in use or not.
LEMMA DeleteSound ==
  ASSUME NEW h, HeapInv(h), NEW ptr \in Chunk
  PROVE  HeapInv(Delete(h, ptr))
<1> DEFINE d == Delete(h, ptr)
<1>1. /\ h \in Heap /\ ChunksApart(h) /\ BelowMarker(h) /\ RecentIsLast(h)
      /\ ptr # NULL /\ ptr.at \in 0 .. BLOCK_SIZE
  BY NullAssumption, BlockAssumption DEF HeapInv, Chunk
<1>2. CASE ptr = h.sMostRecentlyAllocated
  <2>1. d = [h EXCEPT !.mFreeMarker = ptr.at, !.sMostRecentlyAllocated = NULL,
                      !.live = @ \ {ptr}]
    BY <1>2 DEF Delete
  <2>2. /\ d \in Heap /\ d.mFreeMarker = ptr.at /\ d.live = h.live \ {ptr}
        /\ d.sMostRecentlyAllocated = NULL /\ d.sBlockCount = h.sBlockCount
    BY <1>1, <2>1 DEF Heap
  <2> HIDE DEF d
  <2>3. /\ ptr.block = h.sBlockCount /\ ptr.at % 4 = 0
        /\ \A c \in h.live \ {ptr} : c.block = h.sBlockCount => c.at + c.size <= ptr.at
    BY <1>1, <1>2 DEF RecentIsLast
  <2>4. h.sBlockCount # 0
    BY <2>3 DEF Chunk
  <2>5. ChunksApart(d)
    BY <1>1, <2>2 DEF ChunksApart
  <2>6. BelowMarker(d)
    BY <2>2, <2>3, <2>4 DEF BelowMarker
  <2> QED BY <2>2, <2>5, <2>6 DEF HeapInv, RecentIsLast, d
<1>3. CASE ptr # h.sMostRecentlyAllocated
  <2>1. /\ d \in Heap /\ d.mFreeMarker = h.mFreeMarker /\ d.live = h.live \ {ptr}
        /\ d.sMostRecentlyAllocated = h.sMostRecentlyAllocated
        /\ d.sBlockCount = h.sBlockCount
    BY <1>1, <1>3 DEF Heap, Delete
  <2> HIDE DEF d
  <2>2. ChunksApart(d)
    BY <1>1, <2>1 DEF ChunksApart
  <2>3. BelowMarker(d) /\ RecentIsLast(d)
    BY <1>1, <2>1 DEF BelowMarker, RecentIsLast
  <2> QED BY <2>1, <2>2, <2>3 DEF HeapInv, d
<1> QED BY <1>2, <1>3

LEMMA HeapInvOK == ASSUME NEW h, HeapInv(h) PROVE HeapOK(h) /\ ChunksApart(h)
BY DEF HeapInv, Heap, HeapOK

-------------------------------------------------------------------------------
(* The binary searches *)

\* Where a name is or would be in a list: what is in front of pos is less, and
\* what is behind it is greater.
Fits(list, name, pos) ==
  /\ pos \in 0 .. Len(list)
  /\ \A i \in 1 .. pos : list[i] < name
  /\ \A i \in pos + 1 .. Len(list) : list[i] > name
Occurs(list, name) == \E i \in 1 .. Len(list) : list[i] = name

\* How much of the list a search still has to look at.
Width(list) == [range \in Ranges(list) |->
                  IF range[2] >= range[1] THEN range[2] + 1 - range[1] ELSE 0]

LEMMA WidthType ==
  ASSUME NEW list, Len(list) \in Nat
  PROVE  Width(list) \in [Ranges(list) -> 0 .. Len(list)]
BY DEF Width, Ranges

\* The middle of a range that is not empty, and what is left of the range.
LEMMA Halves ==
  ASSUME NEW list, Len(list) \in Nat, NEW range \in Ranges(list),
         range[1] <= range[2]
  PROVE  LET left == range[1]  right == range[2]  mid == (left + right) \div 2
         IN /\ mid \in left .. right /\ mid + 1 \in 1 .. Len(list)
            /\ left \in 0 .. Len(list) /\ right \in -1 .. Len(list) - 1
            /\ <<mid + 1, right>> \in Ranges(list)
            /\ <<left, mid - 1>> \in Ranges(list)
            /\ Width(list)[<<mid + 1, right>>] < Width(list)[range]
            /\ Width(list)[<<left, mid - 1>>] < Width(list)[range]
<1> DEFINE left == range[1]
           right == range[2]
           mid == (left + right) \div 2
<1>1. left \in 0 .. Len(list) /\ right \in -1 .. Len(list) - 1 /\ left <= right
  BY DEF Ranges
<1>2. mid \in left .. right
  <2> HIDE DEF left, right
  <2> QED BY <1>1
<1> HIDE DEF mid
<1>3. mid + 1 \in 1 .. Len(list) /\ mid + 1 \in 0 .. Len(list)
      /\ mid - 1 \in -1 .. Len(list) - 1 /\ mid \in Int
  <2> HIDE DEF left, right
  <2> QED BY <1>1, <1>2
<1>4. <<mid + 1, right>> \in Ranges(list) /\ <<left, mid - 1>> \in Ranges(list)
  BY <1>1, <1>3 DEF Ranges
<1>5. Width(list)[range] = right + 1 - left
  BY <1>1 DEF Width
<1>6. Width(list)[<<mid + 1, right>>] =
        IF right >= mid + 1 THEN right + 1 - (mid + 1) ELSE 0
  BY <1>4 DEF Width
<1>7. Width(list)[<<left, mid - 1>>] =
        IF mid - 1 >= left THEN (mid - 1) + 1 - left ELSE 0
  BY <1>4 DEF Width
<1>8. /\ Width(list)[<<mid + 1, right>>] < Width(list)[range]
      /\ Width(list)[<<left, mid - 1>>] < Width(list)[range]
  <2> HIDE DEF left, right
  <2> QED BY <1>1, <1>2, <1>3, <1>5, <1>6, <1>7
<1> QED BY <1>1, <1>2, <1>3, <1>4, <1>8 DEF mid

\* What a search may know of the part of the list outside its range, and what
\* it knows after having looked at one element.
Bounded(list, name, range) ==
  /\ range \in Ranges(list) /\ range[1] <= range[2] + 1
  /\ \A i \in 1 .. range[1] : list[i] < name
  /\ \A i \in range[2] + 2 .. Len(list) : list[i] > name

LEMMA WholeBounded ==
  ASSUME NEW list \in Seq(Nat), NEW name \in Nat
  PROVE  Bounded(list, name, <<0, Len(list) - 1>>)
<1>1. Len(list) \in Nat
  OBVIOUS
<1> QED BY <1>1 DEF Bounded, Ranges

LEMMA HalvesBounded ==
  ASSUME NEW list \in Seq(Nat), Ascending(list), NEW name \in Nat,
         NEW range, Bounded(list, name, range), range[1] <= range[2],
         NEW mid, mid = (range[1] + range[2]) \div 2
  PROVE  /\ name > list[mid + 1] => Bounded(list, name, <<mid + 1, range[2]>>)
         /\ name < list[mid + 1] => Bounded(list, name, <<range[1], mid - 1>>)
         /\ list[mid + 1] \in Nat
<1> DEFINE left == range[1]
           right == range[2]
<1>1. Len(list) \in Nat /\ \A i \in 1 .. Len(list) : list[i] \in Nat
  OBVIOUS
<1>2. /\ mid \in left .. right /\ mid + 1 \in 1 .. Len(list)
      /\ left \in 0 .. Len(list) /\ right \in -1 .. Len(list) - 1
      /\ <<mid + 1, right>> \in Ranges(list)
      /\ <<left, mid - 1>> \in Ranges(list)
  BY <1>1, Halves DEF Bounded
<1>3. ASSUME name > list[mid + 1], NEW i \in 1 .. mid + 1 PROVE list[i] < name
  <2>1. i \in 1 .. Len(list)
    BY <1>1, <1>2
  <2>2. i = mid + 1 \/ i < mid + 1
    BY <1>2
  <2>3. i = mid + 1 \/ list[i] < list[mid + 1]
    BY <1>2, <2>1, <2>2, Zenon DEF Ascending
  <2> DEFINE x == list[i]
             y == list[mid + 1]
  <2>4. x \in Nat /\ y \in Nat
    BY <1>1, <1>2, <2>1
  <2>5. (x = y \/ x < y) /\ y < name
    BY <1>3, <2>3, <2>4
  <2> HIDE DEF x, y
  <2>6. x < name
    BY <2>4, <2>5
  <2> QED BY <2>6 DEF x
<1>4. ASSUME name < list[mid + 1], NEW i \in (mid - 1) + 2 .. Len(list)
      PROVE  list[i] > name
  <2>1. i \in 1 .. Len(list) /\ i >= mid + 1
    BY <1>1, <1>2
  <2>2. i = mid + 1 \/ mid + 1 < i
    BY <1>2, <2>1
  <2>3. i = mid + 1 \/ list[mid + 1] < list[i]
    BY <1>2, <2>1, <2>2, Zenon DEF Ascending
  <2> DEFINE x == list[i]
             y == list[mid + 1]
  <2>4. x \in Nat /\ y \in Nat
    BY <1>1, <1>2, <2>1
  <2>5. (x = y \/ y < x) /\ name < y
    BY <1>4, <2>3, <2>4
  <2> HIDE DEF x, y
  <2>6. x > name
    BY <2>4, <2>5
  <2> QED BY <2>6 DEF x
<1>5. name > list[mid + 1] => Bounded(list, name, <<mid + 1, right>>)
  <2>1. mid + 1 <= right + 1
    BY <1>2
  <2> QED BY <1>2, <1>3, <2>1 DEF Bounded
<1>6. name < list[mid + 1] => Bounded(list, name, <<left, mid - 1>>)
  <2>1. left <= (mid - 1) + 1
    BY <1>2
  <2> QED BY <1>2, <1>4, <2>1 DEF Bounded
<1> QED BY <1>1, <1>2, <1>5, <1>6

\* The search finds every name of a sorted list, and for another the place
\* where it belongs.
LEMMA SearchIs ==
  ASSUME NEW list \in Seq(Nat), Ascending(list), NEW name \in Nat
  PROVE  LET r == Search(list, name)
         IN /\ r.found \in BOOLEAN /\ (r.found <=> Occurs(list, name))
            /\ ~r.found => Fits(list, name, r.pos)
<1> DEFINE n == Len(list)
           D == Ranges(list)
           T == [found : BOOLEAN, pos : Int]
           Mid(p) == (p[1] + p[2]) \div 2
           Upper(p) == <<Mid(p) + 1, p[2]>>
           Lower(p) == <<p[1], Mid(p) - 1>>
           Step(p, S) ==
             IF p[1] > p[2]                  THEN [found |-> FALSE, pos |-> p[1]]
             ELSE IF name > list[Mid(p) + 1] THEN S[Upper(p)]
             ELSE IF name < list[Mid(p) + 1] THEN S[Lower(p)]
             ELSE [found |-> TRUE, pos |-> Mid(p)]
           Body(S) == [p \in D |-> Step(p, S)]
           S0 == CHOOSE S : S = Body(S)
           G == [p \in D |-> [f \in [D -> T] |-> Step(p, f)]]
<1>1. n \in Nat /\ Width(list) \in [D -> 0 .. n] /\ T # {}
  <2>1. [found |-> FALSE, pos |-> 0] \in T
    OBVIOUS
  <2>2. n \in Nat
    OBVIOUS
  <2>3. Width(list) \in [D -> 0 .. n]
    BY <2>2, WidthType
  <2> HIDE DEF T, n
  <2> QED BY <2>1, <2>2, <2>3
<1>2. \A p \in D : p[1] \in Int /\ p[2] \in Int
  BY DEF Ranges
<1>3. ASSUME NEW p \in D, p[1] <= p[2]
      PROVE  /\ Upper(p) \in D /\ Lower(p) \in D /\ Mid(p) \in Int
             /\ Mid(p) + 1 \in 1 .. n
             /\ Width(list)[Upper(p)] < Width(list)[p]
             /\ Width(list)[Lower(p)] < Width(list)[p]
  <2>1. /\ Mid(p) \in p[1] .. p[2] /\ Mid(p) + 1 \in 1 .. n
        /\ Upper(p) \in D /\ Lower(p) \in D
        /\ Width(list)[Upper(p)] < Width(list)[p]
        /\ Width(list)[Lower(p)] < Width(list)[p]
    BY <1>1, <1>3, Halves
  <2> QED BY <1>2, <2>1
<1> HIDE DEF D, T, Mid, Upper, Lower, n
<1>4. ASSUME NEW p \in D, NEW f \in [D -> T] PROVE Step(p, f) \in T
  <2>1. CASE p[1] > p[2]
    BY <1>2, <2>1 DEF T
  <2>2. CASE ~(p[1] > p[2])
    <3>1. p[1] <= p[2]
      BY <1>2, <2>2
    <3>2. Upper(p) \in D /\ Lower(p) \in D /\ Mid(p) \in Int
      BY <1>3, <3>1
    <3>3. [found |-> TRUE, pos |-> Mid(p)] \in T
      BY <3>2 DEF T
    <3> QED BY <2>2, <3>2, <3>3
  <2> QED BY <2>1, <2>2
<1>5. G \in [D -> [[D -> T] -> T]]
  BY <1>4
<1>6. Local(G, D, Width(list), T)
  <2>1. ASSUME NEW p \in D, NEW f \in [D -> T], NEW g \in [D -> T],
               \A q \in D : Width(list)[q] < Width(list)[p] => f[q] = g[q]
        PROVE  Step(p, f) = Step(p, g)
    <3>1. CASE p[1] > p[2]
      BY <3>1
    <3>2. CASE ~(p[1] > p[2])
      <4>1. p[1] <= p[2]
        BY <1>2, <3>2
      <4> QED BY <1>3, <2>1, <4>1
    <3> QED BY <3>1, <3>2
  <2>2. \A p \in D : \A f \in [D -> T] : G[p][f] = Step(p, f)
    OBVIOUS
  <2> HIDE DEF G, Step
  <2> QED BY <2>1, <2>2 DEF Local
<1>7. \E f : Solves(f, G, D, T)
  <2> HIDE DEF G
  <2>1. Measure(Width(list), D, n) /\ StepsOver(G, D, T)
    BY <1>1, <1>5 DEF Measure, StepsOver
  <2> QED BY <1>1, <1>6, <2>1, RecursionByMeasure, Zenon
<1>8. PICK f : f \in [D -> T] /\ \A p \in D : f[p] = G[p][f]
  <2> HIDE DEF G
  <2> QED BY <1>7 DEF Solves
<1>9. f = Body(f)
  <2>1. \A p \in D : f[p] = Step(p, f)
    BY <1>8
  <2> HIDE DEF Step
  <2> QED BY <1>8, <2>1
<1>10. S0 = Body(S0)
  BY <1>9, Zenon
<1>11. Search(list, name) = S0[<<0, n - 1>>]
  BY DEF Search, S0, Body, Step, D, Mid, Upper, Lower, n
<1> HIDE DEF S0
<1>12. \A p \in D : S0[p] = Step(p, S0)
  <2> HIDE DEF Step
  <2> QED BY <1>10
<1> DEFINE Good(r) == /\ r.found \in BOOLEAN /\ (r.found => Occurs(list, name))
                      /\ ~r.found => Fits(list, name, r.pos)
           Q == {k \in 0 .. n : \A p \in D :
                   Bounded(list, name, p) /\ Width(list)[p] <= k => Good(S0[p])}
<1>13. ASSUME NEW p \in D, Bounded(list, name, p), p[1] > p[2]
       PROVE  Good(S0[p])
  <2>1. S0[p] = [found |-> FALSE, pos |-> p[1]]
    BY <1>12, <1>13
  <2>2. p[1] \in 0 .. n /\ p[1] + 1 = p[2] + 2
    BY <1>1, <1>13 DEF Bounded, Ranges, D, n
  <2>3. Fits(list, name, p[1])
    BY <1>13, <2>2 DEF Fits, Bounded, n
  <2> QED BY <2>1, <2>3
<1>14. 0 \in Q
  <2>1. ASSUME NEW p \in D, Width(list)[p] <= 0 PROVE p[1] > p[2]
    BY <1>2, <2>1 DEF Width, D
  <2> HIDE DEF Good
  <2> QED BY <1>1, <1>13, <2>1
<1>15. ASSUME NEW k \in 0 .. n - 1, k \in Q PROVE k + 1 \in Q
  <2>1. k + 1 \in 0 .. n /\ k \in Nat
    BY <1>1
  <2>2. ASSUME NEW p \in D, Bounded(list, name, p), Width(list)[p] <= k + 1
        PROVE  Good(S0[p])
    <3>1. CASE p[1] > p[2]
      BY <1>13, <2>2, <3>1
    <3>2. CASE ~(p[1] > p[2])
      <4>1. p[1] <= p[2]
        BY <1>2, <3>2
      <4>2. /\ Upper(p) \in D /\ Lower(p) \in D
            /\ Mid(p) + 1 \in 1 .. n /\ Mid(p) \in Int
            /\ Width(list)[Upper(p)] < Width(list)[p]
            /\ Width(list)[Lower(p)] < Width(list)[p]
        BY <1>3, <4>1
      <4>3. \A q \in D : Width(list)[q] < Width(list)[p] => Width(list)[q] <= k
        <5>1. \A q \in D : Width(list)[q] \in Nat
          BY <1>1
        <5> QED BY <2>1, <2>2, <5>1
      <4>4. /\ name > list[Mid(p) + 1] => Bounded(list, name, Upper(p))
            /\ name < list[Mid(p) + 1] => Bounded(list, name, Lower(p))
            /\ list[Mid(p) + 1] \in Nat
        BY <2>2, <4>1, HalvesBounded DEF Upper, Lower, Mid
      <4>5. CASE name > list[Mid(p) + 1]
        <5>1. S0[p] = S0[Upper(p)]
          BY <1>12, <3>2, <4>5
        <5>2. Width(list)[Upper(p)] <= k /\ Bounded(list, name, Upper(p))
          BY <4>2, <4>3, <4>4, <4>5
        <5>3. Good(S0[Upper(p)])
          <6> HIDE DEF Good
          <6> QED BY <1>15, <4>2, <5>2
        <5> QED BY <5>1, <5>3
      <4>6. CASE name < list[Mid(p) + 1]
        <5>1. S0[p] = S0[Lower(p)]
          <6>1. ~(name > list[Mid(p) + 1])
            BY <4>4, <4>6
          <6> QED BY <1>12, <3>2, <4>6, <6>1
        <5>2. Width(list)[Lower(p)] <= k /\ Bounded(list, name, Lower(p))
          BY <4>2, <4>3, <4>4, <4>6
        <5>3. Good(S0[Lower(p)])
          <6> HIDE DEF Good
          <6> QED BY <1>15, <4>2, <5>2
        <5> QED BY <5>1, <5>3
      <4>7. CASE ~(name > list[Mid(p) + 1]) /\ ~(name < list[Mid(p) + 1])
        <5>1. S0[p] = [found |-> TRUE, pos |-> Mid(p)]
          BY <1>12, <3>2, <4>7
        <5>2. list[Mid(p) + 1] = name
          BY <4>4, <4>7
        <5>3. Occurs(list, name)
          BY <4>2, <5>2 DEF Occurs, n
        <5> QED BY <5>1, <5>3
      <4> QED BY <4>5, <4>6, <4>7
    <3> QED BY <3>1, <3>2
  <2> HIDE DEF Good
  <2> QED BY <2>1, <2>2
<1> HIDE DEF Q
<1>16. n \in Q
  <2>1. \A k \in 0 .. n : k \in Q
    BY <1>1, <1>14, <1>15, Induction
  <2> QED BY <1>1, <2>1
<1>17. Good(S0[<<0, n - 1>>])
  <2> DEFINE p == <<0, n - 1>>
  <2>1. Bounded(list, name, p) /\ p \in D
    BY WholeBounded DEF Bounded, D, n
  <2>2. Width(list)[p] \in 0 .. n
    BY <1>1, <2>1
  <2>3. Width(list)[p] <= n
    BY <1>1, <2>2
  <2> HIDE DEF Good, p
  <2> QED BY <1>16, <2>1, <2>3 DEF Q, p
<1>18. \A pos : Fits(list, name, pos) => ~Occurs(list, name)
  <2>1. ASSUME NEW pos, Fits(list, name, pos), NEW i \in 1 .. Len(list)
        PROVE  list[i] # name
    <3>1. list[i] \in Nat /\ pos \in 0 .. Len(list) /\ Len(list) \in Nat
      BY <2>1 DEF Fits
    <3>2. i \in 1 .. pos \/ i \in pos + 1 .. Len(list)
      BY <3>1
    <3> QED BY <2>1, <3>1, <3>2 DEF Fits
  <2> QED BY <2>1 DEF Occurs
<1> QED BY <1>11, <1>17, <1>18

\* The search of the merge finds the place of a name that is not there.
LEMMA InsertionPointIs ==
  ASSUME NEW list \in Seq(Nat), Ascending(list), NEW name \in Nat,
         ~Occurs(list, name)
  PROVE  Fits(list, name, InsertionPoint(list, name))
<1> DEFINE n == Len(list)
           D == Ranges(list)
           T == Int
           Mid(p) == (p[1] + p[2]) \div 2
           Upper(p) == <<Mid(p) + 1, p[2]>>
           Lower(p) == <<p[1], Mid(p) - 1>>
           Step(p, S) ==
             IF p[1] > p[2]                  THEN p[1]
             ELSE IF name > list[Mid(p) + 1] THEN S[Upper(p)]
             ELSE S[Lower(p)]
           Body(S) == [p \in D |-> Step(p, S)]
           S0 == CHOOSE S : S = Body(S)
           G == [p \in D |-> [f \in [D -> T] |-> Step(p, f)]]
<1>1. n \in Nat /\ Width(list) \in [D -> 0 .. n] /\ T # {}
  <2>1. 0 \in T
    OBVIOUS
  <2>2. n \in Nat
    OBVIOUS
  <2>3. Width(list) \in [D -> 0 .. n]
    BY <2>2, WidthType
  <2> HIDE DEF T, n
  <2> QED BY <2>1, <2>2, <2>3
<1>2. \A p \in D : p[1] \in Int /\ p[2] \in Int
  BY DEF Ranges
<1>3. ASSUME NEW p \in D, p[1] <= p[2]
      PROVE  /\ Upper(p) \in D /\ Lower(p) \in D /\ Mid(p) \in Int
             /\ Mid(p) + 1 \in 1 .. n
             /\ Width(list)[Upper(p)] < Width(list)[p]
             /\ Width(list)[Lower(p)] < Width(list)[p]
  <2>1. /\ Mid(p) \in p[1] .. p[2] /\ Mid(p) + 1 \in 1 .. n
        /\ Upper(p) \in D /\ Lower(p) \in D
        /\ Width(list)[Upper(p)] < Width(list)[p]
        /\ Width(list)[Lower(p)] < Width(list)[p]
    BY <1>1, <1>3, Halves
  <2> QED BY <1>2, <2>1
<1> HIDE DEF D, T, Mid, Upper, Lower, n
<1>4. ASSUME NEW p \in D, NEW f \in [D -> T] PROVE Step(p, f) \in T
  <2>1. CASE p[1] > p[2]
    BY <1>2, <2>1 DEF T
  <2>2. CASE ~(p[1] > p[2])
    <3>1. p[1] <= p[2]
      BY <1>2, <2>2
    <3>2. Upper(p) \in D /\ Lower(p) \in D /\ Mid(p) \in Int
      BY <1>3, <3>1
    <3> QED BY <2>2, <3>2
  <2> QED BY <2>1, <2>2
<1>5. G \in [D -> [[D -> T] -> T]]
  BY <1>4
<1>6. Local(G, D, Width(list), T)
  <2>1. ASSUME NEW p \in D, NEW f \in [D -> T], NEW g \in [D -> T],
               \A q \in D : Width(list)[q] < Width(list)[p] => f[q] = g[q]
        PROVE  Step(p, f) = Step(p, g)
    <3>1. CASE p[1] > p[2]
      BY <3>1
    <3>2. CASE ~(p[1] > p[2])
      <4>1. p[1] <= p[2]
        BY <1>2, <3>2
      <4> QED BY <1>3, <2>1, <4>1
    <3> QED BY <3>1, <3>2
  <2>2. \A p \in D : \A f \in [D -> T] : G[p][f] = Step(p, f)
    OBVIOUS
  <2> HIDE DEF G, Step
  <2> QED BY <2>1, <2>2 DEF Local
<1>7. \E f : Solves(f, G, D, T)
  <2> HIDE DEF G
  <2>1. Measure(Width(list), D, n) /\ StepsOver(G, D, T)
    BY <1>1, <1>5 DEF Measure, StepsOver
  <2> QED BY <1>1, <1>6, <2>1, RecursionByMeasure, Zenon
<1>8. PICK f : f \in [D -> T] /\ \A p \in D : f[p] = G[p][f]
  <2> HIDE DEF G
  <2> QED BY <1>7 DEF Solves
<1>9. f = Body(f)
  <2>1. \A p \in D : f[p] = Step(p, f)
    BY <1>8
  <2> HIDE DEF Step
  <2> QED BY <1>8, <2>1
<1>10. S0 = Body(S0)
  BY <1>9, Zenon
<1>11. InsertionPoint(list, name) = S0[<<0, n - 1>>]
  BY DEF InsertionPoint, S0, Body, Step, D, Mid, Upper, Lower, n
<1> HIDE DEF S0
<1>12. \A p \in D : S0[p] = Step(p, S0)
  <2> HIDE DEF Step
  <2> QED BY <1>10
<1> DEFINE Good(pos) == Fits(list, name, pos)
           Q == {k \in 0 .. n : \A p \in D :
                   Bounded(list, name, p) /\ Width(list)[p] <= k => Good(S0[p])}
<1>13. ASSUME NEW p \in D, Bounded(list, name, p), p[1] > p[2]
       PROVE  Good(S0[p])
  <2>1. S0[p] = p[1]
    BY <1>12, <1>13
  <2>2. p[1] \in 0 .. n /\ p[1] + 1 = p[2] + 2
    BY <1>1, <1>13 DEF Bounded, Ranges, D, n
  <2>3. Fits(list, name, p[1])
    BY <1>13, <2>2 DEF Fits, Bounded, n
  <2> QED BY <2>1, <2>3
<1>14. 0 \in Q
  <2>1. ASSUME NEW p \in D, Width(list)[p] <= 0 PROVE p[1] > p[2]
    BY <1>2, <2>1 DEF Width, D
  <2> HIDE DEF Good
  <2> QED BY <1>1, <1>13, <2>1
<1>15. ASSUME NEW k \in 0 .. n - 1, k \in Q PROVE k + 1 \in Q
  <2>1. k + 1 \in 0 .. n /\ k \in Nat
    BY <1>1
  <2>2. ASSUME NEW p \in D, Bounded(list, name, p), Width(list)[p] <= k + 1
        PROVE  Good(S0[p])
    <3>1. CASE p[1] > p[2]
      BY <1>13, <2>2, <3>1
    <3>2. CASE ~(p[1] > p[2])
      <4>1. p[1] <= p[2]
        BY <1>2, <3>2
      <4>2. /\ Upper(p) \in D /\ Lower(p) \in D
            /\ Mid(p) + 1 \in 1 .. n /\ Mid(p) \in Int
            /\ Width(list)[Upper(p)] < Width(list)[p]
            /\ Width(list)[Lower(p)] < Width(list)[p]
        BY <1>3, <4>1
      <4>3. \A q \in D : Width(list)[q] < Width(list)[p] => Width(list)[q] <= k
        <5>1. \A q \in D : Width(list)[q] \in Nat
          BY <1>1
        <5> QED BY <2>1, <2>2, <5>1
      <4>4. /\ name > list[Mid(p) + 1] => Bounded(list, name, Upper(p))
            /\ name < list[Mid(p) + 1] => Bounded(list, name, Lower(p))
            /\ list[Mid(p) + 1] \in Nat
        BY <2>2, <4>1, HalvesBounded DEF Upper, Lower, Mid
      <4>5. CASE name > list[Mid(p) + 1]
        <5>1. S0[p] = S0[Upper(p)]
          BY <1>12, <3>2, <4>5
        <5>2. Width(list)[Upper(p)] <= k /\ Bounded(list, name, Upper(p))
          BY <4>2, <4>3, <4>4, <4>5
        <5>3. Good(S0[Upper(p)])
          <6> HIDE DEF Good
          <6> QED BY <1>15, <4>2, <5>2
        <5> QED BY <5>1, <5>3
      <4>6. CASE name < list[Mid(p) + 1]
        <5>1. S0[p] = S0[Lower(p)]
          <6>1. ~(name > list[Mid(p) + 1])
            BY <4>4, <4>6
          <6> QED BY <1>12, <3>2, <4>6, <6>1
        <5>2. Width(list)[Lower(p)] <= k /\ Bounded(list, name, Lower(p))
          BY <4>2, <4>3, <4>4, <4>6
        <5>3. Good(S0[Lower(p)])
          <6> HIDE DEF Good
          <6> QED BY <1>15, <4>2, <5>2
        <5> QED BY <5>1, <5>3
      <4>7. list[Mid(p) + 1] # name
        BY <4>2 DEF Occurs, n
      <4>8. name > list[Mid(p) + 1] \/ name < list[Mid(p) + 1]
        BY <4>4, <4>7
      <4> QED BY <4>5, <4>6, <4>8
    <3> QED BY <3>1, <3>2
  <2> HIDE DEF Good
  <2> QED BY <2>1, <2>2
<1> HIDE DEF Q
<1>16. n \in Q
  <2>1. \A k \in 0 .. n : k \in Q
    BY <1>1, <1>14, <1>15, Induction
  <2> QED BY <1>1, <2>1
<1>17. Good(S0[<<0, n - 1>>])
  <2> DEFINE p == <<0, n - 1>>
  <2>1. Bounded(list, name, p) /\ p \in D
    BY WholeBounded DEF Bounded, D, n
  <2>2. Width(list)[p] \in 0 .. n
    BY <1>1, <2>1
  <2>3. Width(list)[p] <= n
    BY <1>1, <2>2
  <2> HIDE DEF Good, p
  <2> QED BY <1>16, <2>1, <2>3 DEF Q, p
<1> QED BY <1>11, <1>17

-------------------------------------------------------------------------------
(* Cutting and joining sorted lists *)

Sorted == {s \in Seq(Names) : Ascending(s)}
AllBelow(a, b) == \A i \in 1 .. Len(a), j \in 1 .. Len(b) : a[i] < b[j]

LEMMA SortedNumbers ==
  ASSUME NEW s \in Seq(Names)
  PROVE  /\ s \in Seq(Nat) /\ Len(s) \in Nat
         /\ \A i \in 1 .. Len(s) : s[i] \in Names /\ s[i] \in Nat
<1>1. Names \subseteq Nat
  BY VarListsAssumption
<1>2. \A i \in 1 .. Len(s) : s[i] \in Names /\ s[i] \in Nat
  BY <1>1, ElementOfSeq
<1> QED BY <1>1, <1>2

LEMMA OneSorted ==
  ASSUME NEW x \in Names
  PROVE  /\ <<x>> \in Sorted /\ Len(<<x>>) = 1
         /\ \A y : Occurs(<<x>>, y) <=> y = x
<1>1. <<x>> \in Seq(Names) /\ Len(<<x>>) = 1 /\ <<x>>[1] = x
  OBVIOUS
<1>2. \A i \in 1 .. 1 : i = 1
  OBVIOUS
<1> QED BY <1>1, <1>2 DEF Sorted, Ascending, Occurs

LEMMA EmptySorted ==
  <<>> \in Sorted /\ Len(<<>>) = 0 /\ \A y : ~Occurs(<<>>, y)
<1>1. <<>> \in Seq(Names) /\ Len(<<>>) = 0
  BY EmptySeq
<1>2. \A i : i \notin 1 .. 0
  OBVIOUS
<1> QED BY <1>1, <1>2 DEF Sorted, Ascending, Occurs

LEMMA Joined ==
  ASSUME NEW a \in Seq(Names), NEW b \in Seq(Names)
  PROVE  LET c == a \o b
         IN /\ c \in Seq(Names) /\ Len(c) = Len(a) + Len(b)
            /\ \A x : Occurs(c, x) <=> Occurs(a, x) \/ Occurs(b, x)
            /\ a \in Sorted /\ b \in Sorted /\ AllBelow(a, b) => c \in Sorted
<1> DEFINE c == a \o b
           m == Len(a)
           n == Len(b)
<1>1. m \in Nat /\ n \in Nat
  OBVIOUS
<1>2. /\ c \in Seq(Names) /\ Len(c) = m + n
      /\ \A i \in 1 .. m + n : c[i] = IF i <= m THEN a[i] ELSE b[i - m]
  BY ConcatProperties
<1> HIDE DEF c, m, n
<1>3. /\ \A i \in 1 .. m : i \in 1 .. m + n /\ c[i] = a[i]
      /\ \A j \in 1 .. n : m + j \in 1 .. m + n /\ c[m + j] = b[j]
  <2>1. ASSUME NEW i \in 1 .. m PROVE i \in 1 .. m + n /\ c[i] = a[i]
    <3>1. i \in 1 .. m + n /\ i <= m
      BY <1>1
    <3> QED BY <1>2, <3>1
  <2>2. ASSUME NEW j \in 1 .. n PROVE m + j \in 1 .. m + n /\ c[m + j] = b[j]
    <3>1. m + j \in 1 .. m + n /\ ~(m + j <= m) /\ (m + j) - m = j
      BY <1>1
    <3>2. c[m + j] = b[(m + j) - m]
      BY <1>2, <3>1
    <3> QED BY <3>1, <3>2
  <2> QED BY <2>1, <2>2
<1>4. \A i \in 1 .. m + n : i \in 1 .. m \/ i - m \in 1 .. n
  BY <1>1
<1>5. \A i \in 1 .. m + n : \/ c[i] = a[i] /\ i \in 1 .. m
                            \/ c[i] = b[i - m] /\ i - m \in 1 .. n /\ i > m
  <2>1. SUFFICES ASSUME NEW i \in 1 .. m + n
                 PROVE  \/ c[i] = a[i] /\ i \in 1 .. m
                        \/ c[i] = b[i - m] /\ i - m \in 1 .. n /\ i > m
    OBVIOUS
  <2>2. CASE i <= m
    <3>1. i \in 1 .. m
      BY <1>1, <2>2
    <3> QED BY <1>2, <2>2, <3>1
  <2>3. CASE ~(i <= m)
    <3>1. i - m \in 1 .. n /\ i > m
      BY <1>1, <2>3
    <3> QED BY <1>2, <2>3, <3>1
  <2> QED BY <2>2, <2>3
<1>6. \A x : Occurs(c, x) <=> Occurs(a, x) \/ Occurs(b, x)
  BY <1>2, <1>3, <1>5 DEF Occurs, m, n
<1>7. ASSUME a \in Sorted, b \in Sorted, AllBelow(a, b) PROVE c \in Sorted
  <2>1. ASSUME NEW i \in 1 .. m + n, NEW j \in 1 .. m + n, i < j
        PROVE  c[i] < c[j]
    <3>1. CASE j \in 1 .. m
      <4>1. i \in 1 .. m
        BY <1>1, <2>1, <3>1
      <4> QED BY <1>3, <1>7, <2>1, <3>1, <4>1 DEF Sorted, Ascending, m
    <3>2. CASE j \notin 1 .. m /\ i \in 1 .. m
      BY <1>3, <1>5, <1>7, <3>2 DEF AllBelow, m, n
    <3>3. CASE j \notin 1 .. m /\ i \notin 1 .. m
      <4>1. /\ i - m \in 1 .. n /\ j - m \in 1 .. n
            /\ c[i] = b[i - m] /\ c[j] = b[j - m]
        BY <1>5, <3>3
      <4>2. i - m < j - m
        BY <1>1, <2>1
      <4> QED BY <1>7, <4>1, <4>2, Zenon DEF Sorted, Ascending, n
    <3> QED BY <3>1, <3>2, <3>3
  <2> QED BY <1>2, <2>1 DEF Sorted, Ascending
<1> QED BY <1>2, <1>6, <1>7 DEF c, m, n

LEMMA Part ==
  ASSUME NEW a \in Seq(Names), NEW m \in 1 .. Len(a) + 1, NEW n \in m - 1 .. Len(a)
  PROVE  LET c == SubSeq(a, m, n)
         IN /\ c \in Seq(Names) /\ Len(c) = n - m + 1
            /\ \A i \in 1 .. n - m + 1 : c[i] = a[m + i - 1] /\ m + i - 1 \in m .. n
            /\ \A x : Occurs(c, x) <=> \E i \in m .. n : a[i] = x
            /\ a \in Sorted => c \in Sorted
<1> DEFINE c == SubSeq(a, m, n)
<1>1. Len(a) \in Nat /\ m \in Int /\ n \in Int
  OBVIOUS
<1>2. \A i \in m .. n : i \in 1 .. Len(a)
  BY <1>1
<1>3. \A i \in m .. n : a[i] \in Names
  BY <1>2, ElementOfSeq
<1>4. /\ c \in Seq(Names) /\ Len(c) = IF m <= n THEN n - m + 1 ELSE 0
      /\ \A i \in 1 .. n - m + 1 : c[i] = a[m + i - 1]
  BY <1>1, <1>3, SubSeqProperties
<1> HIDE DEF c
<1>5. Len(c) = n - m + 1
  <2> DEFINE k == Len(c)
  <2>1. k = IF m <= n THEN n - m + 1 ELSE 0
    BY <1>4
  <2>2. m <= n \/ n = m - 1
    BY <1>1
  <2> HIDE DEF k
  <2>3. k = n - m + 1
    BY <1>1, <2>1, <2>2
  <2> QED BY <2>3 DEF k
<1>6. /\ \A i \in 1 .. n - m + 1 : m + i - 1 \in m .. n
      /\ \A i \in m .. n : i - m + 1 \in 1 .. n - m + 1 /\ m + (i - m + 1) - 1 = i
  BY <1>1
<1>7. \A x : Occurs(c, x) <=> \E i \in m .. n : a[i] = x
  <2>1. ASSUME NEW x, NEW i \in m .. n, a[i] = x PROVE Occurs(c, x)
    <3>1. c[i - m + 1] = x
      BY <1>4, <1>6, <2>1
    <3> QED BY <1>5, <1>6, <3>1 DEF Occurs
  <2>2. ASSUME NEW x, Occurs(c, x) PROVE \E i \in m .. n : a[i] = x
    BY <1>4, <1>5, <1>6, <2>2 DEF Occurs
  <2> QED BY <2>1, <2>2
<1>8. ASSUME a \in Sorted PROVE c \in Sorted
  <2>1. ASSUME NEW i \in 1 .. n - m + 1, NEW j \in 1 .. n - m + 1, i < j
        PROVE  c[i] < c[j]
    <3>1. /\ m + i - 1 \in 1 .. Len(a) /\ m + j - 1 \in 1 .. Len(a)
          /\ m + i - 1 < m + j - 1
      BY <1>1, <1>2, <1>6, <2>1
    <3> QED BY <1>4, <1>8, <3>1 DEF Sorted, Ascending
  <2> QED BY <1>4, <1>5, <2>1 DEF Sorted, Ascending
<1> QED BY <1>4, <1>5, <1>6, <1>7, <1>8 DEF c

\* A sorted list in two, in front of a name that is not in it and behind.
LEMMA Split ==
  ASSUME NEW s \in Sorted, NEW name \in Names, NEW pos, Fits(s, name, pos)
  PROVE  LET front == SubSeq(s, 1, pos)
             back  == SubSeq(s, pos + 1, Len(s))
         IN /\ front \in Sorted /\ back \in Sorted
            /\ Len(front) + Len(back) = Len(s)
            /\ \A i \in 1 .. Len(front) : front[i] < name
            /\ \A i \in 1 .. Len(back) : name < back[i]
            /\ \A x : Occurs(s, x) <=> Occurs(front, x) \/ Occurs(back, x)
            /\ ~Occurs(s, name) /\ front \in Seq(Names) /\ back \in Seq(Names)
<1> DEFINE n == Len(s)
           front == SubSeq(s, 1, pos)
           back == SubSeq(s, pos + 1, n)
<1>1. s \in Seq(Names) /\ n \in Nat /\ pos \in 0 .. n /\ pos \in Nat
  BY DEF Sorted, Fits
<1>2. /\ 1 \in 1 .. n + 1 /\ pos \in 1 - 1 .. n
      /\ pos + 1 \in 1 .. n + 1 /\ n \in (pos + 1) - 1 .. n
  <2> HIDE DEF n
  <2> QED BY <1>1
<1>3. /\ front \in Seq(Names) /\ Len(front) = pos - 1 + 1
      /\ \A i \in 1 .. pos - 1 + 1 : front[i] = s[1 + i - 1] /\ 1 + i - 1 \in 1 .. pos
      /\ \A x : Occurs(front, x) <=> \E i \in 1 .. pos : s[i] = x
      /\ front \in Sorted
  BY <1>1, <1>2, Part
<1>4. /\ back \in Seq(Names) /\ Len(back) = n - (pos + 1) + 1
      /\ \A i \in 1 .. n - (pos + 1) + 1 : /\ back[i] = s[(pos + 1) + i - 1]
                                           /\ (pos + 1) + i - 1 \in pos + 1 .. n
      /\ \A x : Occurs(back, x) <=> \E i \in pos + 1 .. n : s[i] = x
      /\ back \in Sorted
  BY <1>1, <1>2, Part
<1> HIDE DEF front, back, n
<1>5. Len(front) + Len(back) = n
  BY <1>1, <1>3, <1>4
<1>6. \A i \in 1 .. Len(front) : front[i] < name
  BY <1>3 DEF Fits
<1>7. \A i \in 1 .. Len(back) : name < back[i]
  <2>1. \A i \in pos + 1 .. n : name < s[i]
    <3>1. \A i \in pos + 1 .. n : i \in 1 .. n
      BY <1>1
    <3>2. \A i \in 1 .. n : s[i] \in Nat
      BY <1>1, SortedNumbers DEF n
    <3>3. name \in Nat
      BY VarListsAssumption
    <3> QED BY <3>1, <3>2, <3>3 DEF Fits, n
  <2> QED BY <1>4, <2>1
<1>8. \A x : Occurs(s, x) <=> Occurs(front, x) \/ Occurs(back, x)
  <2>1. \A i : i \in 1 .. n <=> i \in 1 .. pos \/ i \in pos + 1 .. n
    BY <1>1
  <2> QED BY <1>3, <1>4, <2>1 DEF Occurs, n
<1>9. ~Occurs(s, name)
  <2>1. ASSUME Occurs(front, name) PROVE FALSE
    <3>1. PICK i \in 1 .. Len(front) : front[i] = name
      BY <2>1 DEF Occurs
    <3> QED BY <1>6, <3>1, VarListsAssumption
  <2>2. ASSUME Occurs(back, name) PROVE FALSE
    <3>1. PICK i \in 1 .. Len(back) : back[i] = name
      BY <2>2 DEF Occurs
    <3> QED BY <1>7, <3>1, VarListsAssumption
  <2> QED BY <1>8, <2>1, <2>2
<1> QED BY <1>3, <1>4, <1>5, <1>6, <1>7, <1>8, <1>9 DEF front, back, n

\* A name put in front of sorted names that are all greater.
LEMMA InFront ==
  ASSUME NEW name \in Names, NEW s \in Sorted,
         \A i \in 1 .. Len(s) : name < s[i]
  PROVE  /\ <<name>> \o s \in Sorted /\ <<name>> \o s \in Seq(Names)
         /\ Len(<<name>> \o s) = Len(s) + 1
         /\ \A x : Occurs(<<name>> \o s, x) <=> x = name \/ Occurs(s, x)
<1>1. /\ <<name>> \in Sorted /\ Len(<<name>>) = 1
      /\ \A y : Occurs(<<name>>, y) <=> y = name
  BY OneSorted
<1>2. AllBelow(<<name>>, s)
  BY <1>1 DEF AllBelow
<1>3. <<name>> \in Seq(Names) /\ s \in Seq(Names) /\ Len(s) \in Nat
  BY DEF Sorted
<1>4. /\ <<name>> \o s \in Seq(Names) /\ Len(<<name>> \o s) = 1 + Len(s)
      /\ \A x : Occurs(<<name>> \o s, x) <=> Occurs(<<name>>, x) \/ Occurs(s, x)
      /\ <<name>> \o s \in Sorted
  BY <1>1, <1>2, <1>3, Joined
<1> QED BY <1>1, <1>3, <1>4

LEMMA InsertAtIs ==
  ASSUME NEW s \in Sorted, NEW name \in Names, NEW pos, Fits(s, name, pos)
  PROVE  LET new == InsertAt(s, pos + 1, name)
         IN /\ new \in Sorted /\ new \in Seq(Names) /\ Len(new) = Len(s) + 1
            /\ \A x : Occurs(new, x) <=> Occurs(s, x) \/ x = name
<1> DEFINE front == SubSeq(s, 1, pos)
           back == SubSeq(s, pos + 1, Len(s))
           rest == <<name>> \o back
<1>1. /\ front \in Sorted /\ back \in Sorted
      /\ Len(front) + Len(back) = Len(s)
      /\ \A i \in 1 .. Len(front) : front[i] < name
      /\ \A i \in 1 .. Len(back) : name < back[i]
      /\ \A x : Occurs(s, x) <=> Occurs(front, x) \/ Occurs(back, x)
      /\ front \in Seq(Names) /\ back \in Seq(Names)
  BY Split
<1>2. InsertAt(s, pos + 1, name) = (front \o <<name>>) \o back
  <2>1. (pos + 1) - 1 = pos
    BY DEF Fits
  <2>2. SubSeq(s, 1, (pos + 1) - 1) = front
    BY <2>1
  <2> HIDE DEF front
  <2>3. InsertAt(s, pos + 1, name)
          = SubSeq(s, 1, (pos + 1) - 1) \o <<name>> \o back
    BY Zenon DEF InsertAt
  <2> QED BY <2>2, <2>3
<1> HIDE DEF front, back
<1>3. (front \o <<name>>) \o back = front \o rest
  BY <1>1, ConcatAssociative
<1>4. /\ rest \in Sorted /\ rest \in Seq(Names) /\ Len(rest) = Len(back) + 1
      /\ \A x : Occurs(rest, x) <=> x = name \/ Occurs(back, x)
  BY <1>1, InFront
<1>5. rest[1] = name /\ \A j \in 1 .. Len(rest) : name <= rest[j]
  <2>1. rest[1] = name
    BY <1>1
  <2> HIDE DEF rest
  <2>2. ASSUME NEW j \in 1 .. Len(rest) PROVE name <= rest[j]
    <3>1. j = 1 \/ 1 < j
      OBVIOUS
    <3>2. rest[j] \in Nat /\ name \in Nat /\ Len(rest) \in Nat
      BY <1>4, SortedNumbers, VarListsAssumption
    <3>4. 1 \in 1 .. Len(rest)
      BY <3>2
    <3>3. 1 < j => rest[1] < rest[j]
      BY <1>4, <3>4, Zenon DEF Sorted, Ascending
    <3> QED BY <2>1, <3>1, <3>2, <3>3
  <2> QED BY <2>1, <2>2
<1> HIDE DEF rest
<1>6. AllBelow(front, rest)
  <2>1. /\ \A i \in 1 .. Len(front) : front[i] \in Nat
        /\ \A j \in 1 .. Len(rest) : rest[j] \in Nat
        /\ name \in Nat
    BY <1>1, <1>4, SortedNumbers, VarListsAssumption
  <2> QED BY <1>1, <1>5, <2>1 DEF AllBelow
<1>7. /\ front \o rest \in Seq(Names) /\ Len(front \o rest) = Len(front) + Len(rest)
      /\ \A x : Occurs(front \o rest, x) <=> Occurs(front, x) \/ Occurs(rest, x)
      /\ front \o rest \in Sorted
  BY <1>1, <1>4, <1>6, Joined
<1>8. Len(front \o rest) = Len(s) + 1
  <2> DEFINE f == Len(front)
             b == Len(back)
             r == Len(rest)
             all == Len(front \o rest)
  <2>1. f \in Nat /\ b \in Nat
    BY <1>1
  <2>2. f + b = Len(s)
    BY <1>1
  <2>3. r = b + 1 /\ all = f + r
    BY <1>4, <1>7
  <2> HIDE DEF f, b, r, all
  <2>4. all = Len(s) + 1
    BY <2>1, <2>2, <2>3
  <2> QED BY <2>4 DEF all
<1> QED BY <1>1, <1>2, <1>3, <1>4, <1>7, <1>8

LEMMA BelowIs ==
  ASSUME NEW a, NEW b
  PROVE  AllBelow(a, b) <=> \A x, y : Occurs(a, x) /\ Occurs(b, y) => x < y
BY DEF AllBelow, Occurs

LEMMA NamesOccur ==
  ASSUME NEW s \in Seq(Names)
  PROVE  \A x : Occurs(s, x) => x \in Names /\ x \in Nat
BY SortedNumbers DEF Occurs

-------------------------------------------------------------------------------
(* Merging the lazy list *)

\* What is known in the middle of a merge, when only the first n of the names
\* in rest are still to be placed.
Placing(rest, n, m) ==
  /\ m \in [front : Sorted, back : Sorted] /\ AllBelow(m.front, m.back)
  /\ \A i \in 1 .. n : /\ ~Occurs(m.front, rest[i])
                       /\ \A y : Occurs(m.back, y) => rest[i] < y

Held(m, x) == Occurs(m.front, x) \/ Occurs(m.back, x)

LEMMA PlaceIs ==
  ASSUME NEW rest \in Sorted, NEW n \in 1 .. Len(rest), NEW m, Placing(rest, n, m)
  PROVE  LET p == Place(m, rest[n])
         IN /\ Placing(rest, n - 1, p)
            /\ Len(p.front) + Len(p.back) = Len(m.front) + Len(m.back) + 1
            /\ \A x : Held(p, x) <=> x = rest[n] \/ Held(m, x)
<1> DEFINE name == rest[n]
           front == m.front
           pos == InsertionPoint(front, name)
           kept == SubSeq(front, 1, pos)
           moved == SubSeq(front, pos + 1, Len(front))
           p == Place(m, name)
<1>1. /\ name \in Names /\ name \in Nat
      /\ \A i \in 1 .. Len(rest) : rest[i] \in Nat
      /\ Len(rest) \in Nat
  BY SortedNumbers DEF Sorted
<1>2. /\ front \in Sorted /\ m.back \in Sorted /\ AllBelow(front, m.back)
      /\ front \in Seq(Names) /\ m.back \in Seq(Names) /\ Ascending(front)
      /\ front \in Seq(Nat)
  BY SortedNumbers DEF Placing, Sorted
<1>3. n \in 1 .. n
  OBVIOUS
<1>4. ~Occurs(front, name) /\ \A y : Occurs(m.back, y) => name < y
  BY <1>3 DEF Placing
<1>5. Fits(front, name, pos)
  BY <1>1, <1>2, <1>4, InsertionPointIs
<1>6. p = [front |-> kept, back |-> <<name>> \o moved \o m.back]
  BY DEF Place
<1> HIDE DEF name, front, pos
<1>7. /\ kept \in Sorted /\ moved \in Sorted
      /\ Len(kept) + Len(moved) = Len(front)
      /\ \A i \in 1 .. Len(kept) : kept[i] < name
      /\ \A i \in 1 .. Len(moved) : name < moved[i]
      /\ \A x : Occurs(front, x) <=> Occurs(kept, x) \/ Occurs(moved, x)
      /\ kept \in Seq(Names) /\ moved \in Seq(Names)
  BY <1>1, <1>2, <1>5, Split
<1> HIDE DEF kept, moved
<1> DEFINE behind == moved \o m.back
           back == <<name>> \o behind
<1>8. /\ behind \in Sorted /\ Len(behind) = Len(moved) + Len(m.back)
      /\ \A x : Occurs(behind, x) <=> Occurs(moved, x) \/ Occurs(m.back, x)
  <2>1. AllBelow(moved, m.back)
    BY <1>2, <1>7, BelowIs
  <2> QED BY <1>2, <1>7, <2>1, Joined
<1>9. <<name>> \o moved \o m.back = back
  <2> DEFINE a == <<name>>
             b == m.back
  <2>1. a \in Seq(Names) /\ moved \in Seq(Names) /\ b \in Seq(Names)
    BY <1>1, <1>2, <1>7, OneSorted DEF Sorted
  <2> HIDE DEF a, b
  <2>2. (a \o moved) \o b = a \o (moved \o b)
    BY <2>1, ConcatAssociative
  <2> QED BY <2>2 DEF a, b
<1> HIDE DEF behind
<1>10. /\ \A y : Occurs(behind, y) => name < y
       /\ \A i \in 1 .. Len(behind) : name < behind[i]
  BY <1>4, <1>7, <1>8 DEF Occurs
<1>11. /\ back \in Sorted /\ Len(back) = Len(behind) + 1
       /\ \A x : Occurs(back, x) <=> x = name \/ Occurs(behind, x)
  BY <1>1, <1>8, <1>10, InFront
<1> HIDE DEF back, p
<1>12. p.front = kept /\ p.back = back /\ p \in [front : Sorted, back : Sorted]
  BY <1>6, <1>7, <1>9, <1>11
<1>13. AllBelow(kept, back)
  <2>1. \A x : Occurs(kept, x) => x < name /\ x \in Nat
    BY <1>7, NamesOccur DEF Occurs
  <2>2. \A y : Occurs(back, y) => y \in Nat
    BY <1>11, NamesOccur DEF Sorted
  <2>3. \A y : Occurs(back, y) => name <= y
    BY <1>1, <1>10, <1>11, <2>2
  <2>4. \A x, y : Occurs(kept, x) /\ Occurs(back, y) => x < y
    BY <1>1, <2>1, <2>2, <2>3
  <2> QED BY <2>4, BelowIs
<1>14. ASSUME NEW i \in 1 .. n - 1
       PROVE  ~Occurs(kept, rest[i]) /\ \A y : Occurs(back, y) => rest[i] < y
  <2>1. i \in 1 .. n /\ i \in 1 .. Len(rest) /\ n \in 1 .. Len(rest) /\ i < n
    BY <1>1
  <2>2. rest[i] < name
    BY <2>1, Zenon DEF Sorted, Ascending, name
  <2>3. ~Occurs(front, rest[i])
    BY <2>1 DEF Placing, front
  <2>4. ~Occurs(kept, rest[i])
    BY <1>7, <2>3
  <2>5. ASSUME NEW y, Occurs(back, y) PROVE rest[i] < y
    <3>1. y = name \/ name < y
      BY <1>10, <1>11, <2>5
    <3>2. y \in Nat
      BY <1>11, <2>5, NamesOccur DEF Sorted
    <3> QED BY <1>1, <2>1, <2>2, <3>1, <3>2
  <2> QED BY <2>4, <2>5
<1>15. Placing(rest, n - 1, p)
  BY <1>12, <1>13, <1>14 DEF Placing
<1>16. Len(p.front) + Len(p.back) = Len(m.front) + Len(m.back) + 1
  <2>1. Len(kept) \in Nat /\ Len(moved) \in Nat /\ Len(m.back) \in Nat
    BY <1>2, <1>7
  <2>2. Len(p.front) = Len(kept) /\ Len(p.back) = (Len(moved) + Len(m.back)) + 1
    BY <1>8, <1>11, <1>12
  <2>3. Len(m.front) = Len(kept) + Len(moved)
    BY <1>7 DEF front
  <2> DEFINE a == Len(kept)
             b == Len(moved)
             c == Len(m.back)
  <2>4. a \in Nat /\ b \in Nat /\ c \in Nat
    BY <2>1
  <2> HIDE DEF a, b, c
  <2>5. a + ((b + c) + 1) = (a + b) + c + 1
    BY <2>4
  <2> QED BY <2>2, <2>3, <2>5 DEF a, b, c
<1>17. \A x : Held(p, x) <=> x = name \/ Held(m, x)
  BY <1>7, <1>8, <1>11, <1>12 DEF Held, front
<1> QED BY <1>15, <1>16, <1>17 DEF name, p

\* The first of a list for which something holds, by its definition.
LEMMA FirstGreater ==
  ASSUME NEW s \in Seq(Nat), NEW last \in Nat
  PROVE  LET first == SelectInSeq(s, LAMBDA name : name > last)
         IN /\ first \in 0 .. Len(s)
            /\ first # 0 => s[first] > last
<1> DEFINE I == {i \in 1 .. Len(s) : s[i] > last}
           first == SelectInSeq(s, LAMBDA name : name > last)
<1>1. first = IF I # {} THEN Min(I) ELSE 0
  BY DEF SelectInSeq
<1> DEFINE Right == first \in 0 .. Len(s) /\ (first # 0 => s[first] > last)
<1>2. ASSUME I = {} PROVE Right
  <2>1. 0 \in 0 .. Len(s)
    OBVIOUS
  <2> HIDE DEF I, first
  <2> QED BY <1>1, <1>2, <2>1
<1>3. ASSUME I # {} PROVE Right
  <2>1. I \subseteq Nat
    OBVIOUS
  <2>2. \E i \in I : \A j \in I : i <= j
    BY <1>3, <2>1, LeastNumber
  <2>3. Min(I) \in I
    BY <2>2, Zenon DEF Min
  <2>4. Min(I) \in 1 .. Len(s) /\ s[Min(I)] > last
    BY <2>3
  <2>5. Min(I) \in 0 .. Len(s) /\ Min(I) # 0
    BY <2>4
  <2> HIDE DEF I, first
  <2> QED BY <1>1, <1>3, <2>4, <2>5
<1>4. Right
  <2> HIDE DEF Right, I
  <2> QED BY <1>2, <1>3
<1> QED BY <1>4

\* What the merge appends, and what is left of the lazy list.
LEMMA AppendedIs ==
  ASSUME NEW main \in Sorted, Len(main) # 0, NEW lazy \in Sorted,
         \A x : ~(Occurs(main, x) /\ Occurs(lazy, x)),
         NEW behind \in 0 .. Len(lazy),
         behind # 0 => lazy[behind] > main[Len(main)]
  PROVE  LET appended == IF behind = 0 THEN <<>> ELSE SubSeq(lazy, behind, Len(lazy))
             rest     == IF behind = 0 THEN lazy ELSE SubSeq(lazy, 1, behind - 1)
         IN /\ rest \in Sorted /\ Len(rest) + Len(appended) = Len(lazy)
            /\ \A x : Occurs(lazy, x) <=> Occurs(rest, x) \/ Occurs(appended, x)
            /\ main \o appended \in Sorted
            /\ Len(main \o appended) = Len(main) + Len(appended)
            /\ \A x : Occurs(main \o appended, x)
                        <=> Occurs(main, x) \/ Occurs(appended, x)
            /\ \A i \in 1 .. Len(rest) : ~Occurs(main \o appended, rest[i])
<1> DEFINE appended == IF behind = 0 THEN <<>> ELSE SubSeq(lazy, behind, Len(lazy))
           rest     == IF behind = 0 THEN lazy ELSE SubSeq(lazy, 1, behind - 1)
<1>1. /\ main \in Seq(Names) /\ lazy \in Seq(Names)
      /\ Len(main) \in Nat \ {0} /\ Len(lazy) \in Nat
      /\ \A i \in 1 .. Len(main) : main[i] \in Nat
      /\ \A i \in 1 .. Len(lazy) : lazy[i] \in Nat
  BY SortedNumbers DEF Sorted
<1>2. /\ rest \in Sorted /\ appended \in Sorted
      /\ Len(rest) + Len(appended) = Len(lazy)
      /\ \A x : Occurs(lazy, x) <=> Occurs(rest, x) \/ Occurs(appended, x)
      /\ AllBelow(rest, appended) /\ AllBelow(main, appended)
  <2>1. CASE behind = 0
    <3>1. rest = lazy /\ appended = <<>>
      BY <2>1
    <3> HIDE DEF rest, appended
    <3>2. \A y : ~Occurs(appended, y)
      BY <3>1, EmptySorted
    <3>3. AllBelow(rest, appended) /\ AllBelow(main, appended)
      BY <3>2, BelowIs
    <3>4. Len(appended) = 0 /\ appended \in Sorted
      BY <3>1, EmptySorted
    <3> QED BY <1>1, <3>1, <3>2, <3>3, <3>4
  <2>2. CASE behind # 0
    <3>1. rest = SubSeq(lazy, 1, behind - 1) /\ appended = SubSeq(lazy, behind, Len(lazy))
      BY <2>2
    <3> HIDE DEF rest, appended
    <3> DEFINE n == Len(lazy)
    <3>2. /\ behind \in 1 .. n /\ 1 \in 1 .. n + 1 /\ behind - 1 \in 1 - 1 .. n
          /\ behind \in 1 .. n + 1 /\ n \in behind - 1 .. n
      <4> HIDE DEF n
      <4>1. n \in Nat
        BY <1>1 DEF n
      <4> QED BY <2>2, <4>1 DEF n
    <3>3. /\ rest \in Sorted /\ Len(rest) = behind - 1 - 1 + 1
          /\ \A x : Occurs(rest, x) <=> \E i \in 1 .. behind - 1 : lazy[i] = x
      BY <1>1, <3>1, <3>2, Part
    <3>4. /\ appended \in Sorted /\ Len(appended) = n - behind + 1
          /\ \A x : Occurs(appended, x) <=> \E i \in behind .. n : lazy[i] = x
      BY <1>1, <3>1, <3>2, Part
    <3> HIDE DEF n
    <3>5. n \in Nat
      BY <1>1 DEF n
    <3>6. Len(rest) + Len(appended) = n
      BY <3>2, <3>3, <3>4, <3>5
    <3>7. \A x : Occurs(lazy, x) <=> Occurs(rest, x) \/ Occurs(appended, x)
      <4>1. \A i : i \in 1 .. n <=> i \in 1 .. behind - 1 \/ i \in behind .. n
        BY <3>2, <3>5
      <4> QED BY <3>3, <3>4, <4>1 DEF Occurs, n
    <3>8. AllBelow(rest, appended)
      <4>1. ASSUME NEW i \in 1 .. behind - 1, NEW j \in behind .. n
            PROVE  lazy[i] < lazy[j]
        <5>1. i \in 1 .. n /\ j \in 1 .. n /\ i < j
          BY <3>2, <3>5
        <5> QED BY <5>1, Zenon DEF Sorted, Ascending, n
      <4>2. \A x, y : Occurs(rest, x) /\ Occurs(appended, y) => x < y
        BY <3>3, <3>4, <4>1
      <4> QED BY <4>2, BelowIs
    <3>9. AllBelow(main, appended)
      <4> DEFINE m == Len(main)
      <4>0. m \in Nat \ {0} /\ m \in 1 .. m
        BY <1>1
      <4>1. ASSUME NEW j \in behind .. n PROVE lazy[j] > main[m]
        <5>1. j \in 1 .. n /\ behind \in 1 .. n /\ (behind = j \/ behind < j)
          BY <3>2, <3>5
        <5>2. behind = j \/ lazy[behind] < lazy[j]
          BY <5>1, Zenon DEF Sorted, Ascending, n
        <5>3. lazy[behind] \in Nat /\ lazy[j] \in Nat /\ main[m] \in Nat
          BY <1>1, <4>0, <5>1 DEF n
        <5> QED BY <2>2, <5>2, <5>3
      <4>2. ASSUME NEW i \in 1 .. m, NEW j \in behind .. n
            PROVE  main[i] < lazy[j]
        <5>1. i = m \/ i < m
          BY <4>0
        <5>2. i = m \/ main[i] < main[m]
          BY <4>0, <5>1, Zenon DEF Sorted, Ascending
        <5>3. lazy[j] > main[m] /\ j \in 1 .. n
          BY <3>2, <3>5, <4>1
        <5>4. main[i] \in Nat /\ main[m] \in Nat /\ lazy[j] \in Nat
          BY <1>1, <4>0, <5>3 DEF n
        <5> QED BY <5>2, <5>3, <5>4
      <4>3. \A x, y : Occurs(main, x) /\ Occurs(appended, y) => x < y
        BY <3>4, <4>2 DEF Occurs
      <4> QED BY <4>3, BelowIs
    <3> QED BY <3>3, <3>4, <3>6, <3>7, <3>8, <3>9 DEF n
  <2> QED BY <2>1, <2>2
<1> HIDE DEF rest, appended
<1>3. /\ rest \in Seq(Names) /\ appended \in Seq(Names)
  BY <1>2 DEF Sorted
<1>4. /\ main \o appended \in Sorted
      /\ Len(main \o appended) = Len(main) + Len(appended)
      /\ \A x : Occurs(main \o appended, x) <=> Occurs(main, x) \/ Occurs(appended, x)
  BY <1>1, <1>2, <1>3, Joined
<1>5. ASSUME NEW i \in 1 .. Len(rest) PROVE ~Occurs(main \o appended, rest[i])
  <2>1. Occurs(rest, rest[i]) /\ rest[i] \in Nat
    BY <1>3, SortedNumbers DEF Occurs
  <2>2. ~Occurs(main, rest[i])
    BY <1>2, <2>1
  <2>3. ~Occurs(appended, rest[i])
    <3>1. \A x, y : Occurs(rest, x) /\ Occurs(appended, y) => x < y
      BY <1>2, BelowIs
    <3>2. ~(rest[i] < rest[i])
      BY <2>1
    <3> QED BY <2>1, <3>1, <3>2
  <2> QED BY <1>4, <2>2, <2>3
<1> QED BY <1>2, <1>4, <1>5 DEF rest, appended

\* Any function that places one name of rest after the other, from the last to
\* the first, ends with all of them placed.
Placed(f, rest, m) ==
  /\ f[0] = m
  /\ \A n \in 1 .. Len(rest) : f[n] = Place(f[n - 1], rest[Len(rest) + 1 - n])

LEMMA PlacedIs ==
  ASSUME NEW rest \in Sorted, NEW m, Placing(rest, Len(rest), m),
         NEW f, Placed(f, rest, m)
  PROVE  /\ \A n \in 0 .. Len(rest) : Placing(rest, Len(rest) - n, f[n])
         /\ LET last == f[Len(rest)]
            IN /\ Len(last.front) + Len(last.back) = Len(m.front) + Len(m.back) + Len(rest)
               /\ \A x : Held(last, x) <=> Occurs(rest, x) \/ Held(m, x)
<1> DEFINE N == Len(rest)
           Size(k) == Len(k.front) + Len(k.back)
           Good(n) == /\ Placing(rest, N - n, f[n])
                      /\ Size(f[n]) = Size(m) + n
                      /\ \A x : Held(f[n], x) <=>
                           Held(m, x) \/ \E i \in N + 1 - n .. N : rest[i] = x
           S == {n \in 0 .. N : Good(n)}
<1>1. N \in Nat /\ Size(m) \in Nat
  <2>1. m.front \in Seq(Names) /\ m.back \in Seq(Names) /\ rest \in Seq(Names)
    BY DEF Placing, Sorted
  <2> DEFINE a == m.front
             b == m.back
  <2> HIDE DEF a, b
  <2>2. a \in Seq(Names) /\ b \in Seq(Names)
    BY <2>1 DEF a, b
  <2>3. Len(a) \in Nat /\ Len(b) \in Nat /\ Len(rest) \in Nat
    BY <2>1, <2>2
  <2>4. Len(a) + Len(b) \in Nat
    BY <2>3
  <2> QED BY <2>3, <2>4 DEF a, b
<1> HIDE DEF N
<1>2. 0 \in S
  <2>1. f[0] = m
    BY DEF Placed
  <2>2. N - 0 = N /\ \A i : i \notin N + 1 - 0 .. N
    BY <1>1
  <2>3. Size(m) = Size(m) + 0
    BY <1>1
  <2>4. Placing(rest, N - 0, f[0])
    BY <2>1, <2>2 DEF N
  <2>5. Good(0)
    <3> HIDE DEF Size
    <3> QED BY <2>1, <2>2, <2>3, <2>4
  <2> HIDE DEF Good
  <2> QED BY <1>1, <2>5
<1>3. ASSUME NEW n \in 0 .. N - 1, n \in S PROVE n + 1 \in S
  <2> DEFINE j == N - n
             k == n + 1
  <2>1. /\ j \in 1 .. N /\ k \in 1 .. N /\ k \in 0 .. N
        /\ N + 1 - k = j /\ k - 1 = n /\ N - k = j - 1 /\ n \in Nat
        /\ \A i : i \in j .. N <=> i = j \/ i \in N + 1 - n .. N
    BY <1>1
  <2>2. Good(n)
    BY <1>3
  <2>3. f[k] = Place(f[n], rest[j])
    BY <2>1 DEF Placed, N
  <2> HIDE DEF j, k, S
  <2>4. /\ Placing(rest, j - 1, f[k])
        /\ Size(f[k]) = Size(f[n]) + 1
        /\ \A x : Held(f[k], x) <=> x = rest[j] \/ Held(f[n], x)
    <3>1. Placing(rest, j, f[n])
      BY <2>2 DEF j
    <3> DEFINE o == f[n]
    <3>2. j \in 1 .. Len(rest) /\ Placing(rest, j, o)
      BY <2>1, <3>1 DEF N
    <3> HIDE DEF o
    <3>3. /\ Placing(rest, j - 1, Place(o, rest[j]))
          /\ Size(Place(o, rest[j])) = Size(o) + 1
          /\ \A x : Held(Place(o, rest[j]), x) <=> x = rest[j] \/ Held(o, x)
      BY <3>2, PlaceIs
    <3> HIDE DEF Size
    <3> QED BY <2>3, <3>3 DEF o
  <2>5. Size(f[k]) = Size(m) + k
    <3> DEFINE a == Size(m)
               b == Size(f[n])
               c == Size(f[k])
    <3>1. b = a + n /\ c = b + 1 /\ a \in Nat
      BY <1>1, <2>2, <2>4
    <3> HIDE DEF a, b, c
    <3>2. c = a + (n + 1)
      BY <2>1, <3>1
    <3> QED BY <3>2 DEF a, c, k
  <2>6. ASSUME NEW x
        PROVE  Held(f[k], x) <=> Held(m, x) \/ \E i \in N + 1 - k .. N : rest[i] = x
    <3>1. Held(f[k], x) <=> x = rest[j] \/ Held(m, x)
                                        \/ \E i \in N + 1 - n .. N : rest[i] = x
      BY <2>2, <2>4
    <3>2. (\E i \in j .. N : rest[i] = x)
            <=> x = rest[j] \/ \E i \in N + 1 - n .. N : rest[i] = x
      BY <2>1
    <3> QED BY <2>1, <3>1, <3>2
  <2>7. Good(k)
    <3> HIDE DEF Size
    <3> QED BY <2>1, <2>4, <2>5, <2>6
  <2> HIDE DEF Good
  <2> QED BY <2>1, <2>7 DEF S, k
<1> HIDE DEF S
<1>4. \A n \in 0 .. N : n \in S
  BY <1>1, <1>2, <1>3, Induction
<1>5. \A n \in 0 .. N : Good(n)
  <2> HIDE DEF Good
  <2> QED BY <1>4 DEF S
<1>6. N \in 0 .. N /\ N + 1 - N = 1
  BY <1>1
<1>7. Good(N)
  <2> HIDE DEF Good
  <2> QED BY <1>5, <1>6
<1>8. \A x : Held(f[N], x) <=> Occurs(rest, x) \/ Held(m, x)
  BY <1>6, <1>7 DEF Occurs, N
<1> QED BY <1>5, <1>7, <1>8 DEF N

LEMMA MergedIs ==
  ASSUME NEW main \in Sorted, Len(main) # 0, NEW lazy \in Sorted,
         \A x : ~(Occurs(main, x) /\ Occurs(lazy, x))
  PROVE  LET new == Merged(main, lazy)
         IN /\ new \in Sorted /\ new \in Seq(Names)
            /\ Len(new) = Len(main) + Len(lazy)
            /\ \A x : Occurs(new, x) <=> Occurs(main, x) \/ Occurs(lazy, x)
<1> DEFINE behind   == SelectInSeq(lazy, LAMBDA name : name > main[Len(main)])
           appended == IF behind = 0 THEN <<>> ELSE SubSeq(lazy, behind, Len(lazy))
           rest     == IF behind = 0 THEN lazy ELSE SubSeq(lazy, 1, behind - 1)
           N        == Len(rest)
           m0       == [front |-> main \o appended, back |-> <<>>]
           Step(n, f) == IF n = 0 THEN m0 ELSE Place(f[n - 1], rest[N + 1 - n])
           Body(f)  == [n \in 0 .. N |-> Step(n, f)]
           placed   == CHOOSE f : f = Body(f)
           T        == [front : Sorted, back : Sorted]
           G        == [k \in 1 .. N |-> [m \in T |->
                         IF Place(m, rest[N + 1 - k]) \in T
                         THEN Place(m, rest[N + 1 - k]) ELSE m]]
<1>1. Merged(main, lazy) = placed[N].front \o placed[N].back
  BY DEF Merged
<1>2. behind \in 0 .. Len(lazy) /\ (behind # 0 => lazy[behind] > main[Len(main)])
  <2>1. /\ lazy \in Seq(Nat) /\ Len(main) \in Nat
        /\ \A i \in 1 .. Len(main) : main[i] \in Nat
    BY SortedNumbers DEF Sorted
  <2>2. main[Len(main)] \in Nat
    BY <2>1
  <2> HIDE DEF behind
  <2> QED BY <2>1, <2>2, FirstGreater DEF behind
<1> HIDE DEF behind
<1>3. /\ rest \in Sorted /\ Len(rest) + Len(appended) = Len(lazy)
      /\ \A x : Occurs(lazy, x) <=> Occurs(rest, x) \/ Occurs(appended, x)
      /\ main \o appended \in Sorted
      /\ Len(main \o appended) = Len(main) + Len(appended)
      /\ \A x : Occurs(main \o appended, x) <=> Occurs(main, x) \/ Occurs(appended, x)
      /\ \A i \in 1 .. Len(rest) : ~Occurs(main \o appended, rest[i])
  BY <1>2, AppendedIs
<1>4. Len(appended) \in Nat /\ Len(main) \in Nat /\ N \in Nat /\ rest \in Seq(Names)
  <2>1. main \in Seq(Names) /\ lazy \in Seq(Names) /\ rest \in Seq(Names)
    BY <1>3 DEF Sorted
  <2> HIDE DEF appended, rest
  <2>2. Len(main) \in Nat /\ Len(lazy) \in Nat /\ Len(rest) \in Nat
    BY <2>1
  <2>3. Len(main \o appended) \in Nat
    BY <1>3, SortedNumbers DEF Sorted
  <2> QED BY <1>3, <2>1, <2>2, <2>3
<1> HIDE DEF appended, rest
<1>5. m0 \in T /\ m0.front = main \o appended /\ m0.back = <<>>
  BY <1>3, EmptySorted
<1>6. Placing(rest, N, m0)
  <2>1. \A y : ~Occurs(m0.back, y)
    BY <1>5, EmptySorted
  <2>2. AllBelow(m0.front, m0.back)
    BY <2>1, BelowIs
  <2> HIDE DEF m0
  <2> QED BY <1>3, <1>5, <2>1, <2>2 DEF Placing
<1> HIDE DEF m0, T, N
<1>7. \E f : Recursive(f, G, N, T, m0)
  <2>1. StepsOn(G, N, T)
    BY DEF StepsOn
  <2> HIDE DEF G
  <2> QED BY <1>4, <1>5, <2>1, Recursion, Zenon
<1>8. PICK f : Recursive(f, G, N, T, m0)
  BY <1>7
<1>9. /\ f \in [0 .. N -> T] /\ f[0] = m0
      /\ \A n \in 1 .. N : f[n] = G[n][f[n - 1]]
  <2> HIDE DEF G
  <2> QED BY <1>8 DEF Recursive
<1> DEFINE S == {n \in 0 .. N : Placing(rest, N - n, f[n])}
<1>10. 0 \in S
  <2>1. N - 0 = N /\ 0 \in 0 .. N
    BY <1>4
  <2> QED BY <1>6, <1>9, <2>1
<1>11. ASSUME NEW n \in 0 .. N - 1, n \in S
       PROVE  n + 1 \in S /\ f[n + 1] = Place(f[n], rest[N - n])
  <2> DEFINE j == N - n
             k == n + 1
  <2>1. /\ j \in 1 .. N /\ k \in 1 .. N /\ k \in 0 .. N /\ n \in 0 .. N
        /\ N + 1 - k = j /\ k - 1 = n /\ N - k = j - 1
    BY <1>4
  <2> HIDE DEF j, k
  <2>2. Placing(rest, j, f[n])
    BY <1>11 DEF j
  <2>3. Placing(rest, j - 1, Place(f[n], rest[j]))
    BY <1>3, <2>1, <2>2, PlaceIs DEF N
  <2>4. Place(f[n], rest[j]) \in T
    BY <2>3 DEF Placing, T
  <2>5. f[n] \in T
    BY <1>9, <2>1
  <2>6. f[k] = G[k][f[n]]
    BY <1>9, <2>1
  <2>7. f[k] = Place(f[n], rest[j])
    BY <2>1, <2>4, <2>5, <2>6
  <2>8. Placing(rest, N - k, f[k])
    BY <2>1, <2>3, <2>7
  <2> QED BY <2>1, <2>7, <2>8 DEF k, j
<1> HIDE DEF S, G
<1>12. \A n \in 0 .. N : n \in S
  BY <1>4, <1>10, <1>11, Induction
<1>13. f = Body(f)
  <2>1. ASSUME NEW n \in 0 .. N PROVE f[n] = Step(n, f)
    <3>1. CASE n = 0
      BY <1>9, <3>1
    <3>2. CASE n # 0
      <4> DEFINE p == n - 1
      <4>1. p \in 0 .. N - 1 /\ p \in 0 .. N /\ p + 1 = n /\ N - p = N + 1 - n
        BY <1>4, <3>2
      <4> HIDE DEF p
      <4>2. f[p + 1] = Place(f[p], rest[N - p])
        BY <1>11, <1>12, <4>1
      <4>3. f[n] = Place(f[p], rest[N + 1 - n])
        BY <4>1, <4>2
      <4> QED BY <3>2, <4>3 DEF p
    <3> QED BY <3>1, <3>2
  <2> HIDE DEF Step
  <2> QED BY <1>9, <2>1
<1>14. placed = Body(placed)
  BY <1>13, Zenon
<1> HIDE DEF placed
<1>15. \A n \in 0 .. N : placed[n] = Step(n, placed)
  <2> HIDE DEF Step
  <2> QED BY <1>14
<1>16. Placed(placed, rest, m0)
  <2>1. placed[0] = m0
    <3>1. 0 \in 0 .. N
      BY <1>4
    <3> QED BY <1>15, <3>1
  <2>2. ASSUME NEW n \in 1 .. N PROVE placed[n] = Place(placed[n - 1], rest[N + 1 - n])
    <3>1. n \in 0 .. N /\ n # 0
      OBVIOUS
    <3> QED BY <1>15, <3>1
  <2> QED BY <2>1, <2>2 DEF Placed, N
<1> DEFINE last == placed[N]
<1>17. /\ Placing(rest, 0, last)
       /\ Len(last.front) + Len(last.back) = Len(m0.front) + Len(m0.back) + Len(rest)
       /\ \A x : Held(last, x) <=> Occurs(rest, x) \/ Held(m0, x)
  <2>1. /\ \A n \in 0 .. Len(rest) : Placing(rest, Len(rest) - n, placed[n])
        /\ Len(last.front) + Len(last.back) = Len(m0.front) + Len(m0.back) + Len(rest)
        /\ \A x : Held(last, x) <=> Occurs(rest, x) \/ Held(m0, x)
    BY <1>3, <1>6, <1>16, PlacedIs DEF N
  <2>2. N \in 0 .. N /\ N - N = 0
    BY <1>4
  <2>3. Placing(rest, N - N, placed[N])
    BY <2>1, <2>2 DEF N
  <2> QED BY <2>1, <2>2, <2>3
<1> HIDE DEF last
<1> DEFINE new == last.front \o last.back
<1>18. /\ last.front \in Sorted /\ last.back \in Sorted
       /\ last.front \in Seq(Names) /\ last.back \in Seq(Names)
       /\ AllBelow(last.front, last.back)
  BY <1>17 DEF Placing, Sorted
<1>19. /\ new \in Sorted /\ new \in Seq(Names)
       /\ Len(new) = Len(last.front) + Len(last.back)
       /\ \A x : Occurs(new, x) <=> Occurs(last.front, x) \/ Occurs(last.back, x)
  BY <1>18, Joined
<1>20. Len(new) = Len(main) + Len(lazy)
  <2>1. Len(m0.front) = Len(main) + Len(appended) /\ Len(m0.back) = 0
    BY <1>3, <1>5, EmptySorted
  <2>2. Len(new) = (Len(main) + Len(appended)) + 0 + N
    BY <1>17, <1>19, <2>1 DEF N
  <2>3. N + Len(appended) = Len(lazy)
    BY <1>3 DEF N
  <2> QED BY <1>4, <2>2, <2>3
<1>21. \A x : Occurs(new, x) <=> Occurs(main, x) \/ Occurs(lazy, x)
  <2>1. \A x : ~Occurs(m0.back, x)
    BY <1>5, EmptySorted
  <2> QED BY <1>3, <1>5, <1>17, <1>19, <2>1 DEF Held
<1> QED BY <1>1, <1>19, <1>20, <1>21 DEF last

-------------------------------------------------------------------------------
(* The lists of a scope *)

\* The sizes a main list goes through.
RightSize(max) ==
  /\ max >= Sizes[2] /\ max < Sizes[3] => max = Sizes[2]
  /\ max >= Sizes[3] /\ max < Sizes[4] => max = Sizes[3]

Lists == [main : Sorted, lazy : Sorted \union {NULL}, max : Nat, lost : BOOLEAN]

\* A lazy list is there only next to a long main list.
LazyOK(l) ==
  l.lazy # NULL => /\ l.max >= Sizes[2] /\ Len(l.main) # 0
                   /\ \A x : ~(Occurs(l.main, x) /\ Occurs(l.lazy, x))

ListOK(l) == l \in Lists /\ Len(l.main) <= l.max /\ RightSize(l.max) /\ LazyOK(l)

In(l, x) == Occurs(l.main, x) \/ (l.lazy # NULL /\ Occurs(l.lazy, x))

\* The lazy list lies within its memory.
Within(l) == l.lazy # NULL => Len(l.lazy) <= MAX_LAZY_VARS

\* What is lost of a list if memory is refused.
Loses(l, x) == /\ l.lazy # NULL /\ Len(l.lazy) + 1 = MAX_LAZY_VARS
               /\ l.max < Sizes[3] /\ Occurs(l.lazy, x)

\* The list a new name goes into.
LastOf(l) == IF l.lazy = NULL THEN l.main ELSE l.lazy

LEMMA SizesGrow ==
  /\ Sizes[1] \in Nat \ {0} /\ Sizes[2] \in Nat \ {0} /\ Sizes[3] \in Nat /\ Sizes[4] \in Nat
  /\ FirstLocal \in Nat \ {0} /\ MAX_LAZY_VARS \in Nat \ {0, 1}
  /\ FirstLocal <= Sizes[1] /\ Sizes[1] <= Sizes[2]
  /\ Sizes[2] + MAX_LAZY_VARS <= Sizes[3] /\ Sizes[3] + MAX_LAZY_VARS <= Sizes[4]
  /\ MAX_LAZY_VARS <= Sizes[4]
<1>1. /\ Sizes \in Seq(Nat) /\ Len(Sizes) = 4 /\ FirstLocal <= Sizes[1]
      /\ \A i \in 1 .. 3 : Sizes[i] <= Sizes[i + 1]
      /\ MAX_LAZY_VARS <= Sizes[4]
      /\ \A i \in 2 .. 3 : Sizes[i] + MAX_LAZY_VARS <= Sizes[i + 1]
      /\ FirstLocal \in Nat \ {0} /\ MAX_LAZY_VARS \in Nat \ {0, 1}
  BY VarListsAssumption
<1>2. \A i \in 1 .. 4 : Sizes[i] \in Nat
  BY <1>1, ElementOfSeq
<1>3. Sizes[1] \in Nat /\ Sizes[2] \in Nat /\ Sizes[3] \in Nat /\ Sizes[4] \in Nat
  BY <1>2
<1>4. Sizes[1] <= Sizes[1 + 1] /\ Sizes[2] + MAX_LAZY_VARS <= Sizes[2 + 1]
      /\ Sizes[3] + MAX_LAZY_VARS <= Sizes[3 + 1]
  BY <1>1
<1>5. Sizes[1] <= Sizes[2] /\ Sizes[2] + MAX_LAZY_VARS <= Sizes[3]
      /\ Sizes[3] + MAX_LAZY_VARS <= Sizes[4]
  BY <1>4
<1>6. FirstLocal <= Sizes[1] /\ FirstLocal \in Nat \ {0}
  BY <1>1
<1>7. Sizes[1] # 0 /\ Sizes[2] # 0
  BY <1>3, <1>5, <1>6
<1> QED BY <1>1, <1>3, <1>5, <1>7

\* The next size is greater, is one of the sizes, and has room for a full lazy
\* list if there can be one.
LEMMA NextMaxIs ==
  ASSUME NEW scope, NEW max \in Nat, RightSize(max)
  PROVE  LET next == NextMax(scope, max)
         IN /\ next \in Nat /\ next > max /\ RightSize(next)
            /\ max >= Sizes[2] => next >= Sizes[2] /\ max + MAX_LAZY_VARS <= next
<1> DEFINE i == SelectInSeq(Sizes, LAMBDA size : max < size)
           I == {j \in 1 .. Len(Sizes) : max < Sizes[j]}
           next == NextMax(scope, max)
           Right == /\ next \in Nat /\ next > max /\ RightSize(next)
                    /\ max >= Sizes[2] => next >= Sizes[2] /\ max + MAX_LAZY_VARS <= next
<1>1. i = IF I # {} THEN Min(I) ELSE 0
  BY DEF SelectInSeq
<1>2. next = IF max = 0 /\ scope # Global THEN FirstLocal
             ELSE IF i # 0 THEN Sizes[i] ELSE max + Sizes[4]
  BY DEF NextMax
<1>3. I # {} => Min(I) \in I
  <2>1. SUFFICES ASSUME I # {} PROVE Min(I) \in I
    OBVIOUS
  <2>2. I \subseteq Nat
    OBVIOUS
  <2>3. \E j \in I : \A k \in I : j <= k
    BY <2>1, <2>2, LeastNumber
  <2> QED BY <2>3, Zenon DEF Min
<1>4. Len(Sizes) = 4
  BY VarListsAssumption
<1> HIDE DEF i, next
<1>5. ASSUME max = 0, scope # Global PROVE Right
  <2>1. next = FirstLocal
    BY <1>2, <1>5
  <2> QED BY <1>5, <2>1, SizesGrow DEF RightSize
<1>6. ASSUME ~(max = 0 /\ scope # Global), I # {} PROVE Right
  <2>1. i \in 1 .. 4 /\ max < Sizes[i] /\ i # 0
    <3>1. i \in I
      BY <1>1, <1>3, <1>6
    <3> QED BY <1>4, <3>1
  <2>2. next = Sizes[i]
    BY <1>2, <1>6, <2>1
  <2>3. i = 1 \/ i = 2 \/ i = 3 \/ i = 4
    BY <2>1
  <2>4. CASE i = 1
    BY <2>1, <2>2, <2>4, SizesGrow DEF RightSize
  <2>5. CASE i = 2
    BY <2>1, <2>2, <2>5, SizesGrow DEF RightSize
  <2>6. CASE i = 3
    BY <2>1, <2>2, <2>6, SizesGrow DEF RightSize
  <2>7. CASE i = 4
    BY <2>1, <2>2, <2>7, SizesGrow DEF RightSize
  <2> QED BY <2>3, <2>4, <2>5, <2>6, <2>7
<1>7. ASSUME ~(max = 0 /\ scope # Global), I = {} PROVE Right
  <2>1. next = max + Sizes[4]
    BY <1>1, <1>2, <1>7
  <2> QED BY <2>1, SizesGrow DEF RightSize
<1>8. Right
  <2> HIDE DEF Right, I
  <2> QED BY <1>5, <1>6, <1>7
<1> QED BY <1>8 DEF next

LEMMA LookupIs ==
  ASSUME NEW l, ListOK(l), NEW name \in Names
  PROVE  LET r == Lookup(l, name)
         IN /\ r.found \in BOOLEAN /\ (r.found <=> In(l, name))
            /\ ~r.found => Fits(LastOf(l), name, r.pos)
<1> DEFINE r == Lookup(l, name)
           m == Search(l.main, name)
           z == Search(l.lazy, name)
<1>1. l.main \in Sorted /\ (l.lazy # NULL => l.lazy \in Sorted) /\ name \in Nat
  BY VarListsAssumption DEF ListOK, Lists
<1>2. \A s \in Sorted : s \in Seq(Nat) /\ Ascending(s)
  BY SortedNumbers DEF Sorted
<1>3. /\ m.found \in BOOLEAN /\ (m.found <=> Occurs(l.main, name))
      /\ ~m.found => Fits(l.main, name, m.pos)
  BY <1>1, <1>2, SearchIs
<1>4. l.lazy # NULL =>
        /\ z.found \in BOOLEAN /\ (z.found <=> Occurs(l.lazy, name))
        /\ ~z.found => Fits(l.lazy, name, z.pos)
  BY <1>1, <1>2, SearchIs
<1>5. r = IF m.found \/ l.lazy = NULL THEN m ELSE z
  BY DEF Lookup
<1> HIDE DEF r, m, z
<1> DEFINE Right == /\ r.found \in BOOLEAN /\ (r.found <=> In(l, name))
                    /\ ~r.found => Fits(LastOf(l), name, r.pos)
<1>6. ASSUME l.lazy = NULL PROVE Right
  BY <1>3, <1>5, <1>6 DEF In, LastOf
<1>7. ASSUME l.lazy # NULL, m.found PROVE Right
  BY <1>3, <1>5, <1>7 DEF In, LastOf
<1>8. ASSUME l.lazy # NULL, ~m.found PROVE Right
  BY <1>3, <1>4, <1>5, <1>8 DEF In, LastOf
<1>9. Right
  <2> HIDE DEF Right
  <2> QED BY <1>6, <1>7, <1>8
<1> QED BY <1>9 DEF r

\* An insertion leaves sound lists that hold what they held before and the new
\* name.  If memory is refused to it, they may lack the name, and what a full lazy
\* list held may be lost.
Inserted(l, k, ok, name) ==
  /\ ListOK(k) /\ ok \in BOOLEAN
  /\ \A x : In(k, x) => In(l, x) \/ x = name
  /\ \A x : In(l, x) => In(k, x) \/ (k.lost /\ Loses(l, x))
  /\ l.lost => k.lost
  /\ RoomForOneMore(l) => Within(k)
  /\ ok => /\ In(k, name) /\ k.lost = l.lost
           /\ \A x : In(l, x) => In(k, x)
           /\ RoomForOneMore(l) => RoomForOneMore(k)

LEMMA InsertIs ==
  ASSUME NEW l, ListOK(l), NEW scope, NEW name \in Names, NEW oom,
         ~In(l, name), NEW pos, Fits(LastOf(l), name, pos)
  PROVE  LET new == Insert(l, scope, name, pos, oom)
         IN /\ Inserted(l, new.l, new.ok, name)
            /\ oom \notin {"lazy", "array"} => new.ok
<1> DEFINE full    == l.lazy # NULL /\ Len(l.lazy) + 1 = MAX_LAZY_VARS
           grows   == (full /\ Len(l.main) + MAX_LAZY_VARS > l.max) \/ Len(l.main) = l.max
           starts  == l.max >= Sizes[2] /\ l.max < Sizes[3]
           refused == grows /\ (oom = "array" \/ (oom = "lazy" /\ starts))
           next    == NextMax(scope, l.max)
           max     == IF grows THEN next ELSE l.max
           longer  == InsertAt(LastOf(l), pos + 1, name)
           added   == [l EXCEPT !.lazy = InsertAt(@, pos + 1, name)]
           again   == IF starts /\ oom = "array" THEN <<>> ELSE NULL
           new     == Insert(l, scope, name, pos, oom)
           Right   == /\ Inserted(l, new.l, new.ok, name)
                      /\ oom \notin {"lazy", "array"} => new.ok
<1>1. /\ l \in Lists /\ l.main \in Sorted /\ l.lazy \in Sorted \union {NULL}
      /\ l.max \in Nat /\ Len(l.main) <= l.max /\ RightSize(l.max) /\ LazyOK(l)
      /\ l.lost \in BOOLEAN
      /\ l = [main |-> l.main, lazy |-> l.lazy, max |-> l.max, lost |-> l.lost]
  BY DEF ListOK, Lists
<1>2. Len(l.main) \in Nat /\ (l.lazy # NULL => Len(l.lazy) \in Nat)
  BY <1>1, SortedNumbers DEF Sorted
<1>3. NULL \notin Sorted /\ <<>> \in Sorted /\ <<>> # NULL /\ Len(<<>>) = 0
      /\ \A x : ~Occurs(<<>>, x)
  BY VarListsAssumption, EmptySorted DEF Sorted
<1>4. /\ next \in Nat /\ next > l.max /\ RightSize(next)
      /\ l.max >= Sizes[2] => next >= Sizes[2] /\ l.max + MAX_LAZY_VARS <= next
  BY <1>1, NextMaxIs
<1>5. /\ max \in Nat /\ max >= l.max /\ RightSize(max)
      /\ l.max >= Sizes[2] => max >= Sizes[2]
  BY <1>1, <1>4, SizesGrow
<1>6. /\ longer \in Sorted /\ Len(longer) = Len(LastOf(l)) + 1
      /\ \A x : Occurs(longer, x) <=> Occurs(LastOf(l), x) \/ x = name
  <2>1. LastOf(l) \in Sorted
    BY <1>1 DEF LastOf
  <2> QED BY <2>1, InsertAtIs
<1>7. new = IF l.lazy # NULL /\ ~full THEN [ok |-> TRUE, l |-> added]
            ELSE IF refused
            THEN [ok |-> FALSE, l |-> IF full /\ ~starts THEN added
                                      ELSE [l EXCEPT !.lazy = again, !.lost = @ \/ full]]
            ELSE IF full
            THEN [ok |-> TRUE, l |-> [l EXCEPT !.main = Merged(l.main, added.lazy),
                                               !.lazy = <<>>, !.max = max]]
            ELSE [ok |-> TRUE, l |-> [l EXCEPT !.main = InsertAt(@, pos + 1, name),
                                               !.lazy = IF grows /\ starts THEN <<>> ELSE NULL,
                                               !.max  = max]]
  BY DEF Insert
<1>8. refused => oom \in {"lazy", "array"}
  BY Zenon
<1>9. l.lazy # NULL => added = [main |-> l.main, lazy |-> longer, max |-> l.max, lost |-> l.lost]
  <2>1. l.lazy # NULL => longer = InsertAt(l.lazy, pos + 1, name)
    BY DEF LastOf
  <2> HIDE DEF longer
  <2> QED BY <1>1, <2>1
<1>10. 0 < MAX_LAZY_VARS /\ 0 <= MAX_LAZY_VARS
  BY SizesGrow
<1> HIDE DEF new, next, longer, added, refused
<1>11. ASSUME l.lazy # NULL, new.l = added, new.ok \in BOOLEAN, new.ok => ~full,
              oom \notin {"lazy", "array"} => new.ok
       PROVE  Right
  <2>1. LastOf(l) = l.lazy
    BY <1>11 DEF LastOf
  <2>2. new.l = [main |-> l.main, lazy |-> longer, max |-> l.max, lost |-> l.lost]
    BY <1>9, <1>11
  <2>3. longer # NULL /\ Len(longer) = Len(l.lazy) + 1 /\ Len(l.lazy) \in Nat
    BY <1>2, <1>3, <1>6, <1>11, <2>1
  <2>4. ~Occurs(l.main, name)
    BY DEF In
  <2>5. \A x : ~(Occurs(l.main, x) /\ Occurs(longer, x))
    BY <1>1, <1>6, <1>11, <2>1, <2>4 DEF LazyOK
  <2>6. LazyOK(new.l)
    BY <1>1, <1>11, <2>2, <2>5 DEF LazyOK
  <2>7. ListOK(new.l)
    BY <1>1, <1>6, <2>2, <2>6 DEF ListOK, Lists
  <2>8. \A x : In(new.l, x) <=> In(l, x) \/ x = name
    BY <1>6, <1>11, <2>1, <2>2, <2>3 DEF In
  <2>9. RoomForOneMore(l) => Within(new.l) /\ (~full => RoomForOneMore(new.l))
    <3> DEFINE a == Len(l.lazy)
               b == Len(longer)
    <3>1. a \in Nat /\ b = a + 1 /\ MAX_LAZY_VARS \in Nat
      BY <2>3, SizesGrow
    <3>2. /\ RoomForOneMore(l) => a < MAX_LAZY_VARS
          /\ ~full => a + 1 # MAX_LAZY_VARS
          /\ Within(new.l) <=> b <= MAX_LAZY_VARS
          /\ RoomForOneMore(new.l) <=> b < MAX_LAZY_VARS
      BY <1>11, <2>2, <2>3 DEF RoomForOneMore, Within
    <3> HIDE DEF a, b, full
    <3> QED BY <3>1, <3>2
  <2>10. new.l.lost = l.lost
    BY <2>2
  <2> HIDE DEF full
  <2> QED BY <1>11, <2>7, <2>8, <2>9, <2>10 DEF Inserted
<1>12. ASSUME refused, ~(full /\ ~starts), l.lazy = NULL \/ full PROVE Right
  <2>1. new = [ok |-> FALSE, l |-> [l EXCEPT !.lazy = again, !.lost = @ \/ full]]
    BY <1>7, <1>12
  <2>2. new.ok = FALSE /\ new.l.main = l.main /\ new.l.lazy = again /\ new.l.max = l.max
        /\ new.l.lost = (l.lost \/ full) /\ new.l \in Lists
    <3>1. again \in Sorted \union {NULL}
      BY <1>3
    <3> HIDE DEF again
    <3> DEFINE lost == l.lost \/ full
    <3>2. lost \in BOOLEAN
      BY <1>1
    <3>3. new.l = [main |-> l.main, lazy |-> again, max |-> l.max, lost |-> lost]
      BY <1>1, <2>1
    <3>4. new.ok = FALSE
      BY <2>1
    <3> HIDE DEF lost, full
    <3>5. new.l.lost = lost
      BY <3>3
    <3> QED BY <1>1, <3>1, <3>2, <3>3, <3>4, <3>5 DEF Lists, lost
  <2>3. again # NULL => again = <<>> /\ starts
    BY <1>3
  <2> HIDE DEF again
  <2>4. l.max >= Sizes[2] => Len(l.main) # 0
    <3>1. CASE l.lazy # NULL
      BY <1>1, <3>1 DEF LazyOK
    <3>2. CASE l.lazy = NULL
      <4>1. Len(l.main) = l.max
        BY <1>12, <3>2 DEF refused
      <4> QED BY <1>1, <4>1, SizesGrow
    <3> QED BY <3>1, <3>2
  <2>5. LazyOK(new.l)
    BY <1>3, <2>2, <2>3, <2>4 DEF LazyOK
  <2>6. ListOK(new.l)
    BY <1>1, <2>2, <2>5 DEF ListOK
  <2>7. \A x : In(new.l, x) <=> Occurs(l.main, x)
    BY <1>3, <2>2, <2>3 DEF In
  <2>8. \A x : In(l, x) => In(new.l, x) \/ (new.l.lost /\ Loses(l, x))
    <3>1. CASE l.lazy = NULL
      BY <2>7, <3>1 DEF In
    <3>2. CASE full
      <4>1. new.l.lost /\ starts
        BY <1>12, <2>2, <3>2
      <4> QED BY <2>7, <3>2, <4>1 DEF In, Loses
    <3> QED BY <1>12, <3>1, <3>2
  <2>9. Within(new.l)
    BY <1>3, <1>10, <2>2, <2>3 DEF Within
  <2>10. l.lost => new.l.lost
    BY <2>2
  <2> HIDE DEF full, starts
  <2> QED BY <1>8, <1>12, <2>2, <2>6, <2>7, <2>8, <2>9, <2>10 DEF Inserted, In
<1>13. ASSUME full, ~refused PROVE Right
  <2> DEFINE whole == Merged(l.main, longer)
  <2>1. LastOf(l) = l.lazy /\ l.lazy # NULL
    BY <1>13 DEF LastOf
  <2>2. /\ new.ok = TRUE
        /\ new.l = [main |-> whole, lazy |-> <<>>, max |-> max, lost |-> l.lost]
    <3>1. added.lazy = longer
      BY <1>9, <2>1
    <3>2. new = [ok |-> TRUE, l |-> [l EXCEPT !.main = whole, !.lazy = <<>>, !.max = max]]
      BY <1>7, <1>13, <3>1
    <3> HIDE DEF whole, max
    <3> QED BY <1>1, <3>2
  <2>3. /\ l.max >= Sizes[2] /\ Len(l.main) # 0
        /\ \A x : ~(Occurs(l.main, x) /\ Occurs(l.lazy, x))
    BY <1>1, <2>1 DEF LazyOK
  <2>4. ~Occurs(l.main, name)
    BY DEF In
  <2>5. \A x : ~(Occurs(l.main, x) /\ Occurs(longer, x))
    BY <1>6, <2>1, <2>3, <2>4
  <2>6. /\ whole \in Sorted /\ Len(whole) = Len(l.main) + Len(longer)
        /\ \A x : Occurs(whole, x) <=> Occurs(l.main, x) \/ Occurs(longer, x)
    BY <1>1, <1>6, <2>3, <2>5, MergedIs
  <2> HIDE DEF whole
  <2>7. Len(whole) = Len(l.main) + MAX_LAZY_VARS
    BY <1>6, <1>13, <2>1, <2>6
  <2>8. Len(whole) <= max
    <3> DEFINE w == Len(whole)
               m == Len(l.main)
               lmax == l.max
               lm == MAX_LAZY_VARS
    <3>1. w = m + lm /\ m \in Nat /\ lm \in Nat /\ lmax \in Nat /\ m <= lmax
      BY <1>1, <1>2, <2>7, SizesGrow
    <3>2. CASE grows
      <4>1. max = next /\ lmax + lm <= next /\ next \in Nat
        BY <1>4, <2>3, <3>2
      <4> HIDE DEF w, m, lmax, lm, max
      <4>2. w <= max
        BY <3>1, <4>1
      <4> QED BY <4>2 DEF w
    <3>3. CASE ~grows
      <4>1. max = lmax /\ ~(m + lm > lmax)
        BY <1>13, <3>3
      <4> HIDE DEF w, m, lmax, lm, max
      <4>2. w <= max
        BY <3>1, <4>1
      <4> QED BY <4>2 DEF w
    <3> QED BY <3>2, <3>3
  <2> HIDE DEF max
  <2>9. Len(whole) # 0
    <3> DEFINE a == Len(l.main)
    <3>1. a \in Nat /\ Len(whole) = a + MAX_LAZY_VARS
      BY <1>2, <2>7
    <3> HIDE DEF a
    <3> QED BY <3>1, SizesGrow
  <2>10. LazyOK(new.l)
    BY <1>3, <1>5, <2>2, <2>3, <2>9, SizesGrow DEF LazyOK
  <2>11. ListOK(new.l)
    BY <1>1, <1>3, <1>5, <2>2, <2>6, <2>8, <2>10 DEF ListOK, Lists
  <2>12. \A x : In(new.l, x) <=> In(l, x) \/ x = name
    <3>1. \A x : In(new.l, x) <=> Occurs(whole, x)
      BY <1>3, <2>2 DEF In
    <3> QED BY <1>6, <2>1, <2>6, <3>1 DEF In
  <2>13. Within(new.l) /\ RoomForOneMore(new.l) /\ new.l.lost = l.lost
    BY <1>3, <1>10, <2>2 DEF Within, RoomForOneMore
  <2> QED BY <2>2, <2>11, <2>12, <2>13 DEF Inserted
<1>14. ASSUME l.lazy = NULL, ~refused PROVE Right
  <2> DEFINE lazy == IF grows /\ starts THEN <<>> ELSE NULL
  <2>1. LastOf(l) = l.main /\ longer = InsertAt(l.main, pos + 1, name)
    BY <1>14 DEF LastOf, longer
  <2>2. new.ok = TRUE /\ new.l = [main |-> longer, lazy |-> lazy, max |-> max, lost |-> l.lost]
    <3>1. new = [ok |-> TRUE, l |-> [l EXCEPT !.main = longer, !.lazy = lazy, !.max = max]]
      BY <1>7, <1>14, <2>1
    <3> HIDE DEF lazy, max
    <3> QED BY <1>1, <3>1
  <2>3. lazy \in Sorted \union {NULL} /\ (lazy # NULL => lazy = <<>> /\ starts)
    BY <1>3
  <2> HIDE DEF lazy
  <2>4. Len(longer) = Len(l.main) + 1
    BY <1>6, <2>1
  <2>5. Len(longer) <= max
    <3>1. CASE grows
      <4>1. max = next
        BY <3>1
      <4> QED BY <1>1, <1>2, <1>4, <2>4, <4>1
    <3>2. CASE ~grows
      <4>1. max = l.max /\ Len(l.main) # l.max
        BY <3>2
      <4> QED BY <1>1, <1>2, <2>4, <4>1
    <3> QED BY <3>1, <3>2
  <2>6. Len(longer) # 0
    BY <1>2, <2>4
  <2> HIDE DEF max
  <2>7. LazyOK(new.l)
    BY <1>1, <1>3, <1>5, <2>2, <2>3, <2>6, SizesGrow DEF LazyOK
  <2>8. ListOK(new.l)
    BY <1>1, <1>5, <1>6, <2>2, <2>3, <2>5, <2>7 DEF ListOK, Lists
  <2>9. \A x : In(new.l, x) <=> In(l, x) \/ x = name
    BY <1>3, <1>6, <1>14, <2>1, <2>2, <2>3 DEF In
  <2>10. Within(new.l) /\ RoomForOneMore(new.l) /\ new.l.lost = l.lost
    BY <1>3, <1>10, <2>2, <2>3 DEF Within, RoomForOneMore
  <2> QED BY <2>2, <2>8, <2>9, <2>10 DEF Inserted
<1>15. ASSUME l.lazy # NULL, ~full PROVE Right
  <2>1. new.ok = TRUE /\ new.l = added
    BY <1>7, <1>15
  <2> HIDE DEF Right, full
  <2> QED BY <1>11, <1>15, <2>1
<1>16. ASSUME full, refused, ~starts PROVE Right
  <2>1. new.ok = FALSE /\ new.l = added /\ l.lazy # NULL
    BY <1>7, <1>16
  <2> HIDE DEF Right, full
  <2> QED BY <1>8, <1>11, <1>16, <2>1
<1>17. Right
  <2>1. full => l.lazy # NULL
    OBVIOUS
  <2> HIDE DEF Right, full, starts
  <2> QED BY <1>12, <1>13, <1>14, <1>15, <1>16, <2>1
<1> QED BY <1>17 DEF new

-------------------------------------------------------------------------------
(* Finding and adding *)

ListsOK(ls) == ls \in [Scopes -> Lists] /\ \A s \in Scopes : ListOK(ls[s])

\* There are exceptions only inside a function.
ContextOK(c) == c.func \in Funcs \union {NULL} /\ (c.exceptions # NULL => c.func # NULL)

\* As long as no allocation has failed in a merge.
Roomy(ls) == \A s \in Scopes : RoomForOneMore(ls[s]) /\ ~ls[s].lost

\* What an addition may do: nothing that was there is lost,
Keeps(ls, ks) ==
  /\ \A s \in Scopes : \A x : In(ls[s], x) => In(ks[s], x)
  /\ Roomy(ls) => Roomy(ks)

\* unless memory is refused, and then only from a full lazy list.
MostlyKeeps(ls, ks) ==
  \A s \in Scopes :
    /\ \A x : In(ls[s], x) => In(ks[s], x) \/ (ks[s].lost /\ Loses(ls[s], x))
    /\ ls[s].lost => ks[s].lost
    /\ RoomForOneMore(ls[s]) => Within(ks[s])

Additions == [lists : [Scopes -> Lists], heap : Heap, scope : Scopes \union {NULL}]

Grown(ls, a, oom) ==
  /\ a \in Additions /\ ListsOK(a.lists) /\ HeapInv(a.heap)
  /\ MostlyKeeps(ls, a.lists) /\ (oom = "enough" => Keeps(ls, a.lists))

LEMMA SameLists == \A ls : Keeps(ls, ls) /\ (ListsOK(ls) => MostlyKeeps(ls, ls))
<1>1. ASSUME NEW ls, ListsOK(ls) PROVE MostlyKeeps(ls, ls)
  <2>1. ASSUME NEW s \in Scopes PROVE RoomForOneMore(ls[s]) => Within(ls[s])
    <3>1. ls[s] \in Lists
      BY <1>1 DEF ListsOK
    <3>2. ls[s].lazy # NULL => Len(ls[s].lazy) \in Nat
      BY <3>1, SortedNumbers DEF Lists, Sorted
    <3> QED BY <3>2, SizesGrow DEF RoomForOneMore, Within
  <2> QED BY <2>1 DEF MostlyKeeps
<1> QED BY <1>1 DEF Keeps

LEMMA ScopesAre == NULL \notin Scopes /\ Global \in Scopes /\ Funcs \subseteq Scopes
BY VarListsAssumption DEF Scopes

LEMMA DeclaredIs ==
  ASSUME NEW c, ContextOK(c), NEW name, NEW mode \in Modes
  PROVE  /\ Declared(c, name, mode).scope \in Scopes
         /\ mode = "global" => Declared(c, name, mode).scope = Global
<1> DEFINE byDefault == c.func # NULL /\ c.type # "assume global"
           exception == mode = "default" /\ c.exceptions # NULL /\ name \in ToSet(c.exceptions)
           local     == CASE mode = "global"       -> FALSE
                          [] mode = "local"        -> c.func # NULL
                          [] mode = "prefer local" -> c.func # NULL
                          [] mode = "default"      -> byDefault # exception
           param     == mode = "default" /\ c.exceptions # NULL /\ c.type = "assume global"
                          /\ ~local /\ name \in c.params
           scope     == IF local \/ param THEN c.func ELSE Global
<1>1. Declared(c, name, mode).scope = scope
  <2> DEFINE known == exception \/ param
  <2>1. Declared(c, name, mode) = [scope |-> scope, known |-> known]
    BY Zenon DEF Declared
  <2> HIDE DEF scope, known
  <2> QED BY <2>1
<1>2. c.func \in Funcs \union {NULL} /\ (c.exceptions # NULL => c.func # NULL)
  BY DEF ContextOK
<1>3. byDefault => c.func # NULL
  BY Zenon
<1>4. /\ exception => c.func # NULL /\ mode = "default"
      /\ param => c.func # NULL /\ mode = "default"
  <2> HIDE DEF local
  <2> QED BY <1>2, Zenon
<1>5. exception \in BOOLEAN /\ byDefault \in BOOLEAN
  OBVIOUS
<1> HIDE DEF byDefault, exception
<1>6. local => c.func # NULL /\ mode # "global"
  <2>1. ASSUME mode = "default", local PROVE c.func # NULL
    <3>1. local = (byDefault # exception)
      BY <2>1
    <3> HIDE DEF local
    <3> QED BY <1>3, <1>4, <1>5, <2>1, <3>1, Zenon
  <2>2. ASSUME mode = "local", local PROVE c.func # NULL
    <3>1. local = (c.func # NULL)
      BY <2>2
    <3> HIDE DEF local
    <3> QED BY <2>2, <3>1, Zenon
  <2>4. ASSUME mode = "prefer local", local PROVE c.func # NULL
    <3>0. mode # "global" /\ mode # "local"
      BY <2>4, Zenon
    <3>1. local = (c.func # NULL)
      BY <2>4, <3>0, Zenon
    <3> HIDE DEF local
    <3> QED BY <2>4, <3>1, Zenon
  <2>3. ASSUME mode = "global" PROVE ~local
    BY <2>3
  <2> HIDE DEF local
  <2> QED BY <2>1, <2>2, <2>3, <2>4, Zenon DEF Modes
<1> HIDE DEF local, param
<1>7. mode = "global" => scope = Global
  BY <1>4, <1>6
<1>8. scope # Global => c.func # NULL
  BY <1>4, <1>6
<1>9. scope = c.func \/ scope = Global
  OBVIOUS
<1>10. scope \in Scopes
  BY <1>2, <1>8, <1>9, ScopesAre
<1> QED BY <1>1, <1>7, <1>10

LEMMA FindVarIs ==
  ASSUME NEW ls, ListsOK(ls), NEW c, ContextOK(c), NEW name \in Names, NEW mode \in Modes
  PROVE  LET f == FindVar(ls, c, name, mode)
         IN /\ f.scope \in Scopes \union {NULL}
            /\ f.scope = NULL => /\ f.into \in Scopes /\ ~In(ls[f.into], name)
                                 /\ Fits(LastOf(ls[f.into]), name, f.pos)
                                 /\ mode = "global" => f.into = Global
<1> DEFINE d     == Declared(c, name, mode)
           here  == Lookup(ls[d.scope], name)
           out   == Lookup(ls[Global], name)
           falls == /\ d.scope # Global
                    /\ mode = "prefer local" \/ (mode = "default" /\ mIsReadyToExecute)
           Miss(scope, pos) == [scope |-> NULL, into |-> scope, pos |-> pos,
                                exception |-> FALSE]
           Found(scope) == [scope |-> scope, into |-> scope, pos |-> -1,
                            exception |-> d.known]
           f     == FindVar(ls, c, name, mode)
           Right == /\ f.scope \in Scopes \union {NULL}
                    /\ f.scope = NULL => /\ f.into \in Scopes /\ ~In(ls[f.into], name)
                                         /\ Fits(LastOf(ls[f.into]), name, f.pos)
                                         /\ mode = "global" => f.into = Global
<1>1. f = IF d.known \/ here.found THEN Found(d.scope)
          ELSE IF falls /\ out.found THEN Found(Global)
          ELSE IF falls /\ mode = "prefer local" /\ c.type = "assume global"
          THEN Miss(Global, out.pos)
          ELSE Miss(d.scope, here.pos)
  BY DEF FindVar, FallsBack
<1>2. d.scope \in Scopes /\ (mode = "global" => d.scope = Global)
  BY DeclaredIs
<1>3. ListOK(ls[d.scope]) /\ ListOK(ls[Global])
  BY <1>2, ScopesAre DEF ListsOK
<1> HIDE DEF f, d
<1>4. /\ here.found \in BOOLEAN /\ (here.found <=> In(ls[d.scope], name))
      /\ ~here.found => Fits(LastOf(ls[d.scope]), name, here.pos)
  BY <1>3, LookupIs
<1>5. /\ out.found \in BOOLEAN /\ (out.found <=> In(ls[Global], name))
      /\ ~out.found => Fits(LastOf(ls[Global]), name, out.pos)
  BY <1>3, LookupIs
<1> HIDE DEF here, out, Found, Miss, falls
<1>6. ASSUME d.known \/ here.found PROVE Right
  <2>1. f = Found(d.scope)
    BY <1>1, <1>6, Zenon
  <2> QED BY <1>2, <2>1, ScopesAre DEF Found
<1>7. ASSUME ~(d.known \/ here.found), falls /\ out.found PROVE Right
  <2>1. f = Found(Global)
    BY <1>1, <1>7, Zenon
  <2> QED BY <2>1, ScopesAre DEF Found
<1>8. ASSUME ~(d.known \/ here.found), ~(falls /\ out.found),
             falls /\ mode = "prefer local" /\ c.type = "assume global"
      PROVE  Right
  <2>1. f = Miss(Global, out.pos)
    BY <1>1, <1>8, Zenon
  <2>2. ~out.found
    BY <1>8, Zenon
  <2> QED BY <1>5, <2>1, <2>2, ScopesAre DEF Miss
<1>9. ASSUME ~(d.known \/ here.found), ~(falls /\ out.found),
             ~(falls /\ mode = "prefer local" /\ c.type = "assume global")
      PROVE  Right
  <2>1. f = Miss(d.scope, here.pos)
    BY <1>1, <1>9, Zenon
  <2>2. ~here.found
    BY <1>9, Zenon
  <2> QED BY <1>2, <1>4, <2>1, <2>2 DEF Miss
<1>10. Right
  <2> HIDE DEF Right
  <2> QED BY <1>6, <1>7, <1>8, <1>9, Zenon
<1> QED BY <1>10 DEF f

LEMMA AddToIs ==
  ASSUME NEW ls, ListsOK(ls), NEW h, HeapInv(h), NEW scope \in Scopes,
         NEW name \in Names, ~In(ls[scope], name),
         NEW pos, Fits(LastOf(ls[scope]), name, pos), NEW oom
  PROVE  Grown(ls, AddTo(ls, h, scope, name, pos, oom), oom)
<1> DEFINE text == Malloc(h, NAME_SIZE, oom = "name")
           var  == Malloc(text.heap, VAR_SIZE, FALSE)
           new  == Insert(ls[scope], scope, name, pos, oom)
           a    == AddTo(ls, h, scope, name, pos, oom)
<1>1. a = IF text.ptr = NULL
          THEN [lists |-> ls, heap |-> h, scope |-> NULL]
          ELSE [lists |-> [ls EXCEPT ![scope] = new.l], heap |-> var.heap,
                scope |-> IF new.ok THEN scope ELSE NULL]
  BY DEF AddTo, WithList
<1>2. HeapInv(text.heap)
  BY MallocSound
<1> HIDE DEF text
<1>3. HeapInv(var.heap)
  BY <1>2, MallocSound
<1>4. Inserted(ls[scope], new.l, new.ok, name) /\ (oom \notin {"lazy", "array"} => new.ok)
  <2>1. ListOK(ls[scope])
    BY DEF ListsOK
  <2> QED BY <2>1, InsertIs
<1> HIDE DEF var, new, a
<1>5. CASE text.ptr = NULL
  <2>1. a = [lists |-> ls, heap |-> h, scope |-> NULL]
    BY <1>1, <1>5
  <2> QED BY <2>1, SameLists DEF Grown, Additions, ListsOK, HeapInv, a
<1>6. CASE text.ptr # NULL
  <2> DEFINE more == [ls EXCEPT ![scope] = new.l]
  <2>1. a = [lists |-> more, heap |-> var.heap,
             scope |-> IF new.ok THEN scope ELSE NULL]
    BY <1>1, <1>6
  <2>2. /\ more \in [Scopes -> Lists] /\ more[scope] = new.l
        /\ \A s \in Scopes : s # scope => more[s] = ls[s]
    BY <1>4 DEF ListsOK, ListOK, Inserted
  <2> HIDE DEF more
  <2>3. ListsOK(more)
    BY <1>4, <2>2 DEF ListsOK, Inserted
  <2>4. MostlyKeeps(ls, more)
    <3>1. MostlyKeeps(ls, ls)
      BY SameLists
    <3> QED BY <1>4, <2>2, <3>1 DEF MostlyKeeps, Inserted
  <2>5. oom = "enough" => Keeps(ls, more)
    <3>1. oom = "enough" => new.ok
      BY <1>4
    <3> QED BY <1>4, <2>2, <3>1 DEF Keeps, Roomy, Inserted
  <2>6. a \in Additions /\ a.lists = more /\ a.heap = var.heap
    BY <1>3, <2>1, <2>2, <2>3 DEF Additions, ListsOK, HeapInv
  <2> QED BY <1>3, <2>3, <2>4, <2>5, <2>6 DEF Grown, a
<1> QED BY <1>5, <1>6

LEMMA AddVarIs ==
  ASSUME NEW ls, ListsOK(ls), NEW h, HeapInv(h), NEW c, ContextOK(c),
         NEW scope \in Scopes, NEW name \in Names, ~In(ls[scope], name),
         NEW pos, Fits(LastOf(ls[scope]), name, pos), NEW isParam, NEW oom
  PROVE  Grown(ls, AddVar(ls, h, c, scope, name, pos, isParam, oom), oom)
<1> DEFINE g == FindVar(ls, c, name, "global")
           a == AddVar(ls, h, c, scope, name, pos, isParam, oom)
           None == [lists |-> ls, heap |-> h, scope |-> NULL]
           There == [lists |-> ls, heap |-> h, scope |-> Global]
<1>1. a = IF scope # Global /\ name \in BuiltIn
          THEN IF isParam THEN None
               ELSE IF g.scope # NULL THEN There
               ELSE AddTo(ls, h, Global, name, g.pos, oom)
          ELSE AddTo(ls, h, scope, name, pos, oom)
  BY DEF AddVar
<1>2. Grown(ls, None, oom) /\ Grown(ls, There, oom)
  BY ScopesAre, SameLists DEF Grown, Additions, ListsOK, HeapInv
<1>3. g.scope = NULL => /\ ~In(ls[Global], name)
                        /\ Fits(LastOf(ls[Global]), name, g.pos)
  <2>1. "global" \in Modes
    BY DEF Modes
  <2> QED BY <2>1, FindVarIs
<1> HIDE DEF a, g
<1>4. g.scope = NULL => Grown(ls, AddTo(ls, h, Global, name, g.pos, oom), oom)
  BY <1>3, AddToIs, ScopesAre
<1>5. Grown(ls, AddTo(ls, h, scope, name, pos, oom), oom)
  BY AddToIs
<1>6. Grown(ls, a, oom)
  <2> HIDE DEF None, There
  <2> QED BY <1>1, <1>2, <1>4, <1>5
<1> QED BY <1>6 DEF a

LEMMA FindOrAddVarIs ==
  ASSUME ListsOK(lists), HeapInv(heap), NEW c, ContextOK(c), NEW name \in Names,
         NEW mode \in Modes, NEW oom
  PROVE  Grown(lists, FindOrAddVar(c, name, mode, oom), oom)
<1> DEFINE f == FindVar(lists, c, name, mode)
           a == FindOrAddVar(c, name, mode, oom)
<1>1. a = IF f.scope # NULL THEN [lists |-> lists, heap |-> heap, scope |-> f.scope]
          ELSE AddVar(lists, heap, c, f.into, name, f.pos, FALSE, oom)
  BY DEF FindOrAddVar
<1>2. /\ f.scope \in Scopes \union {NULL}
      /\ f.scope = NULL => /\ f.into \in Scopes /\ ~In(lists[f.into], name)
                           /\ Fits(LastOf(lists[f.into]), name, f.pos)
  BY FindVarIs
<1> HIDE DEF a, f
<1>3. CASE f.scope # NULL
  BY <1>1, <1>2, <1>3, SameLists DEF Grown, Additions, ListsOK, HeapInv, a
<1>4. CASE f.scope = NULL
  <2>1. Grown(lists, AddVar(lists, heap, c, f.into, name, f.pos, FALSE, oom), oom)
    BY <1>2, <1>4, AddVarIs
  <2> QED BY <1>1, <1>4, <2>1 DEF a
<1> QED BY <1>3, <1>4

-------------------------------------------------------------------------------
(* Which scope a search or an addition is about *)

AssumesGlobal(c) == c.type = "assume global"
Excepted(c, name) == c.exceptions # NULL /\ name \in ToSet(c.exceptions)

LEMMA DeclaredKnown ==
  ASSUME NEW c, NEW name, NEW mode
  PROVE  LET d == Declared(c, name, mode)
         IN /\ d.known \in BOOLEAN /\ (d.known => mode = "default")
            /\ d.scope \in {c.func, Global}
<1> DEFINE byDefault == c.func # NULL /\ c.type # "assume global"
           exception == mode = "default" /\ c.exceptions # NULL /\ name \in ToSet(c.exceptions)
           local     == CASE mode = "global"       -> FALSE
                          [] mode = "local"        -> c.func # NULL
                          [] mode = "prefer local" -> c.func # NULL
                          [] mode = "default"      -> byDefault # exception
           param     == mode = "default" /\ c.exceptions # NULL /\ c.type = "assume global"
                          /\ ~local /\ name \in c.params
           known     == exception \/ param
           scope     == IF local \/ param THEN c.func ELSE Global
<1>1. Declared(c, name, mode) = [scope |-> scope, known |-> known]
  BY Zenon DEF Declared
<1>2. known \in BOOLEAN /\ (known => mode = "default")
  BY Zenon
<1>3. scope = c.func \/ scope = Global
  BY Zenon
<1> HIDE DEF scope, known
<1> QED BY <1>1, <1>2, <1>3

\* The scope that a line of a function names, and that a dynamic name is first
\* looked for in.
LEMMA DeclaredInFunction ==
  ASSUME NEW c, c.func # NULL, NEW name, NEW mode
  PROVE  LET d == Declared(c, name, mode)
         IN /\ mode = "default" /\ Excepted(c, name) =>
                 d.known /\ d.scope = IF AssumesGlobal(c) THEN c.func ELSE Global
            /\ mode = "default" /\ ~Excepted(c, name) /\ ~AssumesGlobal(c) =>
                 d.scope = c.func
            /\ mode = "default" /\ ~Excepted(c, name) /\ AssumesGlobal(c)
                 /\ c.exceptions # NULL /\ name \in c.params =>
                 d.known /\ d.scope = c.func
            /\ mode = "default" /\ ~Excepted(c, name) /\ name \notin c.params => ~d.known
            /\ mode \in {"local", "prefer local"} => d.scope = c.func
            /\ mode = "global" => d.scope = Global
<1> DEFINE byDefault == c.func # NULL /\ c.type # "assume global"
           exception == mode = "default" /\ c.exceptions # NULL /\ name \in ToSet(c.exceptions)
           local     == CASE mode = "global"       -> FALSE
                          [] mode = "local"        -> c.func # NULL
                          [] mode = "prefer local" -> c.func # NULL
                          [] mode = "default"      -> byDefault # exception
           param     == mode = "default" /\ c.exceptions # NULL /\ c.type = "assume global"
                          /\ ~local /\ name \in c.params
           known     == exception \/ param
           scope     == IF local \/ param THEN c.func ELSE Global
           d         == Declared(c, name, mode)
<1>1. d = [scope |-> scope, known |-> known]
  BY Zenon DEF Declared
<1>2. d.scope = scope /\ d.known = known
  <2> HIDE DEF scope, known, d
  <2> QED BY <1>1
<1>3. byDefault = ~AssumesGlobal(c) /\ byDefault \in BOOLEAN
  BY Zenon DEF AssumesGlobal
<1>4. exception = (mode = "default" /\ Excepted(c, name)) /\ exception \in BOOLEAN
  BY Zenon DEF Excepted
<1>5. param = (mode = "default" /\ c.exceptions # NULL /\ AssumesGlobal(c)
                 /\ ~local /\ name \in c.params)
  BY Zenon DEF AssumesGlobal
<1>6. mode = "default" => local = (byDefault # exception)
  <2>1. ASSUME mode = "default" PROVE local = (byDefault # exception)
    <3>1. mode # "global" /\ mode # "local" /\ mode # "prefer local"
      BY <2>1, Zenon
    <3> HIDE DEF byDefault, exception
    <3> QED BY <2>1, <3>1, Zenon
  <2> QED BY <2>1
<1>7. mode = "local" => local
  <2>1. ASSUME mode = "local" PROVE local
    <3>1. mode # "global" /\ mode # "default" /\ mode # "prefer local"
      BY <2>1, Zenon
    <3> HIDE DEF byDefault, exception
    <3> QED BY <2>1, <3>1, Zenon
  <2> QED BY <2>1
<1>8. mode = "prefer local" => local
  <2>1. ASSUME mode = "prefer local" PROVE local
    <3>1. mode # "global" /\ mode # "default" /\ mode # "local"
      BY <2>1, Zenon
    <3> HIDE DEF byDefault, exception
    <3> QED BY <2>1, <3>1, Zenon
  <2> HIDE DEF local
  <2> QED BY <2>1, Zenon
<1>9. mode = "global" => ~local /\ mode # "default"
  <2>1. ASSUME mode = "global" PROVE ~local /\ mode # "default"
    <3>1. mode # "local" /\ mode # "default" /\ mode # "prefer local"
      BY <2>1, Zenon
    <3> HIDE DEF byDefault, exception
    <3> QED BY <2>1, <3>1, Zenon
  <2> QED BY <2>1
<1> HIDE DEF byDefault, exception, local, param, d
<1>10. mode = "default" /\ Excepted(c, name) =>
         d.known /\ d.scope = IF AssumesGlobal(c) THEN c.func ELSE Global
  <2>1. ASSUME mode = "default", Excepted(c, name), AssumesGlobal(c)
        PROVE  d.known /\ d.scope = c.func
    BY <1>2, <1>3, <1>4, <1>6, <2>1, Zenon
  <2>2. ASSUME mode = "default", Excepted(c, name), ~AssumesGlobal(c)
        PROVE  d.known /\ d.scope = Global
    BY <1>2, <1>3, <1>4, <1>5, <1>6, <2>2, Zenon
  <2> QED BY <2>1, <2>2, Zenon
<1>11. mode = "default" /\ ~Excepted(c, name) /\ ~AssumesGlobal(c) => d.scope = c.func
  BY <1>2, <1>3, <1>4, <1>6, Zenon
<1>12. mode = "default" /\ ~Excepted(c, name) /\ AssumesGlobal(c)
         /\ c.exceptions # NULL /\ name \in c.params => d.known /\ d.scope = c.func
  BY <1>2, <1>3, <1>4, <1>5, <1>6, Zenon
<1>13. mode = "default" /\ ~Excepted(c, name) /\ name \notin c.params => ~d.known
  BY <1>2, <1>4, <1>5, Zenon
<1>14. mode \in {"local", "prefer local"} => d.scope = c.func
  BY <1>2, <1>7, <1>8, Zenon
<1>15. mode = "global" => d.scope = Global
  BY <1>2, <1>5, <1>9, Zenon
<1> QED BY <1>10, <1>11, <1>12, <1>13, <1>14, <1>15, Zenon DEF d

PrefersLocal(mode) == mode = "prefer local"

LEMMA FindVarFinds ==
  ASSUME NEW ls, ListsOK(ls), NEW c, ContextOK(c), NEW name \in Names, NEW mode \in Modes
  PROVE  LET f == FindVar(ls, c, name, mode)
             d == Declared(c, name, mode)
         IN /\ f.scope # NULL => /\ f.scope \in {d.scope, Global}
                                 /\ In(ls[f.scope], name) \/ d.known
            /\ d.known => f.scope = d.scope /\ f.exception
            /\ In(ls[d.scope], name) => f.scope = d.scope
            /\ f.scope = NULL => f.into \in {d.scope, Global}
            /\ f.scope = NULL /\ ~PrefersLocal(mode) => f.into = d.scope
            /\ (PrefersLocal(mode) \/ (mode = "default" /\ mIsReadyToExecute))
                 /\ In(ls[Global], name) => f.scope # NULL
            /\ mode \in {"local", "global"} => f.scope \in {d.scope, NULL}
            /\ In(ls[Global], name) /\ ~In(ls[d.scope], name) /\ ~d.known
                 /\ PrefersLocal(mode) => f.scope = Global
<1> DEFINE d     == Declared(c, name, mode)
           here  == Lookup(ls[d.scope], name)
           out   == Lookup(ls[Global], name)
           falls == /\ d.scope # Global
                    /\ mode = "prefer local" \/ (mode = "default" /\ mIsReadyToExecute)
           Miss(scope, pos) == [scope |-> NULL, into |-> scope, pos |-> pos,
                                exception |-> FALSE]
           Found(scope) == [scope |-> scope, into |-> scope, pos |-> -1,
                            exception |-> d.known]
           f     == FindVar(ls, c, name, mode)
<1>1. f = IF d.known \/ here.found THEN Found(d.scope)
          ELSE IF falls /\ out.found THEN Found(Global)
          ELSE IF falls /\ mode = "prefer local" /\ c.type = "assume global"
          THEN Miss(Global, out.pos)
          ELSE Miss(d.scope, here.pos)
  BY DEF FindVar, FallsBack
<1>2. d.scope \in Scopes /\ Global \in Scopes /\ NULL \notin Scopes /\ d.known \in BOOLEAN
  BY DeclaredIs, DeclaredKnown, ScopesAre
<1>3. ListOK(ls[d.scope]) /\ ListOK(ls[Global])
  BY <1>2 DEF ListsOK
<1>4. falls => /\ d.scope # Global
               /\ mode = "prefer local" \/ (mode = "default" /\ mIsReadyToExecute)
  BY Zenon
<1>5. ~falls => \/ d.scope = Global
                \/ ~(mode = "prefer local" \/ (mode = "default" /\ mIsReadyToExecute))
  BY Zenon
<1> HIDE DEF f, d
<1>6. here.found \in BOOLEAN /\ (here.found <=> In(ls[d.scope], name))
  BY <1>3, LookupIs
<1>7. out.found \in BOOLEAN /\ (out.found <=> In(ls[Global], name))
  BY <1>3, LookupIs
<1>8. \A scope : Found(scope).scope = scope /\ Found(scope).exception = d.known
  OBVIOUS
<1>9. \A scope, pos : Miss(scope, pos).scope = NULL /\ Miss(scope, pos).into = scope
  OBVIOUS
<1> HIDE DEF here, out, Found, Miss, falls
<1>10. f.scope # NULL => f.scope \in {d.scope, Global} /\ (In(ls[f.scope], name) \/ d.known)
  <2>1. ASSUME d.known \/ here.found
        PROVE  f.scope = d.scope /\ (In(ls[d.scope], name) \/ d.known)
    BY <1>1, <1>6, <1>8, <2>1, Zenon
  <2>2. ASSUME ~(d.known \/ here.found), falls /\ out.found
        PROVE  f.scope = Global /\ In(ls[Global], name)
    BY <1>1, <1>7, <1>8, <2>2, Zenon
  <2>3. ASSUME ~(d.known \/ here.found), ~(falls /\ out.found)
        PROVE  f.scope = NULL
    BY <1>1, <1>9, <2>3, Zenon
  <2> QED BY <2>1, <2>2, <2>3
<1>11. d.known => f.scope = d.scope /\ f.exception
  BY <1>1, <1>8, Zenon
<1>12. In(ls[d.scope], name) => f.scope = d.scope
  BY <1>1, <1>6, <1>8, Zenon
<1>13. f.scope = NULL => f.into = d.scope \/ (f.into = Global /\ mode = "prefer local")
  <2>1. ASSUME f.scope = NULL PROVE ~(d.known \/ here.found) /\ ~(falls /\ out.found)
    <3>1. d.scope # NULL /\ Global # NULL
      BY <1>2
    <3> QED BY <1>1, <1>8, <2>1, <3>1, Zenon
  <2>2. ASSUME f.scope = NULL, falls /\ mode = "prefer local" /\ c.type = "assume global"
        PROVE  f.into = Global /\ mode = "prefer local"
    BY <1>1, <1>9, <2>1, <2>2, Zenon
  <2>3. ASSUME f.scope = NULL, ~(falls /\ mode = "prefer local" /\ c.type = "assume global")
        PROVE  f.into = d.scope
    BY <1>1, <1>9, <2>1, <2>3, Zenon
  <2> QED BY <2>2, <2>3, Zenon
<1>14. (mode = "prefer local" \/ (mode = "default" /\ mIsReadyToExecute))
         /\ In(ls[Global], name) => f.scope # NULL
  BY <1>1, <1>2, <1>5, <1>6, <1>7, <1>8, Zenon
<1>15. mode \in {"local", "global"} => f.scope \in {d.scope, NULL}
  <2>1. ASSUME mode \in {"local", "global"} PROVE ~falls
    <3>1. mode # "prefer local" /\ mode # "default"
      BY <2>1, Zenon
    <3> QED BY <1>4, <3>1, Zenon
  <2> QED BY <1>1, <1>8, <1>9, <2>1, Zenon
<1>16. In(ls[Global], name) /\ ~In(ls[d.scope], name) /\ ~d.known /\ mode = "prefer local"
         => f.scope = Global
  BY <1>1, <1>5, <1>6, <1>7, <1>8, Zenon
<1> QED BY <1>10, <1>11, <1>12, <1>13, <1>14, <1>15, <1>16, Zenon
        DEF f, d, PrefersLocal

\* Nothing is added but the name, and that only to the scope that is returned.  If
\* memory is refused, there may be none.
OnlyAdds(ls, a, name, into, oom) ==
  \A s \in Scopes : \A x :
    In(a.lists[s], x) =>
      In(ls[s], x) \/ (x = name /\ s \in into /\ (oom = "enough" => s = a.scope))

LEMMA AddToAdds ==
  ASSUME NEW ls, ListsOK(ls), NEW h, HeapInv(h), NEW scope \in Scopes,
         NEW name \in Names, ~In(ls[scope], name),
         NEW pos, Fits(LastOf(ls[scope]), name, pos), NEW oom
  PROVE  LET a == AddTo(ls, h, scope, name, pos, oom)
         IN /\ OnlyAdds(ls, a, name, {scope}, oom) /\ a.scope \in {scope, NULL}
            /\ a.scope # NULL => In(a.lists[scope], name)
            /\ oom = "enough" => a.scope = scope
<1> DEFINE text == Malloc(h, NAME_SIZE, oom = "name")
           var  == Malloc(text.heap, VAR_SIZE, FALSE)
           new  == Insert(ls[scope], scope, name, pos, oom)
           a    == AddTo(ls, h, scope, name, pos, oom)
<1>1. a = IF text.ptr = NULL
          THEN [lists |-> ls, heap |-> h, scope |-> NULL]
          ELSE [lists |-> [ls EXCEPT ![scope] = new.l], heap |-> var.heap,
                scope |-> IF new.ok THEN scope ELSE NULL]
  BY DEF AddTo, WithList
<1>2. oom = "enough" => text.ptr # NULL
  <2>1. NAME_SIZE \in 1 .. BLOCK_SIZE
    BY VarListsAssumption
  <2>2. oom = "enough" => oom # "name"
    OBVIOUS
  <2>3. (oom = "name") \in BOOLEAN
    OBVIOUS
  <2> DEFINE none == oom = "name"
  <2>4. none \in BOOLEAN /\ (oom = "enough" => ~none)
    BY <2>2
  <2> HIDE DEF none
  <2>5. ~none => Malloc(h, NAME_SIZE, none).ptr \in Chunk
    BY <2>1, <2>4, MallocSound
  <2> QED BY <2>4, <2>5, NullAssumption DEF none
<1> HIDE DEF text, var
<1>3. Inserted(ls[scope], new.l, new.ok, name) /\ (oom \notin {"lazy", "array"} => new.ok)
  <2>1. ListOK(ls[scope])
    BY DEF ListsOK
  <2> QED BY <2>1, InsertIs
<1> HIDE DEF new, a
<1>4. CASE text.ptr = NULL
  <2>1. a.lists = ls /\ a.scope = NULL
    BY <1>1, <1>4
  <2>2. oom # "enough"
    BY <1>2, <1>4
  <2> QED BY <2>1, <2>2 DEF OnlyAdds, a
<1>5. CASE text.ptr # NULL
  <2> DEFINE more == [ls EXCEPT ![scope] = new.l]
  <2>1. a.lists = more /\ a.scope = IF new.ok THEN scope ELSE NULL
    BY <1>1, <1>5
  <2>2. more[scope] = new.l /\ \A s \in Scopes : s # scope => more[s] = ls[s]
    BY DEF ListsOK
  <2> HIDE DEF more
  <2>3. oom = "enough" => new.ok
    BY <1>3
  <2>4. OnlyAdds(ls, a, name, {scope}, oom)
    BY <1>3, <2>1, <2>2, <2>3 DEF OnlyAdds, Inserted
  <2>5. a.scope # NULL => In(a.lists[scope], name)
    BY <1>3, <2>1, <2>2 DEF Inserted
  <2> QED BY <2>1, <2>3, <2>4, <2>5 DEF a
<1> QED BY <1>4, <1>5

LEMMA AddVarAdds ==
  ASSUME NEW ls, ListsOK(ls), NEW h, HeapInv(h), NEW c, ContextOK(c),
         NEW scope \in Scopes, NEW name \in Names, ~In(ls[scope], name),
         NEW pos, Fits(LastOf(ls[scope]), name, pos), NEW isParam \in BOOLEAN, NEW oom
  PROVE  LET a == AddVar(ls, h, c, scope, name, pos, isParam, oom)
         IN /\ OnlyAdds(ls, a, name, {scope, Global}, oom) /\ a.scope \in {scope, Global, NULL}
            /\ a.scope # NULL => In(a.lists[a.scope], name)
            /\ isParam => a.scope \in {scope, NULL}
            /\ oom = "enough" /\ name \notin BuiltIn => a.scope = scope
<1> DEFINE g == FindVar(ls, c, name, "global")
           a == AddVar(ls, h, c, scope, name, pos, isParam, oom)
           None == [lists |-> ls, heap |-> h, scope |-> NULL]
           There == [lists |-> ls, heap |-> h, scope |-> Global]
           Here == AddTo(ls, h, scope, name, pos, oom)
           Out == AddTo(ls, h, Global, name, g.pos, oom)
           Right(b) == /\ OnlyAdds(ls, b, name, {scope, Global}, oom) /\ b.scope \in {scope, Global, NULL}
                       /\ b.scope # NULL => In(b.lists[b.scope], name)
<1>1. a = IF scope # Global /\ name \in BuiltIn
          THEN IF isParam THEN None
               ELSE IF g.scope # NULL THEN There
               ELSE Out
          ELSE Here
  BY DEF AddVar
<1>2. "global" \in Modes /\ "global" # "default" /\ Global \in Scopes /\ NULL \notin Scopes
  BY ScopesAre, Zenon DEF Modes
<1>3. g.scope = NULL => /\ ~In(ls[Global], name)
                        /\ Fits(LastOf(ls[Global]), name, g.pos)
  BY <1>2, FindVarIs
<1>4. g.scope # NULL => In(ls[Global], name)
  <2>1. ~Declared(c, name, "global").known
    BY <1>2, DeclaredKnown
  <2>2. Declared(c, name, "global").scope = Global
    BY <1>2, DeclaredIs
  <2>3. g.scope # NULL => g.scope \in {Global} /\ In(ls[g.scope], name)
    BY <1>2, <2>1, <2>2, FindVarFinds
  <2> QED BY <2>3
<1>5. Right(None) /\ None.scope = NULL
  BY DEF OnlyAdds
<1>6. g.scope # NULL => Right(There)
  BY <1>4 DEF OnlyAdds
<1> HIDE DEF g
<1>7. /\ OnlyAdds(ls, Here, name, {scope}, oom) /\ Here.scope \in {scope, NULL}
      /\ Here.scope # NULL => In(Here.lists[scope], name)
      /\ oom = "enough" => Here.scope = scope
  BY AddToAdds
<1>8. g.scope = NULL => /\ OnlyAdds(ls, Out, name, {Global}, oom) /\ Out.scope \in {Global, NULL}
                        /\ Out.scope # NULL => In(Out.lists[Global], name)
  BY <1>2, <1>3, AddToAdds
<1> HIDE DEF None, There, Here, Out, a
<1>9. Right(Here) /\ (g.scope = NULL => Right(Out))
  <2>1. OnlyAdds(ls, Here, name, {scope, Global}, oom)
    BY <1>7 DEF OnlyAdds
  <2>2. g.scope = NULL => OnlyAdds(ls, Out, name, {scope, Global}, oom)
    BY <1>8 DEF OnlyAdds
  <2> QED BY <1>7, <1>8, <2>1, <2>2
<1>10. Right(a)
  <2> HIDE DEF Right
  <2> QED BY <1>1, <1>5, <1>6, <1>9, Zenon
<1>11. isParam => a.scope \in {scope, NULL}
  BY <1>1, <1>5, <1>7
<1>12. oom = "enough" /\ name \notin BuiltIn => a.scope = scope
  BY <1>1, <1>7
<1> QED BY <1>10, <1>11, <1>12 DEF a

LEMMA FindOrAddVarAdds ==
  ASSUME ListsOK(lists), HeapInv(heap), NEW c, ContextOK(c), NEW name \in Names,
         NEW mode \in Modes, NEW oom
  PROVE  LET a == FindOrAddVar(c, name, mode, oom)
             f == FindVar(lists, c, name, mode)
             d == Declared(c, name, mode)
         IN /\ OnlyAdds(lists, a, name, {d.scope, Global}, oom) /\ a.scope \in {d.scope, Global, NULL}
            /\ a.scope # NULL /\ ~d.known => In(a.lists[a.scope], name)
            /\ f.scope # NULL => a.lists = lists /\ a.scope = f.scope
            /\ oom = "enough" /\ name \notin BuiltIn /\ mode \in {"local", "global"}
                 => a.scope = d.scope
<1> DEFINE f == FindVar(lists, c, name, mode)
           a == FindOrAddVar(c, name, mode, oom)
           d == Declared(c, name, mode)
           new == AddVar(lists, heap, c, f.into, name, f.pos, FALSE, oom)
<1>1. a = IF f.scope # NULL THEN [lists |-> lists, heap |-> heap, scope |-> f.scope]
          ELSE new
  BY DEF FindOrAddVar
<1>2. f.scope = NULL => /\ f.into \in Scopes /\ ~In(lists[f.into], name)
                        /\ Fits(LastOf(lists[f.into]), name, f.pos)
  BY FindVarIs
<1>3. /\ f.scope # NULL => /\ f.scope \in {d.scope, Global}
                           /\ In(lists[f.scope], name) \/ d.known
      /\ f.scope = NULL => f.into \in {d.scope, Global}
      /\ f.scope = NULL /\ ~PrefersLocal(mode) => f.into = d.scope
      /\ mode \in {"local", "global"} => f.scope \in {d.scope, NULL}
  BY FindVarFinds
<1>4. mode \in {"local", "global"} => ~PrefersLocal(mode)
  BY Zenon DEF PrefersLocal
<1> HIDE DEF a, f, d
<1>5. ASSUME f.scope = NULL
      PROVE  /\ OnlyAdds(lists, new, name, {f.into, Global}, oom) /\ new.scope \in {f.into, Global, NULL}
             /\ new.scope # NULL => In(new.lists[new.scope], name)
             /\ oom = "enough" /\ name \notin BuiltIn => new.scope = f.into
  <2> DEFINE into == f.into
             pos == f.pos
  <2>1. into \in Scopes /\ ~In(lists[into], name) /\ Fits(LastOf(lists[into]), name, pos)
    BY <1>2, <1>5
  <2> HIDE DEF into, pos
  <2> DEFINE no == FALSE
             n  == AddVar(lists, heap, c, into, name, pos, no, oom)
  <2>2. no \in BOOLEAN
    OBVIOUS
  <2> HIDE DEF no
  <2>3. /\ OnlyAdds(lists, n, name, {into, Global}, oom) /\ n.scope \in {into, Global, NULL}
        /\ n.scope # NULL => In(n.lists[n.scope], name)
        /\ oom = "enough" /\ name \notin BuiltIn => n.scope = into
    BY <2>1, <2>2, AddVarAdds
  <2> HIDE DEF n
  <2>4. new = n
    BY DEF into, pos, no, n
  <2> HIDE DEF new
  <2> QED BY <2>3, <2>4 DEF into
<1> HIDE DEF new
<1>6. CASE f.scope # NULL
  <2>1. a.lists = lists /\ a.scope = f.scope
    BY <1>1, <1>6
  <2>2. OnlyAdds(lists, a, name, {d.scope, Global}, oom)
    BY <2>1 DEF OnlyAdds
  <2> QED BY <1>3, <1>6, <2>1, <2>2 DEF a, f, d
<1>7. CASE f.scope = NULL
  <2>1. a = new
    BY <1>1, <1>7
  <2>2. a.scope \in {d.scope, Global, NULL}
    <3>1. f.into \in {d.scope, Global} /\ new.scope \in {f.into, Global, NULL}
      BY <1>3, <1>5, <1>7
    <3> QED BY <2>1, <3>1
  <2>3. f.into = d.scope \/ mode \notin {"local", "global"}
    BY <1>3, <1>4, <1>7, Zenon
  <2>4. OnlyAdds(lists, a, name, {d.scope, Global}, oom)
    BY <1>3, <1>5, <1>7, <2>1 DEF OnlyAdds
  <2> QED BY <1>5, <1>7, <2>1, <2>2, <2>3, <2>4 DEF a, f, d
<1> QED BY <1>6, <1>7

-------------------------------------------------------------------------------
(* Defining a function *)

LEMMA GrownTwice ==
  ASSUME NEW ls, NEW a, Grown(ls, a, "enough"), NEW b, Grown(a.lists, b, "enough"), Roomy(ls)
  PROVE  Grown(ls, b, "enough")
<1>1. Keeps(ls, a.lists) /\ Keeps(a.lists, b.lists)
  BY DEF Grown
<1>2. Keeps(ls, b.lists) /\ Roomy(b.lists)
  BY <1>1 DEF Keeps
<1>3. MostlyKeeps(ls, b.lists)
  <2>1. ASSUME NEW s \in Scopes PROVE Within(b.lists[s])
    <3>1. b.lists[s] \in Lists /\ RoomForOneMore(b.lists[s])
      BY <1>2 DEF Grown, Roomy, ListsOK
    <3>2. b.lists[s].lazy # NULL => Len(b.lists[s].lazy) \in Nat
      BY <3>1, SortedNumbers DEF Lists, Sorted
    <3> QED BY <3>1, <3>2, SizesGrow DEF RoomForOneMore, Within
  <2> QED BY <1>2, <2>1 DEF MostlyKeeps, Keeps, Roomy
<1> QED BY <1>2, <1>3 DEF Grown

LEMMA ParamListsAre ==
  ASSUME NEW params \in ParamLists
  PROVE  /\ params \in Seq(Names) /\ Len(params) \in Nat
         /\ \A n \in 1 .. Len(params) : params[n] \in Names
         /\ ToSet(params) \subseteq Names
<1>1. PICK n \in 0 .. MaxParams : params \in [1 .. n -> Names]
  <2>1. ParamNames \subseteq Names
    BY VarListsAssumption
  <2> QED BY <2>1 DEF ParamLists
<1>2. n \in Nat
  BY VarListsAssumption
<1>3. params \in Seq(Names)
  BY <1>1, <1>2, IsASeq
<1>4. \A k \in DOMAIN params : params[k] \in Names
  BY <1>1
<1> QED BY <1>3, <1>4, ElementOfSeq DEF ToSet

\* The parameters of a function are added one after the other.
LEMMA DefineFuncIs ==
  ASSUME ListsOK(lists), Roomy(lists), HeapInv(heap), NEW f \in Funcs, NEW params \in ParamLists,
         DefineFunc(f, params)
  PROVE  /\ ListsOK(lists') /\ HeapInv(heap')
         /\ Keeps(lists, lists') /\ MostlyKeeps(lists, lists')
         /\ exceptions = NULL =>
              \A s \in Scopes : \A x :
                In(lists'[s], x) <=> In(lists[s], x) \/ (s = f /\ x \in ToSet(params))
<1> DEFINE name   == Malloc(heap, NAME_SIZE, FALSE)
           start  == Malloc(name.heap, FUNC_SIZE, FALSE)
           c      == [func |-> f, type |-> "none", params |-> {}, exceptions |-> exceptions]
           Param(s, p) == AddParam(s, c, p)
           N     == Len(params)
           e     == [lists |-> lists, heap |-> start.heap, scope |-> f]
           Step(n, g) == IF n = 0 THEN e ELSE Param(g[n - 1], params[n])
           Body(g) == [n \in 0 .. N |-> Step(n, g)]
           after == CHOOSE g : g = Body(g)
           all   == after[N]
           array == IF params = <<>> THEN all.heap
                    ELSE Malloc(all.heap, PARAM_SIZE * N, FALSE).heap
           T     == {a \in Additions : Grown(lists, a, "enough")}
           G     == [n \in 1 .. N |-> [a \in T |-> Param(a, params[n])]]
<1>1. lists' = all.lists /\ heap' = array /\ all.scope # NULL
  BY Zenon DEF DefineFunc, Defined
<1>2. N \in Nat /\ \A n \in 1 .. N : params[n] \in Names
  BY ParamListsAre
<1>3. e \in T
  <2>1. HeapInv(name.heap)
    BY MallocSound
  <2> HIDE DEF name
  <2>2. HeapInv(start.heap)
    BY <2>1, MallocSound
  <2> HIDE DEF start
  <2>3. f \in Scopes
    BY ScopesAre
  <2> QED BY <2>2, <2>3, SameLists DEF Grown, Additions, ListsOK, HeapInv
<1>4. ContextOK(c)
  BY ScopesAre DEF ContextOK
<1>5. ASSUME NEW a \in T, NEW p \in Names PROVE Param(a, p) \in T
  <2> DEFINE found == FindVar(a.lists, c, p, "default")
             added == AddVar(a.lists, a.heap, c, found.into, p, found.pos, TRUE, "enough")
  <2>1. Grown(lists, a, "enough") /\ a \in Additions /\ ListsOK(a.lists) /\ HeapInv(a.heap)
    BY DEF Grown
  <2>2. found.scope = NULL => /\ found.into \in Scopes /\ ~In(a.lists[found.into], p)
                              /\ Fits(LastOf(a.lists[found.into]), p, found.pos)
    <3>1. "default" \in Modes
      BY DEF Modes
    <3> HIDE DEF c
    <3> QED BY <1>4, <2>1, <3>1, FindVarIs
  <2> HIDE DEF found, c
  <2>3. found.scope = NULL => Grown(a.lists, added, "enough")
    BY <1>4, <2>1, <2>2, AddVarIs
  <2> HIDE DEF added
  <2>4. found.scope = NULL => added \in T
    BY <2>1, <2>3, GrownTwice DEF Grown
  <2>5. [a EXCEPT !.scope = NULL] \in T
    BY <2>1 DEF Grown, Additions
  <2>6. Param(a, p) = IF a.scope = NULL \/ found.scope # NULL
                      THEN [a EXCEPT !.scope = NULL] ELSE added
    BY DEF found, added, AddParam
  <2> HIDE DEF Param
  <2> QED BY <2>4, <2>5, <2>6
<1> HIDE DEF T, Param, e, N, c
<1>6. \E g : Recursive(g, G, N, T, e)
  <2>1. StepsOn(G, N, T)
    BY <1>2, <1>5 DEF StepsOn
  <2> HIDE DEF G
  <2> QED BY <1>2, <1>3, <2>1, Recursion, Zenon
<1>7. PICK g : Recursive(g, G, N, T, e)
  BY <1>6
<1>8. /\ g \in [0 .. N -> T] /\ g[0] = e
      /\ \A n \in 1 .. N : g[n] = G[n][g[n - 1]]
  <2> HIDE DEF G
  <2> QED BY <1>7 DEF Recursive
<1>9. g = Body(g)
  <2>1. ASSUME NEW n \in 0 .. N PROVE g[n] = Step(n, g)
    <3>1. CASE n = 0
      BY <1>8, <3>1
    <3>2. CASE n # 0
      <4>1. n \in 1 .. N /\ n - 1 \in 0 .. N
        BY <1>2, <3>2
      <4>2. g[n - 1] \in T
        BY <1>8, <4>1
      <4> QED BY <1>8, <3>2, <4>1, <4>2
    <3> QED BY <3>1, <3>2
  <2> HIDE DEF Step
  <2> QED BY <1>8, <2>1
<1>10. after = Body(after)
  BY <1>9, Zenon
<1> HIDE DEF after
<1>11. \A n \in 0 .. N : after[n] = Step(n, after)
  <2> HIDE DEF Step
  <2> QED BY <1>10
<1> DEFINE S == {n \in 0 .. N : after[n] \in T}
<1>12. 0 \in S
  BY <1>2, <1>3, <1>11
<1>13. ASSUME NEW n \in 0 .. N - 1, n \in S PROVE n + 1 \in S
  <2>1. n + 1 \in 0 .. N /\ n + 1 \in 1 .. N /\ n + 1 # 0 /\ (n + 1) - 1 = n
    BY <1>2
  <2>2. after[n + 1] = Param(after[n], params[n + 1])
    BY <1>11, <2>1
  <2> QED BY <1>2, <1>5, <1>13, <2>1, <2>2
<1> HIDE DEF S
<1>14. \A n \in 0 .. N : n \in S
  BY <1>2, <1>12, <1>13, Induction
<1> DEFINE Nth(n, x) == \E k \in 1 .. n : x = params[k]
           Has1(a, n) == a.scope # NULL =>
             /\ a.scope = f
             /\ \A s \in Scopes : \A x :
                  In(a.lists[s], x) => In(lists[s], x) \/ (s = f /\ Nth(n, x))
             /\ \A x : Nth(n, x) => In(a.lists[f], x)
           U == {n \in 0 .. N : Has1(after[n], n)}
<1>18. f \in Scopes /\ f # NULL
  BY ScopesAre
<1>19. ASSUME exceptions = NULL, NEW a \in T, NEW p \in Names
       PROVE  LET b == Param(a, p) IN
              b.scope # NULL =>
                /\ a.scope # NULL /\ b.scope = f
                /\ \A s \in Scopes : \A x :
                     /\ In(b.lists[s], x) => In(a.lists[s], x) \/ (s = f /\ x = p)
                     /\ In(a.lists[s], x) => In(b.lists[s], x)
                /\ In(b.lists[f], p)
  <2> DEFINE yes   == TRUE
             found == FindVar(a.lists, c, p, "default")
             d     == Declared(c, p, "default")
             added == AddVar(a.lists, a.heap, c, found.into, p, found.pos, yes, "enough")
             b     == Param(a, p)
  <2>1. Grown(lists, a, "enough") /\ a \in Additions /\ ListsOK(a.lists) /\ HeapInv(a.heap)
    BY DEF Grown, T
  <2>2. c.func = f /\ ~Excepted(c, p) /\ ~AssumesGlobal(c)
    <3>1. c.func = f /\ c.exceptions = NULL /\ c.type = "none"
      BY <1>19 DEF c
    <3>2. "none" # "assume global"
      BY Zenon
    <3> QED BY <3>1, <3>2, Zenon DEF Excepted, AssumesGlobal
  <2>3. "default" \in Modes /\ ~PrefersLocal("default")
    BY Zenon DEF Modes, PrefersLocal
  <2>4. d.scope = f
    <3> DEFINE mode == "default"
    <3>1. mode = "default" /\ c.func # NULL
      BY <1>18, <2>2
    <3> HIDE DEF mode, d
    <3>2. Declared(c, p, mode).scope = c.func
      BY <2>2, <3>1, DeclaredInFunction, Zenon
    <3> QED BY <2>2, <3>2 DEF d, mode
  <2>5. b = IF a.scope = NULL \/ found.scope # NULL THEN [a EXCEPT !.scope = NULL] ELSE added
    BY DEF Param, AddParam
  <2>6. yes \in BOOLEAN /\ yes
    OBVIOUS
  <2> HIDE DEF yes, d
  <2>7. found.scope = NULL =>
          /\ found.into = f /\ ~In(a.lists[f], p) /\ Fits(LastOf(a.lists[f]), p, found.pos)
    <3>1. found.scope = NULL =>
            /\ found.into \in Scopes /\ ~In(a.lists[found.into], p)
            /\ Fits(LastOf(a.lists[found.into]), p, found.pos)
      BY <1>4, <2>1, <2>3, FindVarIs
    <3>2. found.scope = NULL => found.into = d.scope
      BY <1>4, <2>1, <2>3, FindVarFinds DEF d
    <3> QED BY <2>4, <3>1, <3>2
  <2> HIDE DEF found
  <2>8. ASSUME found.scope = NULL
        PROVE  /\ OnlyAdds(a.lists, added, p, {f, Global}, "enough") /\ added.scope \in {f, NULL}
               /\ added.scope # NULL => In(added.lists[added.scope], p)
               /\ \A s \in Scopes : \A x : In(a.lists[s], x) => In(added.lists[s], x)
    <3> DEFINE into == found.into
               pos == found.pos
               h == a.heap
               ls == a.lists
               m == "enough"
               v == AddVar(ls, h, c, into, p, pos, yes, m)
    <3>0. m = "enough"
      OBVIOUS
    <3>1. /\ into = f /\ into \in Scopes /\ ~In(ls[into], p) /\ Fits(LastOf(ls[into]), p, pos)
          /\ ListsOK(ls) /\ HeapInv(h)
      BY <1>18, <2>1, <2>7, <2>8
    <3> HIDE DEF into, pos, h, ls, m
    <3>2. /\ OnlyAdds(ls, v, p, {into, Global}, m)
          /\ v.scope # NULL => In(v.lists[v.scope], p)
          /\ v.scope \in {into, NULL}
      BY <1>4, <2>6, <3>1, AddVarAdds
    <3>3. Grown(ls, v, m)
      BY <1>4, <2>6, <3>1, AddVarIs
    <3> HIDE DEF v
    <3>4. \A s \in Scopes : \A x : In(ls[s], x) => In(v.lists[s], x)
      BY <3>0, <3>3 DEF Grown, Keeps
    <3>5. v = added
      BY DEF into, pos, h, ls, m, v
    <3>6. ls = a.lists
      BY DEF ls
    <3> HIDE DEF added
    <3> QED BY <3>0, <3>1, <3>2, <3>4, <3>5, <3>6, Zenon
  <2>9. [a EXCEPT !.scope = NULL].scope = NULL
    BY <2>1 DEF Additions
  <2> HIDE DEF added, b
  <2>10. b.scope # NULL => a.scope # NULL /\ found.scope = NULL /\ b = added
    BY <2>5, <2>9
  <2> QED BY <2>8, <2>10 DEF OnlyAdds, b
<1>20. ASSUME exceptions = NULL PROVE \A n \in 0 .. N : n \in U
  <2>1. 0 \in U
    <3>1. after[0] = e /\ 0 \in 0 .. N
      BY <1>2, <1>11
    <3>2. Has1(e, 0)
      BY DEF e
    <3> HIDE DEF Has1
    <3> QED BY <3>1, <3>2
  <2>2. ASSUME NEW n \in 0 .. N - 1, n \in U PROVE n + 1 \in U
    <3>1. n + 1 \in 0 .. N /\ n + 1 \in 1 .. N /\ n + 1 # 0 /\ (n + 1) - 1 = n /\ n \in 0 .. N
      BY <1>2
    <3> DEFINE a == after[n]
               p == params[n + 1]
               b == Param(a, p)
    <3>2. after[n + 1] = b
      BY <1>11, <3>1
    <3>3. a \in T /\ p \in Names
      BY <1>2, <1>14, <3>1 DEF S
    <3>4. Has1(a, n)
      BY <2>2
    <3>5. \A x : Nth(n + 1, x) <=> Nth(n, x) \/ x = p
      BY <1>2, <3>1
    <3> HIDE DEF a, p, Nth
    <3>6. b.scope # NULL =>
            /\ a.scope # NULL /\ b.scope = f
            /\ \A s \in Scopes : \A x :
                 /\ In(b.lists[s], x) => In(a.lists[s], x) \/ (s = f /\ x = p)
                 /\ In(a.lists[s], x) => In(b.lists[s], x)
            /\ In(b.lists[f], p)
      BY <1>19, <1>20, <3>3
    <3> HIDE DEF b
    <3>7. Has1(b, n + 1)
      BY <1>18, <3>4, <3>5, <3>6
    <3> HIDE DEF Has1
    <3> QED BY <3>1, <3>2, <3>7
  <2> HIDE DEF U
  <2> QED BY <1>2, <2>1, <2>2, Induction
<1>15. all \in T
  BY <1>2, <1>14 DEF S
<1> HIDE DEF all
<1>16. Grown(lists, all, "enough")
  BY <1>15 DEF T
<1>17. HeapInv(array)
  <2>1. HeapInv(all.heap)
    BY <1>16 DEF Grown
  <2>2. HeapInv(Malloc(all.heap, PARAM_SIZE * N, FALSE).heap)
    BY <2>1, MallocSound
  <2> QED BY <2>1, <2>2
<1> HIDE DEF array
<1>21. ASSUME exceptions = NULL
       PROVE  \A s \in Scopes : \A x :
                In(lists'[s], x) <=> In(lists[s], x) \/ (s = f /\ x \in ToSet(params))
  <2>1. Has1(all, N)
    BY <1>2, <1>20, <1>21 DEF all, U
  <2>2. \A x : x \in ToSet(params) <=> Nth(N, x)
    BY ParamListsAre, LenProperties DEF ToSet, N
  <2> HIDE DEF Nth
  <2>3. \A s \in Scopes : \A x : In(lists[s], x) => In(all.lists[s], x)
    BY <1>16 DEF Grown, Keeps
  <2> QED BY <1>1, <1>18, <2>1, <2>2, <2>3
<1> QED BY <1>1, <1>16, <1>17, <1>21 DEF Grown

-------------------------------------------------------------------------------
(* The invariant *)

VarTypes == {"none", "assume local", "assume global"}
FuncInfo == [mDefaultVarType : VarTypes, mParam : SUBSET Names]

\* Exceptions are there exactly while a function is loaded, and a body can only
\* begin then.
ScriptOK ==
  /\ func \in [Funcs -> FuncInfo]
  /\ CurrentFunc \in Funcs \union {NULL} /\ loaded \subseteq Funcs
  /\ exceptions \in {NULL} \union Seq(Names)
  /\ exceptions # NULL => CurrentFunc # NULL /\ ~mIsReadyToExecute
  /\ CurrentFunc # NULL /\ ~mIsReadyToExecute => exceptions # NULL
  /\ mNextLineIsFunctionBody => CurrentFunc # NULL /\ ~mIsReadyToExecute
  /\ mIsReadyToExecute \in BOOLEAN /\ mNextLineIsFunctionBody \in BOOLEAN
  /\ accidents \in 0 .. MaxAccidents
  /\ meant \in Scopes \union {NULL, "-"}

MemoryOK == ListsOK(lists) /\ HeapInv(heap)

\* There is room and nothing is lost until an allocation fails, which ends the
\* program while it loads the script.
WithinAll(ls) == \A s \in Scopes : Within(ls[s])
AccidentsOK ==
  /\ WithinAll(lists) /\ (accidents = 0 => Roomy(lists))
  /\ Loading => accidents = 0
  /\ undefined \in BOOLEAN /\ (undefined => ~Roomy(lists))

VarInv == MemoryOK /\ ScriptOK /\ AccidentsOK

\* What a step may not do.
Kept == MostlyKeeps(lists, lists') /\ (accidents' = accidents => Keeps(lists, lists'))

LEMMA InitOK == ASSUME Init PROVE VarInv
<1>1. ListOK(EmptyLists)
  <2>1. Len(<<>>) = 0 /\ <<>> \in Sorted
    BY EmptySorted
  <2>2. EmptyLists = [main |-> <<>>, lazy |-> NULL, max |-> 0, lost |-> FALSE]
    BY DEF EmptyLists
  <2>3. RightSize(0)
    BY SizesGrow DEF RightSize
  <2> QED BY <2>1, <2>2, <2>3 DEF ListOK, Lists, LazyOK
<1>2. ListsOK(lists)
  BY <1>1 DEF Init, ListsOK, ListOK
<1>3. HeapInv(heap)
  BY EmptyHeapSound DEF Init
<1>4. func \in [Funcs -> FuncInfo]
  <2>1. "none" \in VarTypes
    BY Zenon DEF VarTypes
  <2>2. func = [f \in Funcs |-> [mDefaultVarType |-> "none", mParam |-> {}]]
    BY DEF Init
  <2> QED BY <2>1, <2>2 DEF FuncInfo
<1>5. 0 \in 0 .. MaxAccidents
  BY VarListsAssumption
<1>6. WithinAll(lists) /\ Roomy(lists)
  <2>1. \A s \in Scopes : lists[s].lazy = NULL /\ lists[s].lost = FALSE
    BY DEF Init, EmptyLists
  <2> QED BY <2>1 DEF WithinAll, Within, Roomy, RoomForOneMore
<1> QED BY <1>2, <1>3, <1>4, <1>5, <1>6 DEF Init, VarInv, MemoryOK, ScriptOK, AccidentsOK

LEMMA ContextIs == ASSUME ScriptOK PROVE ContextOK(Context)
BY DEF ScriptOK, ContextOK, Context

LEMMA TakesKeeps ==
  ASSUME NEW a, NEW oom, Grown(lists, a, oom), Takes(a),
         accidents' = accidents => oom = "enough"
  PROVE  MemoryOK' /\ Kept
BY DEF Grown, Takes, MemoryOK, Kept

LEMMA SameKeeps ==
  ASSUME MemoryOK, UNCHANGED <<lists, heap>>
  PROVE  MemoryOK' /\ Kept
BY SameLists DEF MemoryOK, Kept

LEMMA RoomyIsWithin == ASSUME NEW ls, ListsOK(ls), Roomy(ls) PROVE WithinAll(ls)
BY SameLists DEF MostlyKeeps, Roomy, WithinAll

\* A line of the script is loaded: no allocation has failed.
LEMMA LoadsWithoutAccident ==
  ASSUME VarInv, Loading, MemoryOK', Kept, UNCHANGED <<accidents, undefined>>
  PROVE  AccidentsOK'
<1>1. Roomy(lists) /\ Keeps(lists, lists') /\ accidents = 0
  BY DEF VarInv, AccidentsOK, Kept
<1>2. Roomy(lists') /\ WithinAll(lists')
  BY <1>1, RoomyIsWithin DEF Keeps, MemoryOK
<1> QED BY <1>1, <1>2 DEF VarInv, AccidentsOK

\* The script runs, and one more allocation may fail.
LEMMA RunsWithAccidents ==
  ASSUME VarInv, Running', Kept, WithinAll(lists'),
         accidents' = accidents \/ Accident,
         undefined' \in BOOLEAN, undefined' => ~Roomy(lists')
  PROVE  AccidentsOK'
<1>1. accidents \in Nat
  <2>1. MaxAccidents \in Nat
    BY VarListsAssumption
  <2> QED BY <2>1 DEF VarInv, ScriptOK
<1>2. accidents' = 0 => accidents = 0 /\ accidents' = accidents
  BY <1>1 DEF Accident
<1> QED BY <1>2 DEF VarInv, AccidentsOK, Kept, Keeps, Running, Loading

LEMMA LineAddedIs ==
  ASSUME ScriptOK, LineAdded
  PROVE  func' \in [Funcs -> FuncInfo] /\ mNextLineIsFunctionBody' = FALSE
<1>0. mNextLineIsFunctionBody' = FALSE
  BY Zenon DEF LineAdded
<1>1. CASE mNextLineIsFunctionBody /\ func[CurrentFunc].mDefaultVarType = "none"
  <2>1. func' = [func EXCEPT ![CurrentFunc].mDefaultVarType = "assume local"]
    BY <1>1, Zenon DEF LineAdded
  <2>2. CurrentFunc \in Funcs /\ func \in [Funcs -> FuncInfo]
    BY <1>1 DEF ScriptOK
  <2> DEFINE type == "assume local"
  <2>3. type \in VarTypes
    BY Zenon DEF VarTypes
  <2>4. func' = [func EXCEPT ![CurrentFunc].mDefaultVarType = type]
    BY <2>1, Zenon
  <2> HIDE DEF type
  <2>5. func[CurrentFunc] \in FuncInfo
    BY <2>2
  <2>6. [func[CurrentFunc] EXCEPT !.mDefaultVarType = type] \in FuncInfo
    BY <2>3, <2>5 DEF FuncInfo
  <2> QED BY <1>0, <2>2, <2>4, <2>6
<1>2. CASE ~(mNextLineIsFunctionBody /\ func[CurrentFunc].mDefaultVarType = "none")
  <2>1. func' = func
    BY <1>2, Zenon DEF LineAdded
  <2> QED BY <1>0, <2>1 DEF ScriptOK
<1> QED BY <1>1, <1>2

LEMMA UseIs ==
  ASSUME ScriptOK, NEW name, NEW scope \in Scopes \union {NULL}, Use(name, scope)
  PROVE  meant' \in Scopes \union {NULL, "-"}
<1>1. meant' = meant \/ meant' = scope \/ meant' = "-"
  BY Zenon DEF Use
<1> QED BY <1>1 DEF ScriptOK

LEMMA AddLineKeeps ==
  ASSUME VarInv, NEW name \in Names, AddLine(name)
  PROVE  VarInv' /\ Kept
<1> DEFINE a == FindOrAddVar(Context, name, "default", "enough")
<1>1. /\ ~mIsReadyToExecute /\ Takes(a) /\ LineAdded /\ Use(name, a.scope)
      /\ UNCHANGED <<mIsReadyToExecute, CurrentFunc, exceptions, loaded, accidents, undefined>>
  BY DEF AddLine, Loading
<1>2. Grown(lists, a, "enough")
  <2>1. "default" \in Modes
    BY Zenon DEF Modes
  <2> QED BY <2>1, ContextIs, FindOrAddVarIs DEF VarInv, MemoryOK
<1> HIDE DEF a
<1>3. MemoryOK' /\ Kept
  BY <1>1, <1>2, TakesKeeps
<1>4. a.scope \in Scopes \union {NULL}
  BY <1>2 DEF Grown, Additions
<1>5. meant' \in Scopes \union {NULL, "-"}
  BY <1>1, <1>4, UseIs DEF VarInv
<1>6. func' \in [Funcs -> FuncInfo] /\ mNextLineIsFunctionBody' = FALSE
  BY <1>1, LineAddedIs DEF VarInv
<1>7. ScriptOK'
  BY <1>1, <1>5, <1>6 DEF VarInv, ScriptOK
<1>8. AccidentsOK'
  BY <1>1, <1>3, LoadsWithoutAccident DEF Loading
<1> QED BY <1>3, <1>7, <1>8 DEF VarInv

LEMMA DefineFuncKeeps ==
  ASSUME VarInv, NEW f \in Funcs, NEW params \in ParamLists, DefineFunc(f, params)
  PROVE  VarInv' /\ Kept
<1>0. Roomy(lists)
  BY DEF VarInv, AccidentsOK, DefineFunc
<1>1. MemoryOK' /\ Kept
  BY <1>0, DefineFuncIs DEF VarInv, MemoryOK, Kept
<1>2. /\ ~mIsReadyToExecute /\ CurrentFunc' = f /\ exceptions' = <<>>
      /\ mNextLineIsFunctionBody' = TRUE
      /\ func' = [func EXCEPT ![f].mParam = ToSet(params)]
      /\ loaded' = loaded \union {f}
      /\ UNCHANGED <<mIsReadyToExecute, accidents, undefined, meant>>
  BY Zenon DEF DefineFunc, Defined, Loading
<1>3. <<>> \in Seq(Names) /\ <<>> # NULL /\ f # NULL
  BY EmptySeq, VarListsAssumption
<1>4. func' \in [Funcs -> FuncInfo]
  <2>1. func[f] \in FuncInfo /\ func \in [Funcs -> FuncInfo]
    BY DEF VarInv, ScriptOK
  <2>2. [func[f] EXCEPT !.mParam = ToSet(params)] \in FuncInfo
    BY <2>1, ParamListsAre DEF FuncInfo
  <2> QED BY <1>2, <2>1, <2>2
<1>5. ScriptOK'
  BY <1>2, <1>3, <1>4 DEF VarInv, ScriptOK
<1>6. AccidentsOK'
  BY <1>1, <1>2, LoadsWithoutAccident DEF Loading
<1> QED BY <1>1, <1>5, <1>6 DEF VarInv

LEMMA DeclareAssumeGlobalKeeps ==
  ASSUME VarInv, DeclareAssumeGlobal
  PROVE  VarInv' /\ Kept
<1> DEFINE type == "assume global"
<1>1. /\ ~mIsReadyToExecute /\ CurrentFunc # NULL
      /\ func' = [func EXCEPT ![CurrentFunc].mDefaultVarType = type]
      /\ UNCHANGED <<lists, heap, mIsReadyToExecute, CurrentFunc, exceptions,
                     mNextLineIsFunctionBody, loaded, accidents, undefined, meant>>
  BY Zenon DEF DeclareAssumeGlobal, Loading
<1>2. type \in VarTypes
  BY Zenon DEF VarTypes
<1> HIDE DEF type
<1>3. func' \in [Funcs -> FuncInfo]
  <2>1. CurrentFunc \in Funcs /\ func \in [Funcs -> FuncInfo]
    BY <1>1 DEF VarInv, ScriptOK
  <2>2. func[CurrentFunc] \in FuncInfo
    BY <2>1
  <2>3. [func[CurrentFunc] EXCEPT !.mDefaultVarType = type] \in FuncInfo
    BY <1>2, <2>2 DEF FuncInfo
  <2> QED BY <1>1, <2>1, <2>3
<1>4. MemoryOK' /\ Kept
  BY <1>1, SameKeeps DEF VarInv
<1>5. ScriptOK'
  BY <1>1, <1>3 DEF VarInv, ScriptOK
<1>6. AccidentsOK'
  BY <1>1, <1>4, LoadsWithoutAccident DEF Loading
<1> QED BY <1>4, <1>5, <1>6 DEF VarInv

LEMMA DeclareKeeps ==
  ASSUME VarInv, NEW keyword, NEW name \in Names, Declare(keyword, name)
  PROVE  VarInv' /\ Kept
<1> DEFINE first == mNextLineIsFunctionBody /\ func[CurrentFunc].mDefaultVarType = "none"
           type  == IF ~first THEN func[CurrentFunc].mDefaultVarType
                    ELSE IF keyword = "local" THEN "assume global" ELSE "assume local"
           is_exception == keyword # "static" \/ type = "assume global"
           mode == IF ~is_exception THEN "default"
                   ELSE IF type = "assume global" THEN "local" ELSE "global"
           c    == [Context EXCEPT !.type = type]
           a    == FindOrAddVar(c, name, mode, "enough")
<1>1. /\ ~mIsReadyToExecute /\ CurrentFunc # NULL
      /\ Takes(a) /\ Use(name, a.scope)
      /\ func' = [func EXCEPT ![CurrentFunc].mDefaultVarType = type]
      /\ exceptions' = IF is_exception THEN Append(exceptions, name) ELSE exceptions
      /\ UNCHANGED <<mIsReadyToExecute, CurrentFunc, mNextLineIsFunctionBody,
                     loaded, accidents, undefined>>
  BY Zenon DEF Declare, Loading
<1>2. CurrentFunc \in Funcs /\ func \in [Funcs -> FuncInfo] /\ func[CurrentFunc] \in FuncInfo
  <2>1. CurrentFunc # NULL
    BY <1>1, Zenon
  <2>2. CurrentFunc \in Funcs /\ func \in [Funcs -> FuncInfo]
    BY <2>1 DEF VarInv, ScriptOK
  <2> QED BY <2>2
<1>3. type \in VarTypes
  <2>1. "assume global" \in VarTypes /\ "assume local" \in VarTypes
    BY Zenon DEF VarTypes
  <2>2. func[CurrentFunc].mDefaultVarType \in VarTypes
    BY <1>2 DEF FuncInfo
  <2> QED BY <2>1, <2>2, Zenon
<1>4. mode \in Modes
  BY Zenon DEF Modes
<1> HIDE DEF type
<1>5. ContextOK(c)
  <2>1. ContextOK(Context)
    BY ContextIs DEF VarInv
  <2>2. c.func = Context.func /\ c.exceptions = Context.exceptions
    BY DEF Context
  <2> QED BY <2>1, <2>2 DEF ContextOK
<1> HIDE DEF c, mode, is_exception
<1>6. Grown(lists, a, "enough")
  BY <1>4, <1>5, FindOrAddVarIs DEF VarInv, MemoryOK
<1> HIDE DEF a
<1>7. MemoryOK' /\ Kept
  BY <1>1, <1>6, TakesKeeps
<1>8. a.scope \in Scopes \union {NULL}
  BY <1>6 DEF Grown, Additions
<1>9. meant' \in Scopes \union {NULL, "-"}
  BY <1>1, <1>8, UseIs DEF VarInv
<1>10. func' \in [Funcs -> FuncInfo]
  <2>1. [func[CurrentFunc] EXCEPT !.mDefaultVarType = type] \in FuncInfo
    BY <1>2, <1>3 DEF FuncInfo
  <2> QED BY <1>1, <1>2, <2>1
<1>11. exceptions' \in Seq(Names) /\ exceptions' # NULL
  <2>1. exceptions \in Seq(Names)
    BY <1>1 DEF VarInv, ScriptOK
  <2>2. exceptions' \in Seq(Names)
    BY <1>1, <2>1
  <2> QED BY <2>2, VarListsAssumption
<1>12. ScriptOK'
  BY <1>1, <1>9, <1>10, <1>11 DEF VarInv, ScriptOK
<1>13. AccidentsOK'
  BY <1>1, <1>7, LoadsWithoutAccident DEF Loading
<1> QED BY <1>7, <1>12, <1>13 DEF VarInv

LEMMA EndFuncKeeps ==
  ASSUME VarInv, EndFunc
  PROVE  VarInv' /\ Kept
<1>1. /\ Loading /\ LineAdded /\ CurrentFunc' = NULL /\ exceptions' = NULL
      /\ UNCHANGED <<lists, heap, mIsReadyToExecute, loaded, accidents, undefined, meant>>
  BY DEF EndFunc
<1>2. func' \in [Funcs -> FuncInfo] /\ mNextLineIsFunctionBody' = FALSE
  BY <1>1, LineAddedIs DEF VarInv
<1>3. MemoryOK' /\ Kept
  BY <1>1, SameKeeps DEF VarInv
<1>4. ScriptOK'
  BY <1>1, <1>2 DEF VarInv, ScriptOK
<1>5. AccidentsOK'
  BY <1>1, <1>3, LoadsWithoutAccident
<1> QED BY <1>3, <1>4, <1>5 DEF VarInv

LEMMA FinishLoadingKeeps ==
  ASSUME VarInv, FinishLoading
  PROVE  VarInv' /\ Kept
<1>1. MemoryOK' /\ Kept
  BY SameKeeps DEF VarInv, FinishLoading
<1>2. ScriptOK'
  BY DEF VarInv, ScriptOK, FinishLoading, Loading, context
<1>3. AccidentsOK'
  BY <1>1, LoadsWithoutAccident DEF FinishLoading
<1> QED BY <1>1, <1>2, <1>3 DEF VarInv

LEMMA SwitchKeeps ==
  ASSUME VarInv, NEW f \in Funcs \union {NULL}, Switch(f)
  PROVE  VarInv' /\ Kept
<1>1. MemoryOK' /\ Kept
  BY SameKeeps DEF VarInv, Switch
<1>2. ScriptOK'
  BY DEF VarInv, ScriptOK, Switch, Running
<1>3. undefined' \in BOOLEAN /\ (undefined' => ~Roomy(lists'))
  <2>1. lists' = lists
    BY DEF Switch
  <2>2. CASE \E s \in {CurrentFunc, f} \ {NULL} : lists[s].lost
    <3>1. undefined' \in BOOLEAN
      BY <2>2 DEF Switch
    <3>2. {CurrentFunc, f} \ {NULL} \subseteq Scopes
      BY ScopesAre DEF VarInv, ScriptOK
    <3> QED BY <2>1, <2>2, <3>1, <3>2 DEF Roomy
  <2>3. CASE ~\E s \in {CurrentFunc, f} \ {NULL} : lists[s].lost
    <3>1. undefined' = undefined
      BY <2>3 DEF Switch
    <3> QED BY <2>1, <3>1 DEF VarInv, AccidentsOK
  <2> QED BY <2>2, <2>3
<1>4. WithinAll(lists') /\ accidents' = accidents /\ Running'
  BY DEF VarInv, AccidentsOK, Switch, Running
<1>5. AccidentsOK'
  BY <1>1, <1>3, <1>4, RunsWithAccidents
<1> QED BY <1>1, <1>2, <1>5 DEF VarInv

\* Where memory would be touched that is not set or not the program's, a list is
\* lost or over full already.
LEMMA CorruptsIs ==
  ASSUME VarInv, NEW name \in Names, NEW mode \in Modes, NEW oom, NEW after,
         MostlyKeeps(lists, after), ListsOK(after)
  PROVE  /\ Corrupts(Context, name, mode, after) => ~Roomy(lists)
         /\ ~Corrupts(Context, name, mode, after) => WithinAll(after)
<1> DEFINE d == Declared(Context, name, mode).scope
           searched == {d} \union
             {s \in {Global} : ~Has(lists, d, name) /\ (FallsBack(d, mode) \/ name \in BuiltIn)}
           unset == \E s \in searched : /\ lists[s].lost /\ lists[s].lazy # NULL
                                        /\ ~Search(lists[s].main, name).found
           behind == \E s \in Scopes : after[s].lazy # NULL /\ Len(after[s].lazy) > MAX_LAZY_VARS
<1>1. Corrupts(Context, name, mode, after) <=> unset \/ behind
  BY DEF Corrupts
<1>2. d \in Scopes /\ Global \in Scopes
  BY ContextIs, DeclaredIs, ScopesAre DEF VarInv
<1> HIDE DEF d
<1>3. unset => ~Roomy(lists)
  BY <1>2 DEF Roomy
<1>4. behind <=> ~WithinAll(after)
  <2>1. ASSUME NEW s \in Scopes, after[s].lazy # NULL PROVE Len(after[s].lazy) \in Nat
    <3>1. after[s] \in Lists
      BY DEF ListsOK
    <3> QED BY <2>1, <3>1, SortedNumbers DEF Lists, Sorted
  <2> QED BY <2>1, SizesGrow DEF WithinAll, Within
<1>5. Roomy(lists) => WithinAll(after)
  BY DEF Roomy, MostlyKeeps, WithinAll
<1> HIDE DEF unset, behind
<1> QED BY <1>1, <1>3, <1>4, <1>5

\* The part that the three ways to find or add a variable at run time share.
LEMMA FindsOrAddsKeeps ==
  ASSUME VarInv, ~undefined, Running, NEW name \in Names, NEW mode \in Modes, NEW oom,
         FindsOrAdds(name, mode, oom), meant' \in Scopes \union {NULL, "-"}
  PROVE  VarInv' /\ Kept
<1> DEFINE a == FindOrAddVar(Context, name, mode, oom)
           bad == Corrupts(Context, name, mode, a.lists)
<1>1. /\ IF bad THEN undefined' = TRUE /\ UNCHANGED <<lists, heap>>
         ELSE Takes(a) /\ undefined' = undefined
      /\ UNCHANGED <<mIsReadyToExecute, context, loaded>>
      /\ accidents' = accidents \/ Accident
      /\ oom = "enough" \/ Accident
  BY DEF FindsOrAdds, Ends
<1>2. Grown(lists, a, oom)
  BY ContextIs, FindOrAddVarIs DEF VarInv, MemoryOK
<1>3. MostlyKeeps(lists, a.lists) /\ ListsOK(a.lists)
  BY <1>2 DEF Grown
<1> HIDE DEF a
<1>4. (bad => ~Roomy(lists)) /\ (~bad => WithinAll(a.lists))
  BY <1>3, CorruptsIs
<1> HIDE DEF bad
<1>5. accidents' \in 0 .. MaxAccidents /\ (accidents' = accidents => oom = "enough")
  <2>1. accidents \in 0 .. MaxAccidents /\ MaxAccidents \in Nat
    BY VarListsAssumption DEF VarInv, ScriptOK
  <2> QED BY <1>1, <2>1 DEF Accident
<1>6. MemoryOK' /\ Kept
  <2>1. CASE bad
    BY <1>1, <2>1, SameKeeps DEF VarInv
  <2>2. CASE ~bad
    BY <1>1, <1>2, <1>5, <2>2, TakesKeeps
  <2> QED BY <2>1, <2>2
<1>7. ScriptOK'
  BY <1>1, <1>5 DEF VarInv, ScriptOK, context
<1>8. WithinAll(lists') /\ undefined' \in BOOLEAN /\ (undefined' => ~Roomy(lists'))
  <2>1. CASE bad
    BY <1>1, <1>4, <2>1 DEF VarInv, AccidentsOK
  <2>2. CASE ~bad
    <3>1. lists' = a.lists /\ ~undefined'
      BY <1>1, <2>2 DEF Takes
    <3> QED BY <1>1, <1>4, <2>2, <3>1 DEF VarInv, AccidentsOK
  <2> QED BY <2>1, <2>2
<1>9. AccidentsOK'
  BY <1>1, <1>6, <1>8, RunsWithAccidents DEF Running
<1> QED BY <1>6, <1>7, <1>9 DEF VarInv

LEMMA FailedHotkeyKeeps ==
  ASSUME VarInv, NEW oom, FailedHotkey(oom)
  PROVE  VarInv' /\ Kept
<1> DEFINE new   == Malloc(heap, HOTKEY_SIZE, FALSE)
           named == Malloc(new.heap, NAME_SIZE, FALSE)
<1>1. /\ Running /\ Accident
      /\ UNCHANGED <<lists, mIsReadyToExecute, context, loaded, undefined, meant>>
      /\ heap' = Delete(new.heap, new.ptr) \/ heap' = Delete(named.heap, new.ptr)
  BY DEF FailedHotkey
<1>2. HeapInv(new.heap) /\ new.ptr \in Chunk
  <2>1. HOTKEY_SIZE \in 1 .. BLOCK_SIZE
    BY VarListsAssumption
  <2> QED BY <2>1, MallocSound DEF VarInv, MemoryOK
<1> HIDE DEF new
<1>3. HeapInv(named.heap)
  BY <1>2, MallocSound
<1> HIDE DEF named
<1>4. HeapInv(heap')
  BY <1>1, <1>2, <1>3, DeleteSound
<1>5. MemoryOK' /\ Kept
  BY <1>1, <1>4, SameLists DEF VarInv, MemoryOK, Kept
<1>6. accidents' \in 0 .. MaxAccidents
  <2>1. accidents \in 0 .. MaxAccidents /\ MaxAccidents \in Nat
    BY VarListsAssumption DEF VarInv, ScriptOK
  <2> QED BY <1>1, <2>1 DEF Accident
<1>7. ScriptOK'
  BY <1>1, <1>6 DEF VarInv, ScriptOK, context
<1>8. AccidentsOK'
  BY <1>1, <1>5, RunsWithAccidents DEF Running, VarInv, AccidentsOK
<1> QED BY <1>5, <1>7, <1>8 DEF VarInv

LEMMA NextKeeps == ASSUME VarInv, [Next]_vars PROVE VarInv' /\ Kept
<1>1. ASSUME NEW name \in Names, AddLine(name) PROVE VarInv' /\ Kept
  BY <1>1, AddLineKeeps
<1>2. ASSUME NEW name \in Names, NEW keyword, Declare(keyword, name) PROVE VarInv' /\ Kept
  BY <1>2, DeclareKeeps
<1>3. ASSUME NEW name \in Names, NEW oom, ResolveVarOfArg(name, oom), ~undefined PROVE VarInv' /\ Kept
  <2> DEFINE mode == "prefer local"
  <2>1. mode \in Modes
    BY Zenon DEF Modes
  <2>2. Running /\ FindsOrAdds(name, mode, oom) /\ meant' = meant
    BY <1>3, Zenon DEF ResolveVarOfArg
  <2> HIDE DEF mode
  <2>3. meant' \in Scopes \union {NULL, "-"}
    BY <2>2 DEF VarInv, ScriptOK
  <2> QED BY <1>3, <2>1, <2>2, <2>3, FindsOrAddsKeeps
<1>4. ASSUME NEW name \in Names, NEW oom, NEW base \in Scopes, AddElement(base, name, oom),
             ~undefined
      PROVE  VarInv' /\ Kept
  <2> DEFINE mode == IF base = Global THEN "global" ELSE "local"
  <2>1. mode \in Modes
    BY Zenon DEF Modes
  <2>2. Running /\ FindsOrAdds(name, mode, oom) /\ (meant' = meant \/ meant' = "-")
    BY <1>4, Zenon DEF AddElement
  <2> HIDE DEF mode
  <2>3. meant' \in Scopes \union {NULL, "-"}
    BY <2>2 DEF VarInv, ScriptOK
  <2> QED BY <1>4, <2>1, <2>2, <2>3, FindsOrAddsKeeps
<1>5. ASSUME NEW name \in Names, NEW oom, ahkassign(name, oom), ~undefined PROVE VarInv' /\ Kept
  <2>1. "default" \in Modes
    BY Zenon DEF Modes
  <2>2. Running /\ FindsOrAdds(name, "default", oom) /\ meant' = meant
    BY <1>5, Zenon DEF ahkassign
  <2>3. meant' \in Scopes \union {NULL, "-"}
    BY <2>2 DEF VarInv, ScriptOK
  <2> QED BY <1>5, <2>1, <2>2, <2>3, FindsOrAddsKeeps
<1>6. ASSUME NEW f \in Funcs, NEW params \in ParamLists, DefineFunc(f, params)
      PROVE  VarInv' /\ Kept
  BY <1>6, DefineFuncKeeps
<1>7. ASSUME DeclareAssumeGlobal \/ EndFunc \/ FinishLoading PROVE VarInv' /\ Kept
  BY <1>7, DeclareAssumeGlobalKeeps, EndFuncKeeps, FinishLoadingKeeps
<1>8. ASSUME NEW f \in Funcs \union {NULL}, Switch(f) PROVE VarInv' /\ Kept
  BY <1>8, SwitchKeeps
<1>9. ASSUME NEW oom, FailedHotkey(oom) PROVE VarInv' /\ Kept
  BY <1>9, FailedHotkeyKeeps
<1>10. ASSUME UNCHANGED vars PROVE VarInv' /\ Kept
  <2>1. MemoryOK' /\ Kept
    BY <1>10, SameKeeps DEF VarInv, vars
  <2>2. ScriptOK'
    BY <1>10 DEF VarInv, ScriptOK, vars
  <2>3. AccidentsOK'
    BY <1>10 DEF VarInv, AccidentsOK, vars, Loading
  <2> QED BY <2>1, <2>2, <2>3 DEF VarInv
<1> QED BY <1>1, <1>2, <1>3, <1>4, <1>5, <1>6, <1>7, <1>8, <1>9, <1>10 DEF Next

LEMMA VarInvAlways == Spec => []VarInv
<1>1. Init => VarInv
  BY InitOK
<1>2. VarInv /\ [Next]_vars => VarInv'
  BY NextKeeps
<1> QED BY <1>1, <1>2, PTL DEF Spec

LEMMA VarInvTypes == ASSUME VarInv PROVE TypeOK
<1>1. ASSUME NEW s \in Scopes
      PROVE  LET l == lists[s] IN
             /\ l.main \in Seq(Names) /\ Ascending(l.main) /\ l.max \in Nat
             /\ Len(l.main) <= l.max
             /\ l.lazy # NULL =>
                  /\ l.lazy \in Seq(Names) /\ Ascending(l.lazy)
                  /\ Len(l.lazy) <= MAX_LAZY_VARS
                  /\ ToSet(l.lazy) \intersect ToSet(l.main) = {}
             /\ l.lost \in BOOLEAN
  <2> DEFINE l == lists[s]
  <2>1. ListOK(l) /\ Within(l)
    BY DEF VarInv, MemoryOK, ListsOK, AccidentsOK, WithinAll
  <2> HIDE DEF l
  <2>2. l \in Lists /\ Len(l.main) <= l.max /\ LazyOK(l)
    BY <2>1 DEF ListOK
  <2>3. l.main \in Sorted /\ l.max \in Nat /\ l.lazy \in Sorted \union {NULL} /\ l.lost \in BOOLEAN
    BY <2>2 DEF Lists
  <2>4. ASSUME l.lazy # NULL PROVE ToSet(l.lazy) \intersect ToSet(l.main) = {}
    <3>1. \A t \in Sorted : \A x \in ToSet(t) : Occurs(t, x)
      <4>1. \A t \in Sorted : DOMAIN t = 1 .. Len(t)
        BY LenProperties DEF Sorted
      <4> QED BY <4>1 DEF ToSet, Occurs
    <3> QED BY <2>2, <2>3, <2>4, <3>1 DEF LazyOK
  <2>5. l.lazy # NULL => /\ l.lazy \in Seq(Names) /\ Ascending(l.lazy)
                         /\ Len(l.lazy) <= MAX_LAZY_VARS
    BY <2>1, <2>3 DEF Within, Sorted
  <2>6. l.main \in Seq(Names) /\ Ascending(l.main)
    BY <2>3 DEF Sorted
  <2> QED BY <2>2, <2>3, <2>4, <2>5, <2>6 DEF l
<1>2. HeapOK(heap)
  BY HeapInvOK DEF VarInv, MemoryOK
<1>3. func \in [Funcs -> [mDefaultVarType : {"none", "assume local", "assume global"},
                          mParam : SUBSET Names]]
  BY Zenon DEF VarInv, ScriptOK, FuncInfo, VarTypes
<1>4. {mIsReadyToExecute, mNextLineIsFunctionBody} \subseteq BOOLEAN
  BY DEF VarInv, ScriptOK
<1>5. /\ CurrentFunc \in Funcs \union {NULL} /\ loaded \subseteq Funcs
      /\ exceptions \in {NULL} \union Seq(Names)
      /\ exceptions # NULL => CurrentFunc # NULL /\ ~mIsReadyToExecute
      /\ accidents \in 0 .. MaxAccidents
      /\ meant \in Scopes \union {NULL, "-"}
  BY DEF VarInv, ScriptOK
<1>6. /\ (\E s \in Scopes : ~RoomForOneMore(lists[s]) \/ lists[s].lost) => accidents > 0
      /\ undefined \in BOOLEAN
      /\ undefined => \E s \in Scopes : ~RoomForOneMore(lists[s]) \/ lists[s].lost
  <2>1. accidents # 0 => accidents > 0
    <3>1. MaxAccidents \in Nat /\ accidents \in 0 .. MaxAccidents
      BY <1>5, VarListsAssumption
    <3> QED BY <3>1
  <2> QED BY <2>1 DEF VarInv, AccidentsOK, Roomy
<1> QED BY <1>1, <1>2, <1>3, <1>4, <1>5, <1>6, Zenon DEF TypeOK

-------------------------------------------------------------------------------
(* What the watched name means *)

Fn == Watched[1]
Nm == Watched[2]
Own == In(lists[Fn], Nm)

IsNone(type)   == type = "none"
IsGlobal(type) == type = "assume global"
Type == func[Fn].mDefaultVarType

\* The scope that a declared exception of the function is in.
Excepts(type) == IF IsGlobal(type) THEN Fn ELSE Global

\* What the name means is there, and no variable of the function hides a global
\* one that it means, if its list is not lost.
MeantThere ==
  /\ meant \in Scopes =>
       meant \in {Fn, Global} /\ (In(lists[meant], Nm) \/ lists[meant].lost)
  /\ meant = Global => ~Own \/ lists[Global].lost
MeantBefore ==
  Fn \notin loaded => meant = NULL /\ ~Own /\ CurrentFunc # Fn /\ func[Fn].mParam = {}

\* While the script is loaded, a name that has not been used in the function is
\* a variable of it only as a parameter.
MeantParam ==
  /\ Loading /\ Nm \in func[Fn].mParam => Own
  /\ Loading /\ meant = NULL /\ Own => Nm \in func[Fn].mParam

\* A declared exception has been used as such by its declaration.
MeantExcepted ==
  Loading /\ CurrentFunc = Fn /\ Nm \in ToSet(exceptions) =>
    /\ Nm \notin func[Fn].mParam /\ ~IsNone(Type) /\ meant \in {Excepts(Type), "-"}
MeantHead == Loading /\ CurrentFunc = Fn /\ IsNone(Type) => mNextLineIsFunctionBody

MeantOK == MeantThere /\ MeantBefore /\ MeantParam /\ MeantExcepted /\ MeantHead

LEMMA WatchedIs ==
  /\ Fn \in Funcs /\ Nm \in Names /\ Fn # Global /\ Fn # NULL /\ Fn \in Scopes
  /\ Global \in Scopes /\ NULL \notin Scopes /\ "-" \notin Scopes /\ "-" # NULL
BY VarListsAssumption DEF Fn, Nm, Scopes

LEMMA MeantInit == ASSUME Init PROVE MeantOK
<1>1. lists[Fn] = EmptyLists /\ meant = NULL /\ exceptions = NULL /\ loaded = {}
      /\ CurrentFunc = NULL /\ func[Fn].mParam = {}
  BY WatchedIs DEF Init
<1>2. ~Own
  <2>1. Len(<<>>) = 0
    OBVIOUS
  <2> QED BY <1>1, <2>1 DEF Own, In, EmptyLists, Occurs
<1> QED BY <1>1, <1>2, WatchedIs
        DEF MeantOK, MeantThere, MeantBefore, MeantParam, MeantExcepted, MeantHead

\* While the script is loaded nothing is lost.
LEMMA NothingLostYet ==
  ASSUME VarInv, VarInv', Kept, Loading', Loading
  PROVE  Keeps(lists, lists') /\ \A s \in Scopes : ~lists[s].lost /\ ~lists'[s].lost
BY DEF VarInv, AccidentsOK, Kept, Roomy

LEMMA FewLost ==
  ASSUME Kept, NEW s \in Scopes
  PROVE  /\ \A x : In(lists[s], x) => In(lists'[s], x) \/ lists'[s].lost
         /\ lists[s].lost => lists'[s].lost
BY DEF Kept, MostlyKeeps

\* A step that says nothing of the watched name.
LEMMA StillMeant ==
  ASSUME VarInv, VarInv', MeantOK, Kept, meant' = meant, loaded' = loaded,
         func'[Fn].mParam = func[Fn].mParam, Loading' => Loading,
         Own' /\ ~Own => /\ ~Loading' /\ Fn \in loaded
                         /\ meant = Global => lists[Global].lost,
         CurrentFunc' = Fn => Fn \in loaded,
         MeantExcepted', MeantHead'
  PROVE  MeantOK'
<1>1. Loading' => (Own => Own')
  BY NothingLostYet, WatchedIs DEF Keeps, Own
<1>2. MeantThere'
  <2>1. meant \in Scopes => In(lists'[meant], Nm) \/ lists'[meant].lost
    BY FewLost DEF MeantOK, MeantThere
  <2>2. meant = Global => ~Own' \/ lists'[Global].lost
    BY FewLost, WatchedIs DEF MeantOK, MeantThere
  <2> QED BY <2>1, <2>2 DEF MeantOK, MeantThere
<1>3. MeantBefore'
  BY DEF MeantOK, MeantBefore
<1>4. MeantParam'
  BY <1>1 DEF MeantOK, MeantParam
<1> QED BY <1>2, <1>3, <1>4 DEF MeantOK

\* A variable of that name is only ever added to the function by the function.
LEMMA NewOwn ==
  ASSUME VarInv, NEW c, ContextOK(c), c.func = CurrentFunc,
         NEW name \in Names, NEW mode \in Modes, NEW oom,
         Takes(FindOrAddVar(c, name, mode, oom)), Own', ~Own
  PROVE  /\ name = Nm /\ CurrentFunc = Fn /\ Declared(c, name, mode).scope = Fn
         /\ FindVar(lists, c, name, mode).scope = NULL
<1> DEFINE a == FindOrAddVar(c, name, mode, oom)
           f == FindVar(lists, c, name, mode)
           d == Declared(c, name, mode)
<1>1. /\ OnlyAdds(lists, a, name, {d.scope, Global}, oom)
      /\ f.scope # NULL => a.lists = lists
  <2>1. ListsOK(lists) /\ HeapInv(heap)
    BY DEF VarInv, MemoryOK
  <2> QED BY <2>1, FindOrAddVarAdds
<1>2. lists' = a.lists
  BY DEF Takes
<1>3. d.scope \in {c.func, Global}
  BY DeclaredKnown
<1> HIDE DEF a, f, d
<1>4. Fn \in {d.scope, Global} /\ Nm = name
  BY <1>1, <1>2, WatchedIs DEF OnlyAdds, Own
<1> QED BY <1>1, <1>2, <1>3, <1>4, WatchedIs DEF Own, f, d

\* The function names the variable in a line, and no declaration or parameter
\* has said before where it is.
LEMMA UsesWatched ==
  ASSUME VarInv, VarInv', MeantOK, Kept, Loading, Loading', CurrentFunc = Fn, loaded' = loaded,
         NEW c, ContextOK(c), c.func = Fn, NEW mode \in Modes,
         ~Declared(c, Nm, mode).known, Nm \notin func[Fn].mParam,
         Takes(FindOrAddVar(c, Nm, mode, "enough")),
         Use(Nm, FindOrAddVar(c, Nm, mode, "enough").scope),
         func'[Fn].mParam = func[Fn].mParam, MeantExcepted', MeantHead'
  PROVE  MeantOK'
<1> DEFINE oom == "enough"
           a == FindOrAddVar(c, Nm, mode, oom)
           d == Declared(c, Nm, mode)
           s == a.scope
<1>1. Takes(a) /\ Use(Nm, s)
  OBVIOUS
<1>0. oom = "enough"
  OBVIOUS
<1> HIDE DEF oom
<1>2. /\ OnlyAdds(lists, a, Nm, {d.scope, Global}, oom) /\ a.scope \in {d.scope, Global, NULL}
      /\ a.scope # NULL /\ ~d.known => In(a.lists[a.scope], Nm)
  <2>1. ListsOK(lists) /\ HeapInv(heap)
    BY DEF VarInv, MemoryOK
  <2> QED BY <2>1, WatchedIs, FindOrAddVarAdds
<1>3. d.scope \in {c.func, Global}
  BY DeclaredKnown
<1>4. ~d.known /\ lists' = a.lists
  BY <1>1 DEF Takes
<1> HIDE DEF a, d
<1>5. s \in {Fn, Global, NULL} /\ (s # NULL => In(lists'[s], Nm))
  BY <1>2, <1>3, <1>4
<1>6. Own' => Own \/ s = Fn
  BY <1>0, <1>2, <1>4, WatchedIs DEF OnlyAdds, Own
<1> HIDE DEF s
<1>7. /\ meant = "-" => meant' = "-"
      /\ meant # "-" /\ meant \in {NULL, s} => meant' = s
      /\ meant # "-" /\ meant \notin {NULL, s} => meant' = "-"
  <2>1. <<CurrentFunc, Nm>> = Watched
    BY VarListsAssumption DEF Fn, Nm
  <2> QED BY <1>1, <2>1, Zenon DEF Use
<1>8. Fn \in loaded
  BY DEF MeantOK, MeantBefore
<1>9. MeantThere'
  <2>1. ASSUME meant' \in Scopes PROVE meant' \in {Fn, Global} /\ In(lists'[meant'], Nm)
    BY <1>5, <1>7, <2>1, WatchedIs
  <2>2. ASSUME meant' = Global PROVE ~Own'
    <3>1. s = Global /\ meant \in {NULL, Global}
      BY <1>7, <2>2, WatchedIs
    <3>2. ~Own
      BY <3>1, NothingLostYet, WatchedIs DEF MeantOK, MeantThere, MeantParam
    <3> QED BY <1>6, <3>1, <3>2, WatchedIs
  <2> QED BY <2>1, <2>2 DEF MeantThere
<1>10. MeantBefore'
  BY <1>8 DEF MeantBefore
<1>11. MeantParam'
  <2>1. ASSUME meant' = NULL PROVE ~Own'
    <3>1. s = NULL /\ meant = NULL
      BY <1>7, <2>1, WatchedIs
    <3>2. ~Own
      BY <3>1 DEF MeantOK, MeantParam
    <3> QED BY <1>6, <3>1, <3>2, WatchedIs
  <2> QED BY <2>1 DEF MeantParam
<1> QED BY <1>9, <1>10, <1>11 DEF MeantOK

LEMMA HeadEnds ==
  ASSUME VarInv, MeantOK, LineAdded
  PROVE  /\ func'[Fn].mParam = func[Fn].mParam
         /\ Loading /\ CurrentFunc = Fn => ~IsNone(Type')
         /\ ~IsNone(Type) => Type' = Type
<1> DEFINE local == "assume local"
           ends  == mNextLineIsFunctionBody /\ IsNone(func[CurrentFunc].mDefaultVarType)
<1>1. func' = IF ends THEN [func EXCEPT ![CurrentFunc].mDefaultVarType = local] ELSE func
  BY Zenon DEF LineAdded, IsNone
<1>2. ~IsNone(local)
  BY Zenon DEF IsNone
<1>3. func \in [Funcs -> FuncInfo] /\ func[Fn] \in FuncInfo /\ Fn \in Funcs
  BY WatchedIs DEF VarInv, ScriptOK
<1> HIDE DEF local
<1>4. CASE ends /\ CurrentFunc = Fn
  <2>1. /\ func'[Fn] = [func[Fn] EXCEPT !.mDefaultVarType = local]
        /\ IsNone(Type)
    BY <1>1, <1>3, <1>4 DEF Type
  <2>2. func'[Fn].mParam = func[Fn].mParam /\ func'[Fn].mDefaultVarType = local
    BY <1>3, <2>1 DEF FuncInfo
  <2> QED BY <1>2, <2>1, <2>2 DEF Type
<1>5. CASE ~ends \/ CurrentFunc # Fn
  <2>1. func'[Fn] = func[Fn]
    BY <1>1, <1>3, <1>5
  <2>2. Loading /\ CurrentFunc = Fn => ~IsNone(Type)
    BY <1>5 DEF MeantOK, MeantHead, Type
  <2> QED BY <2>1, <2>2 DEF Type
<1> QED BY <1>4, <1>5

LEMMA ContextOfWatched ==
  ASSUME ScriptOK
  PROVE  /\ Context.func = CurrentFunc /\ Context.exceptions = exceptions
         /\ CurrentFunc = Fn =>
              Context.type = Type /\ Context.params = func[Fn].mParam
<1> DEFINE type == IF CurrentFunc = NULL THEN "none" ELSE func[CurrentFunc].mDefaultVarType
           params == IF CurrentFunc = NULL THEN {} ELSE func[CurrentFunc].mParam
<1>1. Context = [func |-> CurrentFunc, type |-> type, params |-> params,
                 exceptions |-> exceptions]
  BY DEF Context
<1>2. CurrentFunc = Fn => type = Type /\ params = func[Fn].mParam
  BY WatchedIs DEF Type
<1> HIDE DEF type, params
<1> QED BY <1>1, <1>2

LEMMA AddLineMeant ==
  ASSUME VarInv, VarInv', MeantOK, Kept, NEW name \in Names, AddLine(name)
  PROVE  MeantOK'
<1> DEFINE mode == "default"
           oom == "enough"
           c == Context
           a == FindOrAddVar(c, name, mode, oom)
           f == FindVar(lists, c, name, mode)
           d == Declared(c, name, mode)
<1>1. /\ Loading /\ Takes(a) /\ LineAdded /\ Use(name, a.scope)
      /\ UNCHANGED <<mIsReadyToExecute, CurrentFunc, exceptions, loaded>>
  BY DEF AddLine
<1>2. mode \in Modes /\ mode = "default" /\ oom = "enough" /\ ContextOK(c)
  BY ContextIs, Zenon DEF Modes, VarInv
<1>3. /\ c.func = CurrentFunc /\ c.exceptions = exceptions
      /\ CurrentFunc = Fn => c.type = Type /\ c.params = func[Fn].mParam
  BY ContextOfWatched DEF VarInv
<1> HIDE DEF mode, oom, c
<1>4. /\ func'[Fn].mParam = func[Fn].mParam
      /\ CurrentFunc = Fn => ~IsNone(Type')
      /\ ~IsNone(Type) => Type' = Type
  BY <1>1, HeadEnds
<1>5. MeantHead'
  BY <1>1, <1>4 DEF MeantHead
<1>6. meant' = meant => MeantExcepted'
  BY <1>1, <1>4 DEF MeantExcepted, MeantOK, Loading
<1>7. /\ f.scope # NULL => a.lists = lists /\ a.scope = f.scope
      /\ d.known => f.scope = d.scope
      /\ In(lists[d.scope], name) => f.scope = d.scope
      /\ d.scope \in Scopes
  <2>1. ListsOK(lists) /\ HeapInv(heap)
    BY DEF VarInv, MemoryOK
  <2> HIDE DEF f, a, d
  <2>2. f.scope # NULL => a.lists = lists /\ a.scope = f.scope
    BY <1>2, <2>1, FindOrAddVarAdds DEF f, a
  <2>3. /\ d.known => f.scope = d.scope
        /\ In(lists[d.scope], name) => f.scope = d.scope
    BY <1>2, <2>1, FindVarFinds DEF f, d
  <2> QED BY <1>2, <2>2, <2>3, DeclaredIs DEF d
<1>8. CurrentFunc = Fn => Fn \in loaded
  BY DEF MeantOK, MeantBefore
<1>9. CASE <<CurrentFunc, name>> # Watched
  <2>1. meant' = meant
    BY <1>1, <1>9, Zenon DEF Use
  <2>2. ~(CurrentFunc = Fn /\ name = Nm)
    BY <1>9, VarListsAssumption DEF Fn, Nm
  <2>3. ~(Own' /\ ~Own)
    BY <1>1, <1>2, <1>3, <2>2, NewOwn
  <2> QED BY <1>1, <1>4, <1>5, <1>6, <1>8, <2>1, <2>3, StillMeant DEF Loading
<1>10. CASE <<CurrentFunc, name>> = Watched
  <2>1. CurrentFunc = Fn /\ name = Nm /\ c.func # NULL
    BY <1>3, <1>10, WatchedIs DEF Fn, Nm
  <2>2. /\ Excepted(c, name) <=> Nm \in ToSet(exceptions)
        /\ AssumesGlobal(c) <=> IsGlobal(Type)
        /\ exceptions # NULL
    <3>1. exceptions # NULL
      BY <1>1, <2>1, WatchedIs DEF VarInv, ScriptOK, Loading
    <3> QED BY <1>3, <2>1, <3>1, Zenon DEF Excepted, AssumesGlobal, IsGlobal
  <2>3. /\ Excepted(c, name) =>
             d.known /\ d.scope = IF AssumesGlobal(c) THEN c.func ELSE Global
        /\ ~Excepted(c, name) /\ ~AssumesGlobal(c) => d.scope = c.func
        /\ ~Excepted(c, name) /\ AssumesGlobal(c) /\ name \in c.params =>
             d.known /\ d.scope = c.func
        /\ ~Excepted(c, name) /\ name \notin c.params => ~d.known
    BY <1>2, <1>3, <2>1, <2>2, DeclaredInFunction, Zenon
  <2>4. /\ meant = "-" => meant' = "-"
        /\ meant # "-" /\ meant \in {NULL, a.scope} => meant' = a.scope
        /\ meant # "-" /\ meant \notin {NULL, a.scope} => meant' = "-"
    BY <1>1, <1>10, Zenon DEF Use
  <2> HIDE DEF a, f, d
  <2>5. CASE Nm \in ToSet(exceptions)
    <3>1. meant \in {Excepts(Type), "-"} /\ Nm \notin func[Fn].mParam
      BY <1>1, <2>1, <2>5 DEF MeantOK, MeantExcepted
    <3>2. d.known /\ d.scope = Excepts(Type)
      BY <1>3, <2>1, <2>2, <2>3, <2>5 DEF Excepts
    <3>3. a.lists = lists /\ a.scope = Excepts(Type)
      BY <1>7, <3>2, WatchedIs
    <3>4. meant' = meant
      BY <2>4, <3>1, <3>3
    <3>5. lists' = lists
      BY <1>1, <3>3 DEF Takes
    <3> QED BY <1>1, <1>4, <1>5, <1>6, <1>8, <3>4, <3>5, StillMeant DEF Loading, Own
  <2>6. CASE Nm \notin ToSet(exceptions) /\ Nm \in func[Fn].mParam
    <3>1. Own
      BY <1>1, <2>6 DEF MeantOK, MeantParam
    <3>2. d.scope = Fn
      BY <1>3, <2>1, <2>2, <2>3, <2>6
    <3>3. a.lists = lists /\ a.scope = Fn
      BY <1>7, <2>1, <3>1, <3>2, WatchedIs DEF Own
    <3>4. lists' = lists
      BY <1>1, <3>3 DEF Takes
    <3>5. meant' \in {Fn, "-"}
      BY <2>4, <3>3
    <3>6. MeantThere' /\ MeantParam'
      BY <3>1, <3>4, <3>5, WatchedIs DEF MeantThere, MeantParam, Own
    <3>7. MeantBefore'
      BY <1>1, <1>8, <2>1 DEF MeantBefore
    <3>8. MeantExcepted'
      BY <1>1, <2>6 DEF MeantExcepted
    <3> QED BY <1>5, <3>6, <3>7, <3>8 DEF MeantOK
  <2>7. CASE Nm \notin ToSet(exceptions) /\ Nm \notin func[Fn].mParam
    <3>1. ~d.known
      BY <1>3, <2>1, <2>2, <2>3, <2>7
    <3>2. MeantExcepted'
      BY <1>1, <2>7 DEF MeantExcepted
    <3>3. Takes(a) /\ Use(Nm, a.scope) /\ c.func = Fn
      BY <1>1, <1>3, <2>1
    <3> QED BY <1>1, <1>2, <1>4, <1>5, <2>1, <2>7, <3>1, <3>2, <3>3, UsesWatched DEF a, d, oom, Loading
  <2> QED BY <2>5, <2>6, <2>7
<1> QED BY <1>9, <1>10

LEMMA DeclareMeant ==
  ASSUME VarInv, VarInv', MeantOK, Kept, NEW keyword, NEW name \in Names, Declare(keyword, name)
  PROVE  MeantOK'
<1> DEFINE first == mNextLineIsFunctionBody /\ IsNone(func[CurrentFunc].mDefaultVarType)
           local == "assume local"
           global == "assume global"
           type  == IF ~first THEN func[CurrentFunc].mDefaultVarType
                    ELSE IF keyword = "local" THEN global ELSE local
           is_exception == keyword # "static" \/ IsGlobal(type)
           mode == IF ~is_exception THEN "default"
                   ELSE IF IsGlobal(type) THEN "local" ELSE "global"
           oom  == "enough"
           c    == [Context EXCEPT !.type = type]
           f    == FindVar(lists, c, name, mode)
           a    == FindOrAddVar(c, name, mode, oom)
           d    == Declared(c, name, mode)
<1>1. /\ Loading /\ CurrentFunc # NULL /\ ~f.exception
      /\ name \notin BuiltIn \union c.params
      /\ Takes(a) /\ Use(name, a.scope)
      /\ func' = [func EXCEPT ![CurrentFunc].mDefaultVarType = type]
      /\ exceptions' = IF is_exception THEN Append(exceptions, name) ELSE exceptions
      /\ UNCHANGED <<mIsReadyToExecute, CurrentFunc, mNextLineIsFunctionBody, loaded>>
  BY Zenon DEF Declare, IsNone, IsGlobal
<1>2. ~IsNone(local) /\ ~IsNone(global) /\ is_exception \in BOOLEAN
  BY Zenon DEF IsNone
<1>3. /\ mode \in Modes
      /\ ~is_exception => mode = "default"
      /\ is_exception => mode \in {"local", "global"}
      /\ is_exception /\ IsGlobal(type) => mode = "local"
      /\ is_exception /\ ~IsGlobal(type) => mode = "global"
  BY Zenon DEF Modes
<1>4. oom = "enough"
  OBVIOUS
<1> HIDE DEF local, global, is_exception, mode, oom
<1>5. /\ c.func = CurrentFunc /\ c.exceptions = exceptions /\ c.type = type
      /\ c.params = Context.params
      /\ CurrentFunc = Fn => c.params = func[Fn].mParam
  <2>1. /\ c.func = Context.func /\ c.exceptions = Context.exceptions /\ c.type = type
        /\ c.params = Context.params
    <3> HIDE DEF type
    <3> QED BY DEF Context
  <2> HIDE DEF c
  <2> QED BY <2>1, ContextOfWatched DEF VarInv
<1>6. ContextOK(c)
  <2>1. ContextOK(Context)
    BY ContextIs DEF VarInv
  <2> HIDE DEF c
  <2> QED BY <1>5, <2>1, ContextOfWatched DEF ContextOK, VarInv
<1>7. func \in [Funcs -> FuncInfo] /\ Fn \in Funcs /\ func[Fn] \in FuncInfo
  BY WatchedIs DEF VarInv, ScriptOK
<1>8. /\ func'[Fn].mParam = func[Fn].mParam
      /\ CurrentFunc = Fn => Type' = type
      /\ CurrentFunc # Fn => Type' = Type
  <2> HIDE DEF type
  <2>1. CASE CurrentFunc = Fn
    <3>1. func'[Fn] = [func[Fn] EXCEPT !.mDefaultVarType = type]
      BY <1>1, <1>7, <2>1
    <3>2. func'[Fn].mParam = func[Fn].mParam /\ func'[Fn].mDefaultVarType = type
      BY <1>7, <3>1 DEF FuncInfo
    <3> QED BY <2>1, <3>2 DEF Type
  <2>2. CASE CurrentFunc # Fn
    <3>1. func'[Fn] = func[Fn]
      BY <1>1, <1>7, <2>2
    <3> QED BY <2>2, <3>1 DEF Type
  <2> QED BY <2>1, <2>2
<1>9. CurrentFunc = Fn => ~IsNone(type) /\ (~IsNone(Type) => type = Type)
  BY <1>1, <1>2 DEF MeantOK, MeantHead, Type
<1> HIDE DEF type, first, c
<1>10. MeantHead'
  BY <1>1, <1>8, <1>9 DEF MeantHead
<1>11. CurrentFunc = Fn => Fn \in loaded
  BY DEF MeantOK, MeantBefore
<1>12. exceptions \in Seq(Names)
  BY <1>1 DEF VarInv, ScriptOK, Loading
<1>13. exceptions' = exceptions \/ (is_exception /\ ToSet(exceptions') = ToSet(exceptions) \union {name})
  <2>1. ToSet(Append(exceptions, name)) = ToSet(exceptions) \union {name}
    <3>1. \A i : i \in DOMAIN exceptions <=> i \in 1 .. Len(exceptions)
      BY <1>12, LenProperties
    <3>2. Len(exceptions) \in Nat
      BY <1>12, LenProperties
    <3>3. /\ DOMAIN Append(exceptions, name) = 1 .. Len(exceptions) + 1
          /\ \A i \in 1 .. Len(exceptions) : Append(exceptions, name)[i] = exceptions[i]
          /\ Append(exceptions, name)[Len(exceptions) + 1] = name
      BY <1>12, AppendProperties, LenProperties
    <3> QED BY <3>1, <3>2, <3>3 DEF ToSet
  <2> QED BY <1>1, <2>1
<1>14. CASE ~(CurrentFunc = Fn /\ name = Nm)
  <2>1. <<CurrentFunc, name>> # Watched
    BY <1>14 DEF Fn, Nm
  <2>2. meant' = meant
    BY <1>1, <2>1, Zenon DEF Use
  <2>3. ~(Own' /\ ~Own)
    BY <1>1, <1>3, <1>5, <1>6, <1>14, NewOwn
  <2>4. MeantExcepted'
    <3>1. ASSUME Loading, CurrentFunc = Fn, Nm \in ToSet(exceptions')
          PROVE  Nm \in ToSet(exceptions)
      BY <1>13, <1>14, <3>1
    <3> QED BY <1>1, <1>8, <1>9, <2>2, <3>1 DEF MeantExcepted, MeantOK, Loading
  <2> QED BY <1>1, <1>8, <1>10, <1>11, <2>2, <2>3, <2>4, StillMeant DEF Loading
<1>15. CASE CurrentFunc = Fn /\ name = Nm
  <2>1. Nm \notin func[Fn].mParam /\ c.func = Fn /\ c.func # NULL
    BY <1>1, <1>5, <1>15
  <2>2. ListsOK(lists) /\ HeapInv(heap)
    BY DEF VarInv, MemoryOK
  <2>3. ~d.known
    <3> HIDE DEF f, d
    <3>1. d.known => f.exception
      BY <1>3, <1>6, <2>2, FindVarFinds DEF f, d
    <3> QED BY <1>1, <3>1
  <2>4. /\ mode = "default" /\ Excepted(c, name) => d.known
        /\ mode = "local" => d.scope = Fn
        /\ mode = "global" => d.scope = Global
    BY <2>1, DeclaredInFunction, Zenon
  <2>5. is_exception => a.scope = d.scope
    <3> HIDE DEF a, d
    <3>1. oom = "enough" /\ name \notin BuiltIn /\ mode \in {"local", "global"} => a.scope = d.scope
      BY <1>3, <1>6, <2>2, FindOrAddVarAdds DEF a, d
    <3> QED BY <1>1, <1>3, <1>4, <3>1
  <2>6. /\ meant = "-" => meant' = "-"
        /\ meant # "-" /\ meant \in {NULL, a.scope} => meant' = a.scope
        /\ meant # "-" /\ meant \notin {NULL, a.scope} => meant' = "-"
    <3>1. <<CurrentFunc, name>> = Watched
      BY <1>15, VarListsAssumption DEF Fn, Nm
    <3> QED BY <1>1, <3>1, Zenon DEF Use
  <2>7. MeantExcepted'
    <3>1. CASE is_exception
      <4>1. a.scope = Excepts(type)
        BY <1>3, <2>4, <2>5, <3>1 DEF Excepts
      <4>2. meant' \in {Excepts(type), "-"}
        <5> HIDE DEF a
        <5> QED BY <2>6, <4>1
      <4> QED BY <1>8, <1>9, <1>15, <2>1, <4>2 DEF MeantExcepted
    <3>2. CASE ~is_exception
      <4>1. exceptions # NULL
        BY <1>1 DEF VarInv, ScriptOK, Loading
      <4>2. Nm \notin ToSet(exceptions)
        BY <1>3, <1>5, <1>15, <2>3, <2>4, <3>2, <4>1 DEF Excepted
      <4> QED BY <1>1, <3>2, <4>2 DEF MeantExcepted
    <3> QED BY <3>1, <3>2
  <2>8. Takes(a) /\ Use(Nm, a.scope)
    BY <1>1, <1>15
  <2> QED BY <1>1, <1>3, <1>6, <1>8, <1>10, <1>15, <2>1, <2>3, <2>7, <2>8, UsesWatched
          DEF a, d, oom, Loading
<1> QED BY <1>14, <1>15

LEMMA DefineFuncMeant ==
  ASSUME VarInv, VarInv', MeantOK, Kept, NEW f \in Funcs, NEW params \in ParamLists,
         DefineFunc(f, params)
  PROVE  MeantOK'
<1>1. /\ Loading /\ CurrentFunc = NULL /\ f \notin loaded /\ CurrentFunc' = f
      /\ exceptions' = <<>> /\ mNextLineIsFunctionBody' = TRUE
      /\ func' = [func EXCEPT ![f].mParam = ToSet(params)]
      /\ loaded' = loaded \union {f}
      /\ UNCHANGED <<mIsReadyToExecute, meant>>
  BY Zenon DEF DefineFunc, Defined
<1>2. exceptions = NULL
  BY <1>1 DEF VarInv, ScriptOK
<1>3. Own' <=> Own \/ (Fn = f /\ Nm \in ToSet(params))
  <2>1. Roomy(lists)
    BY <1>1 DEF VarInv, AccidentsOK
  <2> QED BY <1>2, <2>1, DefineFuncIs, WatchedIs DEF Own, VarInv, MemoryOK
<1>4. func \in [Funcs -> FuncInfo] /\ Fn \in Funcs /\ func[Fn] \in FuncInfo
  BY WatchedIs DEF VarInv, ScriptOK
<1>5. MeantExcepted' /\ MeantHead'
  <2>1. \A x : x \notin ToSet(exceptions')
    BY <1>1 DEF ToSet
  <2> QED BY <1>1, <2>1 DEF MeantExcepted, MeantHead
<1>6. CASE f = Fn
  <2>1. meant = NULL /\ ~Own /\ meant' = NULL
    BY <1>1, <1>6 DEF MeantOK, MeantBefore
  <2>2. func'[Fn].mParam = ToSet(params)
    <3>1. func'[Fn] = [func[Fn] EXCEPT !.mParam = ToSet(params)]
      BY <1>1, <1>4, <1>6
    <3> QED BY <1>4, <3>1 DEF FuncInfo
  <2>3. MeantThere'
    BY <2>1, WatchedIs DEF MeantThere
  <2>4. MeantParam'
    BY <1>3, <1>6, <2>1, <2>2 DEF MeantParam
  <2>5. MeantBefore'
    BY <1>1, <1>6 DEF MeantBefore
  <2> QED BY <1>5, <2>3, <2>4, <2>5 DEF MeantOK
<1>7. CASE f # Fn
  <2>1. func'[Fn] = func[Fn]
    BY <1>1, <1>4, <1>7
  <2>2. MeantThere'
    <3>1. meant \in Scopes => In(lists'[meant], Nm) \/ lists'[meant].lost
      BY FewLost DEF MeantOK, MeantThere
    <3>2. lists[Global].lost => lists'[Global].lost
      BY FewLost, WatchedIs
    <3> QED BY <1>1, <1>3, <1>7, <3>1, <3>2 DEF MeantOK, MeantThere
  <2>3. MeantBefore'
    BY <1>1, <1>3, <1>7, <2>1 DEF MeantOK, MeantBefore
  <2>4. MeantParam'
    BY <1>1, <1>3, <1>7, <2>1 DEF MeantOK, MeantParam, Loading
  <2> QED BY <1>5, <2>2, <2>3, <2>4 DEF MeantOK
<1> QED BY <1>6, <1>7

LEMMA OtherLoadingMeant ==
  ASSUME VarInv, VarInv', MeantOK, Kept, DeclareAssumeGlobal \/ EndFunc \/ FinishLoading
  PROVE  MeantOK'
<1>1. CASE DeclareAssumeGlobal
  <2> DEFINE type == "assume global"
  <2>1. /\ CurrentFunc # NULL /\ IsNone(func[CurrentFunc].mDefaultVarType)
        /\ func' = [func EXCEPT ![CurrentFunc].mDefaultVarType = type]
        /\ UNCHANGED <<lists, mIsReadyToExecute, CurrentFunc, exceptions,
                       mNextLineIsFunctionBody, loaded, meant>>
    BY <1>1, Zenon DEF DeclareAssumeGlobal, IsNone
  <2>2. ~IsNone(type)
    BY Zenon DEF IsNone
  <2> HIDE DEF type
  <2>3. func \in [Funcs -> FuncInfo] /\ Fn \in Funcs /\ func[Fn] \in FuncInfo
    BY WatchedIs DEF VarInv, ScriptOK
  <2>4. /\ func'[Fn].mParam = func[Fn].mParam
        /\ CurrentFunc = Fn => Type' = type
    <3>1. CASE CurrentFunc = Fn
      <4>1. func'[Fn] = [func[Fn] EXCEPT !.mDefaultVarType = type]
        BY <2>1, <2>3, <3>1
      <4> QED BY <2>3, <4>1 DEF FuncInfo, Type
    <3>2. CASE CurrentFunc # Fn
      BY <2>1, <2>3, <3>2
    <3> QED BY <3>1, <3>2
  <2>5. MeantHead'
    BY <2>1, <2>2, <2>4 DEF MeantHead
  <2>6. MeantExcepted'
    BY <2>1 DEF MeantExcepted, MeantOK, Loading, Type
  <2>7. CurrentFunc = Fn => Fn \in loaded
    BY DEF MeantOK, MeantBefore
  <2>8. Own' = Own
    BY <2>1 DEF Own
  <2> QED BY <2>1, <2>4, <2>5, <2>6, <2>7, <2>8, StillMeant DEF Loading
<1>2. CASE EndFunc
  <2>1. /\ LineAdded /\ CurrentFunc' = NULL
        /\ UNCHANGED <<lists, mIsReadyToExecute, loaded, meant>>
    BY <1>2 DEF EndFunc
  <2>2. func'[Fn].mParam = func[Fn].mParam
    BY <2>1, HeadEnds
  <2>3. MeantExcepted' /\ MeantHead' /\ CurrentFunc' # Fn
    BY <2>1, WatchedIs DEF MeantExcepted, MeantHead
  <2>4. Own' = Own
    BY <2>1 DEF Own
  <2> QED BY <2>1, <2>2, <2>3, <2>4, StillMeant DEF Loading
<1>3. CASE FinishLoading
  <2>1. /\ CurrentFunc = NULL /\ mIsReadyToExecute' = TRUE
        /\ UNCHANGED <<lists, func, CurrentFunc, loaded, meant>>
    BY <1>3 DEF FinishLoading, context
  <2>2. MeantExcepted' /\ MeantHead' /\ CurrentFunc' # Fn
    BY <2>1, WatchedIs DEF MeantExcepted, MeantHead, Loading
  <2>3. Own' = Own
    BY <2>1 DEF Own
  <2> QED BY <2>1, <2>2, <2>3, StillMeant DEF Loading
<1> QED BY <1>1, <1>2, <1>3

\* The script runs: what is made on the way hides no variable that the name
\* means, except where an array puts an element.
LEMMA RunningMeant ==
  ASSUME VarInv, VarInv', MeantOK, Kept, Running, NEW name \in Names, NEW mode \in Modes, NEW oom,
         FindsOrAdds(name, mode, oom),
         \/ meant' = meant /\ (PrefersLocal(mode) \/ mode = "default")
         \/ mode \in {"local", "global"}
              /\ meant' = IF /\ <<CurrentFunc, name>> = Watched
                             /\ mode = "local" /\ meant = Global THEN "-" ELSE meant
  PROVE  MeantOK'
<1> DEFINE c == Context
           f == FindVar(lists, c, name, mode)
           d == Declared(c, name, mode)
<1>1. /\ lists' = lists \/ Takes(FindOrAddVar(c, name, mode, oom))
      /\ UNCHANGED <<mIsReadyToExecute, context, loaded>>
  BY DEF FindsOrAdds, Ends
<1>2. /\ func' = func /\ CurrentFunc' = CurrentFunc /\ loaded' = loaded
      /\ mIsReadyToExecute /\ mIsReadyToExecute'
  BY <1>1 DEF context, Running
<1>3. c.func = CurrentFunc /\ ContextOK(c)
  BY ContextOfWatched, ContextIs DEF VarInv
<1>4. MeantExcepted' /\ MeantHead' /\ ~Loading'
  BY <1>2 DEF MeantExcepted, MeantHead, Loading
<1>5. CurrentFunc = Fn => Fn \in loaded
  BY DEF MeantOK, MeantBefore
<1> HIDE DEF c
<1>6. ASSUME Own', ~Own
      PROVE  /\ name = Nm /\ CurrentFunc = Fn /\ d.scope = Fn /\ f.scope = NULL
  <2>1. lists' # lists
    BY <1>6 DEF Own
  <2> QED BY <1>1, <1>3, <1>6, <2>1, NewOwn
<1>7. CASE meant' = meant
  <2>1. ASSUME Own', ~Own, meant = Global, ~lists[Global].lost PROVE FALSE
    <3>1. In(lists[Global], Nm)
      BY <2>1, WatchedIs DEF MeantOK, MeantThere
    <3>2. CASE PrefersLocal(mode) \/ mode = "default"
      <4> HIDE DEF f, d
      <4>1. ListsOK(lists)
        BY DEF VarInv, MemoryOK
      <4>2. (PrefersLocal(mode) \/ (mode = "default" /\ mIsReadyToExecute))
              /\ In(lists[Global], name) => f.scope # NULL
        BY <1>3, <4>1, FindVarFinds DEF f
      <4> QED BY <1>2, <1>6, <2>1, <3>1, <3>2, <4>2
    <3>3. CASE mode = "local"
      <4>1. <<CurrentFunc, name>> = Watched
        BY <1>6, <2>1, VarListsAssumption DEF Fn, Nm
      <4>2. mode # "default" /\ ~PrefersLocal(mode)
        BY <3>3, Zenon DEF PrefersLocal
      <4>3. meant' = "-"
        BY <2>1, <3>3, <4>1, <4>2, Zenon
      <4> QED BY <1>7, <2>1, <4>3, WatchedIs
    <3>4. CASE mode = "global"
      <4>1. d.scope = Global
        BY <1>3, <3>4, DeclaredIs
      <4> QED BY <1>6, <2>1, <4>1, WatchedIs
    <3> QED BY <3>2, <3>3, <3>4, Zenon
  <2>2. Own' /\ ~Own => Fn \in loaded /\ (meant = Global => lists[Global].lost)
    BY <1>5, <1>6, <2>1
  <2> QED BY <1>2, <1>4, <1>5, <1>7, <2>2, StillMeant
<1>8. CASE meant' # meant
  <2>1. meant' = "-" /\ meant = Global /\ CurrentFunc = Fn
    <3>1. meant' = "-" /\ meant = Global /\ <<CurrentFunc, name>> = Watched
      BY <1>8, Zenon
    <3> QED BY <3>1 DEF Fn
  <2>2. MeantThere' /\ MeantBefore'
    BY <1>2, <1>5, <2>1, WatchedIs DEF MeantThere, MeantBefore
  <2>3. MeantParam'
    BY <1>4 DEF MeantParam
  <2> QED BY <1>4, <2>2, <2>3 DEF MeantOK
<1> QED BY <1>7, <1>8

LEMMA NextMeant == ASSUME VarInv, MeantOK, [Next]_vars PROVE MeantOK'
<1>0. VarInv' /\ Kept
  BY NextKeeps
<1>1. ASSUME NEW name \in Names, AddLine(name) PROVE MeantOK'
  BY <1>0, <1>1, AddLineMeant
<1>2. ASSUME NEW name \in Names, NEW keyword, Declare(keyword, name) PROVE MeantOK'
  BY <1>0, <1>2, DeclareMeant
<1>3. ASSUME NEW name \in Names, NEW oom, ResolveVarOfArg(name, oom) PROVE MeantOK'
  <2> DEFINE mode == "prefer local"
  <2>1. mode \in Modes /\ PrefersLocal(mode)
    BY Zenon DEF Modes, PrefersLocal
  <2>2. Running /\ FindsOrAdds(name, mode, oom) /\ meant' = meant
    BY <1>3, Zenon DEF ResolveVarOfArg
  <2> HIDE DEF mode
  <2> QED BY <1>0, <2>1, <2>2, RunningMeant
<1>4. ASSUME NEW name \in Names, NEW oom, NEW base \in Scopes, AddElement(base, name, oom)
      PROVE  MeantOK'
  <2> DEFINE mode == IF base = Global THEN "global" ELSE "local"
  <2>1. mode \in Modes /\ mode \in {"local", "global"}
    BY Zenon DEF Modes
  <2>2. Running /\ FindsOrAdds(name, mode, oom)
        /\ meant' = IF /\ <<CurrentFunc, name>> = Watched
                       /\ mode = "local" /\ meant = Global THEN "-" ELSE meant
    BY <1>4, Zenon DEF AddElement
  <2> HIDE DEF mode
  <2> QED BY <1>0, <2>1, <2>2, RunningMeant
<1>5. ASSUME NEW name \in Names, NEW oom, ahkassign(name, oom) PROVE MeantOK'
  <2> DEFINE mode == "default"
  <2>1. mode \in Modes /\ mode = "default"
    BY Zenon DEF Modes
  <2>2. Running /\ FindsOrAdds(name, mode, oom) /\ meant' = meant
    BY <1>5, Zenon DEF ahkassign
  <2> HIDE DEF mode
  <2> QED BY <1>0, <2>1, <2>2, RunningMeant
<1>6. ASSUME NEW f \in Funcs, NEW params \in ParamLists, DefineFunc(f, params)
      PROVE  MeantOK'
  BY <1>0, <1>6, DefineFuncMeant
<1>7. ASSUME DeclareAssumeGlobal \/ EndFunc \/ FinishLoading PROVE MeantOK'
  BY <1>0, <1>7, OtherLoadingMeant
<1>8. ASSUME UNCHANGED <<lists, mIsReadyToExecute, func, loaded, meant>>,
             \/ UNCHANGED <<CurrentFunc, exceptions, mNextLineIsFunctionBody>>
             \/ Running /\ CurrentFunc' \in loaded \union {NULL}
      PROVE  MeantOK'
  <2>1. CurrentFunc' = Fn => Fn \in loaded
    BY <1>8, WatchedIs DEF MeantOK, MeantBefore
  <2>2. MeantExcepted' /\ MeantHead'
    BY <1>8 DEF MeantOK, MeantExcepted, MeantHead, Loading, Running, Type
  <2>3. Own' = Own
    BY <1>8 DEF Own
  <2> QED BY <1>0, <1>8, <2>1, <2>2, <2>3, StillMeant DEF Loading
<1>9. ASSUME NEW f \in Funcs \union {NULL}, Switch(f) PROVE MeantOK'
  BY <1>8, <1>9 DEF Switch
<1>10. ASSUME NEW oom, FailedHotkey(oom) PROVE MeantOK'
  BY <1>8, <1>10 DEF FailedHotkey, context
<1>11. ASSUME UNCHANGED vars PROVE MeantOK'
  BY <1>8, <1>11 DEF vars
<1> QED BY <1>1, <1>2, <1>3, <1>4, <1>5, <1>6, <1>7, <1>9, <1>10, <1>11 DEF Next

LEMMA MeantAgrees == ASSUME VarInv, MeantOK PROVE StaticAndDynamicAgree
<1> DEFINE mode == "prefer local"
           c == Context
           f == FindVar(lists, c, Nm, mode)
           d == Declared(c, Nm, mode)
<1> SUFFICES ASSUME Running, CurrentFunc = Fn, meant \notin {NULL, "-"},
                    ~lists[Fn].lost, ~lists[Global].lost
             PROVE  f.scope = meant
  BY Zenon DEF StaticAndDynamicAgree, Fn, Nm
<1>1. mode \in Modes /\ PrefersLocal(mode) /\ mode # "default"
  BY Zenon DEF Modes, PrefersLocal
<1>7. mode \in {"local", "prefer local"}
  OBVIOUS
<1>2. c.func = Fn /\ c.func # NULL /\ ContextOK(c) /\ ListsOK(lists)
  BY ContextOfWatched, ContextIs, WatchedIs DEF VarInv, MemoryOK
<1> HIDE DEF c, mode
<1>3. d.scope = Fn
  BY <1>2, <1>7, DeclaredInFunction, Zenon
<1>4. ~d.known
  BY <1>1, DeclaredKnown
<1> HIDE DEF f, d
<1>5. /\ In(lists[d.scope], Nm) => f.scope = d.scope
      /\ In(lists[Global], Nm) /\ ~In(lists[d.scope], Nm) /\ ~d.known
           /\ PrefersLocal(mode) => f.scope = Global
  BY <1>1, <1>2, WatchedIs, FindVarFinds DEF f, d
<1>6. meant \in {Fn, Global} /\ In(lists[meant], Nm) /\ (meant = Global => ~Own)
  BY DEF MeantOK, MeantThere, VarInv, ScriptOK
<1> QED BY <1>1, <1>3, <1>4, <1>5, <1>6 DEF Own

-------------------------------------------------------------------------------
(* Theorems *)

\* Every list stays sorted and within its memory, no name is in both lists of a
\* scope, and all else has its type; until an allocation has failed, the lazy list
\* has room for one more and no memory is touched that is not set or not the
\* program's (script.cpp, AddVar).
THEOREM TypeCorrect == Spec => []TypeOK
BY VarInvAlways, VarInvTypes, PTL

\* No two chunks that are in use overlap, whatever is given back in between
\* (SimpleHeap.cpp, Malloc and Delete).
THEOREM ChunksAlwaysApart == Spec => []HeapSound
<1>1. VarInv => HeapSound
  BY HeapInvOK DEF VarInv, MemoryOK, HeapSound
<1> QED BY <1>1, VarInvAlways, PTL

\* A variable, once made, is found for good by the binary searches: no
\* insertion, growth or merge loses one, also if memory is refused - but those of
\* a full lazy list, if memory is refused to its merge while the main list is
\* short of its third size (script.cpp, FindVar and AddVar).
THEOREM VariablesNeverLost == Spec => NoneLost
<1> DEFINE Few(s, name) ==
             /\ accidents' # accidents /\ lists[s].max < Sizes[3]
             /\ lists[s].lazy # NULL /\ Len(lists[s].lazy) + 1 = MAX_LAZY_VARS
             /\ name \in ToSet(lists[s].lazy)
           Found == \A s \in Scopes : lists'[s] # lists[s] =>
                      \A name \in Names : Has(lists, s, name) =>
                        \/ Has(lists', s, name)
                        \/ /\ accidents' # accidents /\ lists[s].max < Sizes[3]
                           /\ lists[s].lazy # NULL /\ Len(lists[s].lazy) + 1 = MAX_LAZY_VARS
                           /\ name \in ToSet(lists[s].lazy)
<1>1. ASSUME VarInv, VarInv', Kept PROVE Found
  <2>1. ASSUME NEW s \in Scopes, NEW name \in Names, Has(lists, s, name)
        PROVE  Has(lists', s, name) \/ Few(s, name)
    <3>1. ListOK(lists[s]) /\ ListOK(lists'[s])
      BY <1>1 DEF VarInv, MemoryOK, ListsOK
    <3>2. In(lists[s], name)
      BY <2>1, <3>1, LookupIs DEF Has
    <3>3. CASE In(lists'[s], name)
      BY <3>1, <3>3, LookupIs DEF Has
    <3>4. CASE ~In(lists'[s], name)
      <4>1. accidents' # accidents
        BY <1>1, <3>2, <3>4 DEF Kept, Keeps
      <4>2. Loses(lists[s], name)
        BY <1>1, <3>2, <3>4 DEF Kept, MostlyKeeps
      <4>3. lists[s].lazy \in Sorted
        BY <3>1, <4>2 DEF ListOK, Lists, Loses
      <4>4. name \in ToSet(lists[s].lazy)
        <5>1. DOMAIN lists[s].lazy = 1 .. Len(lists[s].lazy)
          BY <4>3, LenProperties DEF Sorted
        <5> QED BY <4>2, <5>1 DEF Loses, Occurs, ToSet
      <4> QED BY <4>1, <4>2, <4>4 DEF Loses
    <3> QED BY <3>3, <3>4
  <2> QED BY <2>1
<1>2. VarInv /\ [Next]_vars => [Found]_vars
  BY <1>1, NextKeeps
<1> QED BY <1>2, VarInvAlways, PTL DEF Spec, NoneLost

\* A name that a function uses in its lines means the same variable when the
\* function builds it dynamically, after the declarations have been forgotten,
\* unless it meant two things in the body, an array has put an element of that
\* name elsewhere or variables are lost (script.cpp, FindVar): for every function
\* and name watched.
THEOREM DeclarationsOutlived == Spec => []StaticAndDynamicAgree
<1>1. Init => MeantOK
  BY MeantInit
<1>2. VarInv /\ MeantOK /\ [Next]_vars => MeantOK'
  BY NextMeant
<1>3. VarInv /\ MeantOK => StaticAndDynamicAgree
  BY MeantAgrees
<1> QED BY <1>1, <1>2, <1>3, VarInvAlways, PTL DEF Spec
===============================================================================
