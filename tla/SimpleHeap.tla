------------------------------ MODULE SimpleHeap ------------------------------
(***************************************************************************)
(* SimpleHeap.cpp: the memory of names, variables, functions, hotkeys and  *)
(* the script's lines.  Chunks are cut off the last block one after the    *)
(* other and never given back, but for the most recent one.  A heap is a   *)
(* record:                                                                 *)
(*                                                                         *)
(*   sBlockCount              the number of blocks; the last is sLast      *)
(*   mFreeMarker              of sLast, from its start; mSpaceAvailable is *)
(*                            what is left of the block                    *)
(*   sMostRecentlyAllocated   the chunk Delete can give back, or NULL      *)
(*   live                     (auxiliary) the chunks clients still use     *)
(*                                                                         *)
(* A chunk is its block, its first byte and its size.  The list of blocks  *)
(* is left out: nothing goes through it (DeleteAll is commented out).      *)
(***************************************************************************)
EXTENDS Integers, FiniteSets

CONSTANTS BLOCK_SIZE,   \* 32 KB in the program
          NULL

ASSUME BlockAssumption == BLOCK_SIZE \in Nat \ {0} /\ BLOCK_SIZE % 4 = 0

Chunk == [block : Nat \ {0}, at : 0 .. BLOCK_SIZE - 1, size : 1 .. BLOCK_SIZE]
ASSUME NullAssumption == NULL \notin Chunk

\* A heap without a block has no room, so that the first Malloc makes one.
EmptyHeap == [sBlockCount |-> 0, mFreeMarker |-> BLOCK_SIZE,
              sMostRecentlyAllocated |-> NULL, live |-> {}]

mSpaceAvailable(heap) == BLOCK_SIZE - heap.mFreeMarker

CreateBlock(heap) == [heap EXCEPT !.sBlockCount = @ + 1, !.mFreeMarker = 0]

\* The next chunk starts on a multiple of four bytes.
Consumed(size) == IF size % 4 = 0 THEN size ELSE size + (4 - (size % 4))

\* The heap after Malloc, and what it returns; oom says that the system has no
\* memory for another block.
Malloc(heap, aSize, oom) ==
  IF aSize \notin 1 .. BLOCK_SIZE \/ (oom /\ aSize > mSpaceAvailable(heap))
  THEN [heap |-> heap, ptr |-> NULL]
  ELSE LET last  == IF aSize > mSpaceAvailable(heap) THEN CreateBlock(heap) ELSE heap
           chunk == [block |-> last.sBlockCount, at |-> last.mFreeMarker, size |-> aSize]
       IN [heap |-> [last EXCEPT !.mFreeMarker = @ + Consumed(aSize),
                                 !.sMostRecentlyAllocated = chunk,
                                 !.live = @ \union {chunk}],
           ptr  |-> chunk]

DeleteAny(heap, aPtr) ==   \* mutant: any chunk is given back
  [heap EXCEPT !.mFreeMarker = aPtr.at, !.sMostRecentlyAllocated = NULL,
               !.live = @ \ {aPtr}]

\* Only the most recent chunk is given back, once; any other is lost.
Delete(heap, aPtr) ==
  IF aPtr = heap.sMostRecentlyAllocated
  THEN [heap EXCEPT !.mFreeMarker = aPtr.at, !.sMostRecentlyAllocated = NULL,
                    !.live = @ \ {aPtr}]
  ELSE [heap EXCEPT !.live = @ \ {aPtr}]

HeapOK(heap) ==
  /\ heap.sBlockCount \in Nat /\ heap.mFreeMarker \in 0 .. BLOCK_SIZE
  /\ heap.live \subseteq Chunk
  /\ heap.sMostRecentlyAllocated \in Chunk \union {NULL}

\* Chunks in use lie within their blocks, each on a four-byte boundary, and no
\* two overlap, whatever was given back in between (SimpleHeap.cpp:89-100).
ChunksApart(heap) ==
  \A c \in heap.live :
    /\ c.block \in 1 .. heap.sBlockCount
    /\ c.at % 4 = 0 /\ c.at + c.size <= BLOCK_SIZE
    /\ \A d \in heap.live \ {c} :
         d.block # c.block \/ d.at + d.size <= c.at \/ c.at + c.size <= d.at
===============================================================================
