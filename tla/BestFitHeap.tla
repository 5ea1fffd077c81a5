---------------------------- MODULE BestFitHeap -----------------------------
(***************************************************************************)
(* SimpleBestFitAllocator (src/libgralloc/allocator.cpp) as operators on   *)
(* its linked list mList.  The list is the sequence of its chunks from     *)
(* head to tail; chunk_t::prev and next are the neighbours in it.  Sizes   *)
(* and starts of chunks count blocks of kMemoryAlign bytes, while callers  *)
(* pass and receive bytes.                                                 *)
(***************************************************************************)
EXTENDS Integers, Sequences

CONSTANTS PageSize,   \* getpagesize()
          HeapBytes   \* the size given to setSize()

kMemoryAlign == 32

ASSUME PageAssumption == /\ PageSize \in Nat \ {0}
                         /\ PageSize % kMemoryAlign = 0

ASSUME HeapAssumption == HeapBytes \in Nat \ {0}

PageBlocks == PageSize \div kMemoryAlign
RoundUpToPage(n) == ((n + PageSize - 1) \div PageSize) * PageSize
HeapBlocks == RoundUpToPage(HeapBytes) \div kMemoryAlign
BlocksOf(n) == (n + kMemoryAlign - 1) \div kMemoryAlign

Chunk == [start : Nat, size : Nat, free : BOOLEAN]
FreeChunk(s, n) == [start |-> s, size |-> n, free |-> TRUE]
BusyChunk(s, n) == [start |-> s, size |-> n, free |-> FALSE]
End(c) == c.start + c.size

\* The list after setSize(): one free chunk.
FreshList == <<FreeChunk(0, HeapBlocks)>>

-----------------------------------------------------------------------------
(* alloc() *)

\* Blocks skipped at the front of a chunk to reach a page boundary.
Extra(c) == (PageBlocks - (c.start % PageBlocks)) % PageBlocks

\* Faulty variant: what alignment skips is not counted.
CandidatesUnaligned(list, n) ==
    {i \in DOMAIN list : list[i].free /\ list[i].size >= n}

Candidates(list, n) ==
    {i \in DOMAIN list : list[i].free /\ list[i].size >= n + Extra(list[i])}

\* Faulty variant: the first candidate is taken, not the smallest.
IsFirstFit(list, n, i) ==
    i \in Candidates(list, n) /\ \A j \in Candidates(list, n) : i <= j

\* The scan keeps the first of the smallest candidates.
IsBestFit(list, n, i) ==
    /\ i \in Candidates(list, n)
    /\ \A j \in Candidates(list, n) :
          \/ list[i].size < list[j].size
          \/ list[i].size = list[j].size /\ i <= j

\* list with the chunks first..last replaced by the chunks of mid.
Splice(list, first, last, mid) ==
    SubSeq(list, 1, first - 1) \o mid \o SubSeq(list, last + 1, Len(list))

FreePiece(s, n) == IF n > 0 THEN <<FreeChunk(s, n)>> ELSE <<>>

\* Chunk c cut into what alignment skips, the n busy blocks, and the tail.
Cut(c, n) ==
    LET first == c.start + Extra(c)
    IN  FreePiece(c.start, Extra(c)) \o <<BusyChunk(first, n)>>
          \o FreePiece(first + n, c.size - (n + Extra(c)))

AfterAlloc(list, i, n) == Splice(list, i, i, Cut(list[i], n))

\* The offset, in bytes, alloc() returns for chunk i.
OffsetOf(list, i) == (list[i].start + Extra(list[i])) * kMemoryAlign

-----------------------------------------------------------------------------
(* dealloc() *)

IsFirstAt(list, offset, k) ==
    /\ k \in DOMAIN list
    /\ list[k].start = offset \div kMemoryAlign
    /\ \A j \in 1..(k - 1) : list[j].start # offset \div kMemoryAlign

\* Chunk i + 1 removed from the list and its blocks added to chunk i.
Absorb(list, i) ==
    Splice(list, i, i + 1,
           <<[list[i] EXCEPT !.size = @ + list[i + 1].size]>>)

AbsorbNext(list, i) ==
    IF i < Len(list) /\ list[i + 1].free THEN Absorb(list, i) ELSE list

\* Faulty variant: a free successor is not merged.
AfterDeallocBackward(list, k) ==
    LET freed == Splice(list, k, k, <<[list[k] EXCEPT !.free = TRUE]>>)
    IN  IF k > 1 /\ list[k - 1].free THEN Absorb(freed, k - 1) ELSE freed

\* Chunk k set free, merged into a free predecessor, and then with a free
\* successor.  The loop of the code goes on while the next chunk is free; it
\* stops after one because no list has two free chunks in a row (Coalesced).
AfterDealloc(list, k) ==
    LET freed == Splice(list, k, k, <<[list[k] EXCEPT !.free = TRUE]>>)
    IN  IF k > 1 /\ list[k - 1].free
        THEN AbsorbNext(Absorb(freed, k - 1), k - 1)
        ELSE AbsorbNext(freed, k)

-----------------------------------------------------------------------------
(* What makes a list a heap *)

\* The chunks follow each other from 0 to the end of the heap: no block is
\* lost and none is in two chunks.
Tiles(list) ==
    /\ list # <<>>
    /\ list[1].start = 0
    /\ End(list[Len(list)]) = HeapBlocks
    /\ \A i \in 1..(Len(list) - 1) : End(list[i]) = list[i + 1].start

Ascending(list) ==
    \A i, j \in DOMAIN list : i < j => End(list[i]) <= list[j].start

NoEmptyChunk(list) == \A i \in DOMAIN list : list[i].size > 0

Coalesced(list) ==
    \A i \in 1..(Len(list) - 1) : ~(list[i].free /\ list[i + 1].free)
=============================================================================
