--------------------------- MODULE PmemUserspace ----------------------------
(***************************************************************************)
(* PmemUserspaceAllocator (src/libgralloc/pmemalloc.cpp): the area mapped  *)
(* once per process and the buffers carved out of it by threads that call  *)
(* alloc_pmem_buffer and free_pmem_buffer at the same time.                *)
(*                                                                         *)
(* A buffer goes through the stages of the call that works on it, so the   *)
(* steps of calls on different buffers interleave.  Only init_pmem_area    *)
(* (its pthread lock) and the allocator's own methods (its Locker) are     *)
(* atomic; every kernel call in between may fail.                          *)
(***************************************************************************)
EXTENDS BestFitHeap

CONSTANTS Buffers,   \* the buffers that may exist at the same time
          Sizes      \* the sizes, in bytes, clients ask for

ASSUME SizesAssumption == Sizes \subseteq Nat \ {0}

VARIABLES master_fd,  \* "init", "open" or "error", what lock protects
          mList,      \* the allocator's chunks; <<>> while mHeapSize is 0
          stage,      \* how far the call on each buffer got
          size,       \* the size asked for
          offset      \* the offset of the buffer's memory in the area

vars == <<master_fd, mList, stage, size, offset>>

Stages == {"none",      \* no memory, no call in progress
           "inited",    \* alloc: init_pmem_area returned 0
           "carved",    \* alloc: has its offset, sub-heap not yet made
           "undo",      \* alloc: the sub-heap failed, offset not given back
           "live",      \* the client has it and its memory is mapped
           "unmapped",  \* free: PMEM_UNMAP done, offset not given back
           "leaked"}    \* free: PMEM_UNMAP failed, the client keeps access

Init == /\ master_fd = "init"
        /\ mList = <<>>
        /\ stage = [b \in Buffers |-> "none"]
        /\ size = [b \in Buffers |-> 0]
        /\ offset = [b \in Buffers |-> 0]

-----------------------------------------------------------------------------
(* alloc_pmem_buffer *)

\* init_pmem_area_locked, first call: open and mmap of the master heap, with
\* setSize in between.  When mmap or the size query fails after setSize the
\* list is made all the same, and the error is kept in master_fd for good.
FirstInit(b) ==
    /\ master_fd = "init"
    /\ \/ /\ master_fd' = "open"                        \* all calls succeed
          /\ mList' = FreshList
          /\ stage' = [stage EXCEPT ![b] = "inited"]
       \/ /\ master_fd' = "error"                       \* open failed
          /\ UNCHANGED <<mList, stage>>
       \/ /\ master_fd' = "error"                       \* a later call failed
          /\ mList' = FreshList
          /\ UNCHANGED stage

LaterInit(b) ==
    /\ master_fd # "init"
    /\ stage' = IF master_fd = "open" THEN [stage EXCEPT ![b] = "inited"]
                                      ELSE stage
    /\ UNCHANGED <<master_fd, mList>>

InitPmemArea(b) ==
    /\ stage[b] = "none"
    /\ \E n \in Sizes : size' = [size EXCEPT ![b] = n]
    /\ FirstInit(b) \/ LaterInit(b)
    /\ UNCHANGED offset

Allocate(b) ==
    /\ stage[b] = "inited"
    /\ \E i \in DOMAIN mList :
          /\ IsBestFit(mList, BlocksOf(size[b]), i)
          /\ offset' = [offset EXCEPT ![b] = OffsetOf(mList, i)]
          /\ mList' = AfterAlloc(mList, i, BlocksOf(size[b]))
    /\ stage' = [stage EXCEPT ![b] = "carved"]
    /\ UNCHANGED <<master_fd, size>>

NoMorePmem(b) ==
    /\ stage[b] = "inited"
    /\ Candidates(mList, BlocksOf(size[b])) = {}
    /\ stage' = [stage EXCEPT ![b] = "none"]
    /\ UNCHANGED <<master_fd, mList, size, offset>>

\* open, connectPmem and mapPmem of the sub-heap; any of them may fail.
MakeSubHeap(b) ==
    /\ stage[b] = "carved"
    /\ \E s \in {"live", "undo"} : stage' = [stage EXCEPT ![b] = s]
    /\ UNCHANGED <<master_fd, mList, size, offset>>

\* allocator.deallocate(offset), on the error path of alloc_pmem_buffer and
\* at the end of free_pmem_buffer.
Deallocate(b) ==
    /\ \E k \in DOMAIN mList : /\ IsFirstAt(mList, offset[b], k)
                               /\ mList' = AfterDealloc(mList, k)
    /\ stage' = [stage EXCEPT ![b] = "none"]
    /\ UNCHANGED <<master_fd, size, offset>>

\* Faulty variant: the error path returns without deallocating.
UndoNothing(b) ==
    /\ stage[b] = "undo"
    /\ stage' = [stage EXCEPT ![b] = "none"]
    /\ UNCHANGED <<master_fd, mList, size, offset>>

UndoAllocate(b) == stage[b] = "undo" /\ Deallocate(b)

-----------------------------------------------------------------------------
(* free_pmem_buffer *)

\* Faulty variant: the memory is given back even when PMEM_UNMAP fails.
UnmapAndForget(b) ==
    /\ stage[b] = "live"
    /\ \/ stage' = [stage EXCEPT ![b] = "unmapped"] /\ UNCHANGED mList
       \/ /\ stage' = [stage EXCEPT ![b] = "leaked"]
          /\ \E k \in DOMAIN mList : /\ IsFirstAt(mList, offset[b], k)
                                     /\ mList' = AfterDealloc(mList, k)
    /\ UNCHANGED <<master_fd, size, offset>>

\* The memory is not given back when PMEM_UNMAP fails.
UnmapSubHeap(b) ==
    /\ stage[b] = "live"
    /\ \E s \in {"unmapped", "leaked"} : stage' = [stage EXCEPT ![b] = s]
    /\ UNCHANGED <<master_fd, mList, size, offset>>

FreeOffset(b) == stage[b] = "unmapped" /\ Deallocate(b)

Next == \E b \in Buffers :
           \/ InitPmemArea(b) \/ Allocate(b) \/ NoMorePmem(b)
           \/ MakeSubHeap(b) \/ UndoAllocate(b)
           \/ UnmapSubHeap(b) \/ FreeOffset(b)

Spec == Init /\ [][Next]_vars

-----------------------------------------------------------------------------
(* Properties *)

\* The variables have their types, and the list exists once an area does.
TypeOK == /\ master_fd \in {"init", "open", "error"}
          /\ mList \in Seq(Chunk)
          /\ stage \in [Buffers -> Stages]
          /\ size \in [Buffers -> Sizes \cup {0}]
          /\ offset \in [Buffers -> Nat]

Carved == {"carved", "undo", "live", "unmapped", "leaked"}
Mapped == {"live", "leaked"}

Blocks(b) == [start |-> offset[b] \div kMemoryAlign,
              size  |-> BlocksOf(size[b]),
              free  |-> FALSE]

\* The chunk list is a partition of the heap into chunks in address order,
\* whatever splits and merges have been done (alloc and dealloc).
HeapIsTiled ==
    mList # <<>> => Tiles(mList) /\ Ascending(mList) /\ NoEmptyChunk(mList)

\* Freed memory is merged with its free neighbours, so that a heap whose
\* buffers are all freed can again serve a request for all of it (dealloc).
NoFragments == Coalesced(mList)

\* After any sequence of calls the list of chunks is a partition of the heap
\* in which all free neighbours are merged (SimpleBestFitAllocator).
HeapIsSound == HeapIsTiled /\ NoFragments

\* The client of a buffer, and one whose PMEM_UNMAP failed, reach memory of
\* that buffer only: "it would give that process access to someone else's
\* surfaces" (free_pmem_buffer).
NoForeignSurface ==
    \A a, b \in Buffers :
       a # b /\ stage[a] \in Mapped /\ stage[b] \in Carved =>
          \/ End(Blocks(a)) <= Blocks(b).start
          \/ End(Blocks(b)) <= Blocks(a).start

\* Exactly the buffers with memory have a busy chunk of their own, of the
\* size asked for: the error paths neither lose nor free twice a chunk, and
\* the fatal "already freed" of dealloc is never reached.
BusyChunksOwned ==
    /\ \A b \in Buffers : stage[b] \in Carved =>
          \E i \in DOMAIN mList : mList[i] = Blocks(b)
    /\ \A i \in DOMAIN mList : ~mList[i].free =>
          \E b \in Buffers : stage[b] \in Carved /\ mList[i] = Blocks(b)
    /\ \A a, b \in Buffers : a # b /\ {stage[a], stage[b]} \subseteq Carved =>
          offset[a] # offset[b]

\* The free chunks that can hold need blocks from a page boundary on.
RoomFor(list, need) ==
    {i \in DOMAIN list : /\ list[i].free
                         /\ \E s \in list[i].start..End(list[i]) :
                               s % PageBlocks = 0 /\ s + need <= End(list[i])}

\* What an answer to the request for b must be.
AnsweredWell(b) ==
    LET room == RoomFor(mList, BlocksOf(size[b]))
    IN  IF stage'[b] = "none" THEN room = {}
        ELSE /\ offset'[b] % PageSize = 0
             /\ \E i \in room :
                   /\ mList[i].start <= Blocks(b)'.start
                   /\ End(Blocks(b)') <= End(mList[i])
                   /\ \A j \in room : mList[i].size <= mList[j].size

\* A request is refused only when no free chunk could hold it at a page
\* boundary, and is otherwise served at one, as PMEM_MAP needs, from a smallest
\* chunk that can, also after requests of sizes that leave gaps (alloc).
BestFitOrRefusal ==
    [][\A b \in Buffers :
          stage[b] = "inited" /\ stage'[b] # "inited" => AnsweredWell(b)]_vars

granted == [b \in Buffers |->
              IF stage[b] \in Carved
              THEN [from |-> offset[b],
                    to   |-> offset[b] + BlocksOf(size[b]) * kMemoryAlign]
              ELSE [from |-> 0, to |-> 0]]

Pool == INSTANCE RegionPool WITH Clients <- Buffers,
                                 Limit   <- HeapBlocks * kMemoryAlign

\* Allocation and freeing implement the abstract pool of disjoint regions.
PoolSpec == Pool!Spec
=============================================================================
